------------------------- MODULE AegisHarnessProofs -------------------------
(***************************************************************************)
(* Theorems of AegisHarness: any number of runs and turns, any tools,      *)
(* responses and retries, a crash at any step; and, at the end, of the     *)
(* guarded conversation that is held beside it (SentinelAI).               *)
(***************************************************************************)
EXTENDS AegisHarness, SentinelAI, TLAPS, SequenceTheorems, FiniteSetTheorems, WellFoundedInduction

----------------------------------------------------------------------------
(* The inductive invariant. *)

Phase == {"idle", "turn", "model", "tools", "open", "write"}

TypeOK ==
  /\ disk \in [Step -> HarnessState \cup {Absent, Torn}]
  /\ state \in HarnessState \cup {Absent}
  /\ recent \in HarnessState \cup {Absent}
  /\ runs \in Nat
  /\ finished \subseteq 0 .. runs
  /\ results \in Seq({"tool"})
  /\ pc \in Phase
  /\ pc = "idle" <=> state = Absent

(* What the loop has of its own state, where it stands. *)
Counted ==
  state # Absent =>
    /\ state.session <= runs
    /\ pc \in {"turn", "model", "tools"} => state.reason = "none"
    /\ state.reason = "none" => state.turns <= MaxTurns
    /\ state.turns <= MaxTurns + 1
    /\ pc # "turn" => state.turns >= 1

(* A file has the number of its turn. *)
Filed ==
  \A n \in Step : Readable(n) =>
    /\ disk[n].turns = n
    /\ disk[n].session <= runs
    /\ disk[n].reason = "none" => n <= MaxTurns

(* Two files of a session are two moments of one conversation. *)
Chained ==
  \A m, n \in Step :
    m <= n /\ Readable(m) /\ Readable(n) =>
      (disk[m].session = disk[n].session => IsPrefix(disk[m].messages, disk[n].messages))

(* The unfinished checkpoints of a finished session are not the last. *)
Superseded ==
  \A n \in Step :
    Readable(n) =>
      (disk[n].session \in finished /\ ~Terminated(disk[n]) => \E m \in Saved : n < m)

IsLast(n) == n \in Saved /\ \A m \in Saved : m <= n

(* What is beyond the turn of the run in progress is an older session's,   *)
(* and ended.                                                              *)
Shadowed ==
  state # Absent =>
    \A n \in Step : IsLast(n) /\ state.turns < n =>
      Readable(n) /\ Terminated(disk[n]) /\ disk[n].session < state.session

(* A conversation begins with its goal, and ends with the results that the *)
(* model has not read, if there are any; a resumption puts the goal behind.*)
Settled(messages) ==
  /\ Len(messages) >= 1 /\ messages[1] = "goal"
  /\ \A i \in Unseen(messages) : \A j \in i .. Len(messages) : messages[j] = "tool"

Shaped(messages) ==
  /\ Len(messages) >= 1 /\ messages[1] = "goal"
  /\ \A i \in Unseen(messages) : \A j \in i .. Len(messages) - 1 : messages[j] = "tool"

Conversing ==
  /\ state # Absent =>
       /\ Shaped(state.messages)
       /\ pc \in {"open", "write"} /\ state.reason = "none" => Settled(state.messages)
  /\ \A n \in Step : Readable(n) => (~Terminated(disk[n]) => Settled(disk[n].messages))

IInv ==
  /\ TypeOK /\ Counted /\ Filed /\ Chained /\ HistoryDurable
  /\ Superseded /\ FinishedStaysFinished
  /\ Shadowed /\ LostOnlyToShadow
  /\ Conversing

----------------------------------------------------------------------------
(* Conversations. *)

LEMMA PrefixIs ==
  ASSUME NEW s \in Seq(Message), NEW t \in Seq(Message)
  PROVE  IsPrefix(s, t) <=> Len(s) <= Len(t) /\ \A i \in 1 .. Len(s) : s[i] = t[i]
<1> DEFINE n == Len(s)
<1>1. n \in Nat /\ Len(t) \in Nat
  OBVIOUS
<1>2. ASSUME n <= Len(t)
      PROVE  SubSeq(s, 1, n) = SubSeq(t, 1, n) <=> \A i \in 1 .. n : s[i] = t[i]
  <2>1. SubSeq(s, 1, n) = [i \in 1 .. n |-> s[i]]
    BY <1>1
  <2>2. SubSeq(t, 1, n) = [i \in 1 .. n |-> t[i]]
    BY <1>1, <1>2
  <2> QED BY <2>1, <2>2
<1> QED
  BY <1>2 DEF IsPrefix

LEMMA PrefixSelf ==
  ASSUME NEW s \in Seq(Message)
  PROVE  IsPrefix(s, s)
BY PrefixIs

LEMMA PrefixExtends ==
  ASSUME NEW s \in Seq(Message), NEW t \in Seq(Message), NEW u \in Seq(Message),
         IsPrefix(s, t)
  PROVE  IsPrefix(s, t \o u)
<1>1. Len(s) <= Len(t) /\ \A i \in 1 .. Len(s) : s[i] = t[i]
  BY PrefixIs
<1>2. t \o u \in Seq(Message) /\ Len(t \o u) = Len(t) + Len(u)
  OBVIOUS
<1>3. \A i \in 1 .. Len(t) : (t \o u)[i] = t[i]
  OBVIOUS
<1>4. Len(s) <= Len(t \o u) /\ \A i \in 1 .. Len(s) : s[i] = (t \o u)[i]
  BY <1>1, <1>2, <1>3
<1> QED
  BY <1>2, <1>4, PrefixIs

(* A message of the loop behind a conversation. *)
LEMMA AppendedIs ==
  ASSUME NEW s \in Seq(Message), NEW m \in Message
  PROVE  /\ s \o <<m>> \in Seq(Message)
         /\ Len(s \o <<m>>) = Len(s) + 1
         /\ (s \o <<m>>)[Len(s) + 1] = m
         /\ \A i \in 1 .. Len(s) : (s \o <<m>>)[i] = s[i]
OBVIOUS

(* The goal put behind what is settled. *)
LEMMA GoalShapes ==
  ASSUME NEW s \in Seq(Message), s = << >> \/ Settled(s)
  PROVE  Shaped(s \o <<"goal">>)
<1> DEFINE n == Len(s)
           t == s \o <<"goal">>
<1>1. /\ t \in Seq(Message) /\ Len(t) = n + 1 /\ t[n + 1] = "goal" /\ n \in Nat
      /\ \A i \in 1 .. n : t[i] = s[i]
  BY AppendedIs DEF Message
<1> HIDE DEF t
<1>2. t[1] = "goal"
  BY <1>1 DEF Settled
<1>3. ASSUME NEW i \in Unseen(t), NEW j \in i .. n
      PROVE  t[j] = "tool"
  <2>1. i \in 1 .. n
    BY <1>1 DEF Unseen
  <2>2. i \in Unseen(s)
    BY <1>1, <1>3, <2>1 DEF Unseen
  <2>3. Settled(s)
    BY <2>1
  <2> QED BY <1>1, <2>1, <2>2, <2>3 DEF Settled
<1>4. Len(t) >= 1 /\ Len(t) - 1 = n
  BY <1>1
<1>5. Shaped(t)
  BY <1>2, <1>3, <1>4 DEF Shaped
<1> QED
  BY <1>5 DEF t

(* An answer of the model has read whatever came before it. *)
LEMMA AnswerSettles ==
  ASSUME NEW s \in Seq(Message), Shaped(s), NEW u \in Seq(Message \ {"assistant"}),
         u = << >> \/ u = <<"correction">> \/ u \in Seq({"tool"})
  PROVE  /\ s \o <<"assistant">> \o u \in Seq(Message)
         /\ Settled(s \o <<"assistant">> \o u)
<1> DEFINE n == Len(s)
           a == s \o <<"assistant">>
           t == a \o u
<1>1. a \in Seq(Message) /\ Len(a) = n + 1 /\ a[n + 1] = "assistant" /\ n \in Nat
        /\ \A i \in 1 .. n : a[i] = s[i]
  BY AppendedIs DEF Message
<1> HIDE DEF a
<1>2. u \in Seq(Message) /\ Len(u) \in Nat
  OBVIOUS
<1>3. /\ t \in Seq(Message) /\ Len(t) = n + 1 + Len(u)
      /\ \A i \in 1 .. n + 1 : t[i] = a[i]
      /\ \A i \in 1 .. Len(u) : t[n + 1 + i] = u[i]
  BY <1>1, <1>2
<1> HIDE DEF t
<1>4. Len(t) >= 1 /\ t[1] = "goal"
  BY <1>1, <1>2, <1>3 DEF Shaped
<1>5. ASSUME NEW i \in Unseen(t), NEW j \in i .. Len(t)
      PROVE  t[j] = "tool"
  <2>1. i \in 1 .. Len(t) /\ t[i] = "tool"
    BY <1>5 DEF Unseen
  <2>2. i > n + 1
    BY <1>1, <1>2, <1>3, <1>5, <2>1 DEF Unseen
  <2> DEFINE k == i - (n + 1)
             l == j - (n + 1)
  <2>3. k \in 1 .. Len(u) /\ l \in 1 .. Len(u) /\ i = n + 1 + k /\ j = n + 1 + l
    BY <1>1, <1>2, <1>3, <2>1, <2>2
  <2> HIDE DEF k, l
  <2>4. t[i] = u[k] /\ t[j] = u[l]
    BY <1>3, <2>3
  <2>5. u \in Seq({"tool"})
    BY <2>1, <2>3, <2>4
  <2> QED BY <2>3, <2>4, <2>5
<1> QED
  BY <1>3, <1>4, <1>5 DEF Settled, t, a

LEMMA SettledIsShaped ==
  ASSUME NEW s \in Seq(Message), Settled(s)
  PROVE  Shaped(s)
<1>1. \A i \in Unseen(s) : \A j \in i .. Len(s) - 1 : j \in i .. Len(s)
  BY DEF Unseen
<1> QED
  BY <1>1 DEF Settled, Shaped

----------------------------------------------------------------------------
(* The steps. *)

LEMMA StateIsThere ==
  ASSUME NEW s \in HarnessState
  PROVE  s # Absent /\ s # Torn
BY StoreAssumption

LEMMA StateFields ==
  ASSUME TypeOK, state # Absent
  PROVE  /\ state \in HarnessState
         /\ state.session \in Nat /\ state.turns \in Nat
         /\ state.messages \in Seq(Message) /\ state.reason \in Reason
         /\ pc \in Phase \ {"idle"}
BY DEF TypeOK, HarnessState, Phase

LEMMA EmptyExtends ==
  ASSUME NEW s \in Seq(Message)
  PROVE  \E u \in Seq(Message) : s = s \o u
<1>1. << >> \in Seq(Message) /\ s = s \o << >>
  OBVIOUS
<1> QED BY <1>1

(* The steps of the loop in memory carry its conversation on. *)
Advances ==
  /\ state # Absent /\ state' \in HarnessState /\ state' # Absent
  /\ pc' \in Phase \ {"idle"}
  /\ results' \in Seq({"tool"})
  /\ state'.session = state.session /\ state.turns <= state'.turns
  /\ \E u \in Seq(Message) : state'.messages = state.messages \o u
  /\ UNCHANGED <<disk, progress, runs, recent, finished>>

LEMMA BeginTurnAdvances ==
  ASSUME TypeOK, Counted, BeginTurn
  PROVE  Advances /\ Counted' /\ state'.messages = state.messages
<1>1. state # Absent /\ pc = "turn"
  BY DEF BeginTurn, TypeOK, Phase
<1>2. /\ state \in HarnessState /\ state.session \in Nat /\ state.turns \in Nat
      /\ state.messages \in Seq(Message) /\ state.reason \in Reason
  BY <1>1, StateFields
<1>3. state.reason = "none" /\ state.turns <= MaxTurns /\ state.session <= runs /\ runs \in Nat
  BY <1>1 DEF Counted, TypeOK
<1>4. PICK r \in Reason :
        /\ state' = [state EXCEPT !.turns = @ + 1, !.reason = r]
        /\ r = "max_turns" \/ state.turns + 1 <= MaxTurns
        /\ pc' = IF r = "none" THEN "model" ELSE "open"
  <2>1. [state EXCEPT !.turns = @ + 1, !.reason = "none"] = [state EXCEPT !.turns = @ + 1]
    BY <1>2, <1>3 DEF HarnessState
  <2> QED BY <2>1 DEF BeginTurn, Reason
<1> DEFINE t == state.turns + 1
<1>5. /\ state' \in HarnessState
      /\ state'.turns = t /\ state'.session = state.session
      /\ state'.messages = state.messages /\ state'.reason = r
  <2>1. t \in Nat /\ state' = [state EXCEPT !.turns = t, !.reason = r]
    BY <1>2, <1>4
  <2> HIDE DEF t
  <2> QED BY <1>2, <2>1 DEF HarnessState
<1>6. \E u \in Seq(Message) : state'.messages = state.messages \o u
  BY <1>2, <1>5, EmptyExtends
<1>7. Advances
  <2>1. UNCHANGED <<disk, progress, runs, recent, finished>> /\ results' = results
    BY DEF BeginTurn, history
  <2>2. state' # Absent /\ state.turns <= state'.turns
    BY <1>2, <1>5, StateIsThere
  <2> HIDE DEF t
  <2> QED BY <1>1, <1>4, <1>5, <1>6, <2>1, <2>2 DEF Advances, TypeOK, Phase
<1>8. Counted'
  BY <1>2, <1>3, <1>4, <1>5, StoreAssumption DEF Counted, BeginTurn
<1> QED BY <1>5, <1>7, <1>8

(* Steps that leave the state of the run alone. *)
LEMMA StandingAdvances ==
  ASSUME TypeOK, Counted, state # Absent, state' = state,
         pc' \in {"turn", "model", "tools"}, pc \in {"model", "tools"},
         results' \in Seq({"tool"}), UNCHANGED <<disk, progress, runs, recent, finished>>
  PROVE  Advances /\ Counted'
<1>1. state \in HarnessState /\ state.turns \in Nat /\ state.messages \in Seq(Message)
  BY StateFields
<1>2. \E u \in Seq(Message) : state'.messages = state.messages \o u
  BY <1>1, EmptyExtends
<1>3. Advances
  BY <1>1, <1>2 DEF Advances, Phase
<1>4. Counted'
  BY DEF Counted
<1> QED BY <1>3, <1>4

LEMMA RetryAdvances ==
  ASSUME TypeOK, Counted, RetryTransient
  PROVE  Advances /\ Counted' /\ state' = state
<1>1. /\ pc = "model" /\ pc' = "turn" /\ state' = state /\ results' = results
      /\ UNCHANGED <<disk, progress, runs, recent, finished>>
  BY DEF RetryTransient, history
<1>2. state # Absent
  BY <1>1 DEF TypeOK
<1> QED BY <1>1, <1>2, StandingAdvances DEF TypeOK

LEMMA CallToolsAdvances ==
  ASSUME TypeOK, Counted, NEW r, NEW depths, CallTools(r, depths)
  PROVE  Advances /\ Counted' /\ state' = state
<1>1. /\ pc = "model" /\ pc' = "tools" /\ state' = state /\ results' = results
      /\ UNCHANGED <<disk, progress, runs, recent, finished>>
  BY DEF CallTools, history
<1>2. state # Absent
  BY <1>1 DEF TypeOK
<1> QED BY <1>1, <1>2, StandingAdvances DEF TypeOK

LEMMA AttemptAdvances ==
  ASSUME TypeOK, Counted, NEW i, Attempt(i)
  PROVE  Advances /\ Counted' /\ state' = state
<1>1. /\ pc = "tools" /\ pc' = "tools" /\ state' = state
      /\ UNCHANGED <<disk, progress, runs, recent, finished>>
  BY DEF Attempt, history
<1>2. results \in Seq({"tool"}) /\ state # Absent
  BY <1>1 DEF TypeOK
<1>3. results' \in Seq({"tool"})
  BY <1>2 DEF Attempt, Return
<1> QED BY <1>1, <1>2, <1>3, StandingAdvances

LEMMA HandoffAdvances ==
  ASSUME TypeOK, Counted, NEW r, Handoff(r)
  PROVE  Advances /\ Counted' /\ state'.messages = state.messages
           /\ state'.reason = "final_answer"
<1>1. state # Absent /\ pc = "model"
  BY DEF Handoff, TypeOK
<1>2. /\ state \in HarnessState /\ state.turns \in Nat /\ state.messages \in Seq(Message)
      /\ state.session \in Nat
  BY <1>1, StateFields
<1>3. /\ state' \in HarnessState /\ state'.turns = state.turns
      /\ state'.session = state.session /\ state'.messages = state.messages
      /\ state'.reason = "final_answer"
  BY <1>2 DEF Handoff, HarnessState, Reason
<1>4. \E u \in Seq(Message) : state'.messages = state.messages \o u
  BY <1>2, <1>3, EmptyExtends
<1>5. Advances
  <2>1. state' # Absent /\ state.turns <= state'.turns
    BY <1>2, <1>3, StateIsThere
  <2> QED BY <1>1, <1>3, <1>4, <2>1 DEF Advances, Handoff, history, TypeOK, Phase
<1>6. Counted'
  BY <1>1, <1>2, <1>3 DEF Counted, Handoff
<1> QED BY <1>3, <1>5, <1>6

(* Steps that put messages behind the conversation. *)
LEMMA ExtendingAdvances ==
  ASSUME TypeOK, Counted, pc \in {"model", "tools"},
         NEW u \in Seq(Message), NEW r \in Reason, r = "none" \/ pc' = "open",
         state' = [state EXCEPT !.messages = state.messages \o u, !.reason = r],
         pc' \in {"turn", "open"}, results' \in Seq({"tool"}),
         UNCHANGED <<disk, progress, runs, recent, finished>>
  PROVE  Advances /\ Counted' /\ state'.messages = state.messages \o u /\ state'.reason = r
<1>1. state # Absent
  BY DEF TypeOK
<1>2. /\ state \in HarnessState /\ state.turns \in Nat /\ state.messages \in Seq(Message)
      /\ state.session \in Nat
  BY <1>1, StateFields
<1> DEFINE t == state.messages \o u
<1>3. t \in Seq(Message)
  BY <1>2
<1> HIDE DEF t
<1>4. /\ state' \in HarnessState /\ state'.turns = state.turns
      /\ state'.session = state.session /\ state'.messages = t /\ state'.reason = r
  BY <1>2, <1>3 DEF HarnessState, t
<1>5. Advances
  <2>1. \E v \in Seq(Message) : state'.messages = state.messages \o v
    BY <1>4 DEF t
  <2>2. state' # Absent /\ state.turns <= state'.turns
    BY <1>2, <1>4, StateIsThere
  <2> QED BY <1>1, <1>4, <2>1, <2>2 DEF Advances, Phase
<1>6. Counted'
  BY <1>1, <1>2, <1>4 DEF Counted
<1> QED BY <1>4, <1>5, <1>6 DEF t

LEMMA AnswerAdvances ==
  ASSUME TypeOK, Counted, NEW r, NEW depth, NEW verdicts, Answer(r, depth, verdicts)
  PROVE  Advances /\ Counted' /\ state'.reason = "final_answer"
           /\ state'.messages = state.messages \o <<"assistant">>
<1>1. /\ pc = "model" /\ pc' = "open" /\ results' = results
      /\ state' = [state EXCEPT !.messages = state.messages \o <<"assistant">>,
                                !.reason = "final_answer"]
      /\ UNCHANGED <<disk, progress, runs, recent, finished>>
  BY DEF Answer, Answers, history
<1>2. <<"assistant">> \in Seq(Message) /\ "final_answer" \in Reason
  BY DEF Message, Reason
<1> QED BY <1>1, <1>2, ExtendingAdvances DEF TypeOK

LEMMA CorrectAdvances ==
  ASSUME TypeOK, Counted, NEW r, NEW depth, NEW verdicts, Correct(r, depth, verdicts),
         Shaped(state.messages)
  PROVE  Advances /\ Counted' /\ Settled(state'.messages)
<1>1. /\ pc = "model" /\ pc' = "turn" /\ results' = results
      /\ state' = [state EXCEPT !.messages = state.messages \o <<"assistant", "correction">>]
      /\ UNCHANGED <<disk, progress, runs, recent, finished>>
  BY DEF Correct, Answers, history
<1>2. state # Absent /\ state.reason = "none"
  BY <1>1 DEF TypeOK, Counted
<1>3. state \in HarnessState /\ state.messages \in Seq(Message)
  BY <1>2, StateFields
<1> DEFINE u == <<"assistant", "correction">>
<1>4. u \in Seq(Message) /\ "none" \in Reason
  BY DEF Message, Reason
<1>5. state.messages \o u = state.messages \o <<"assistant">> \o <<"correction">>
  BY <1>3
<1>6. Settled(state.messages \o u)
  <2>1. <<"correction">> \in Seq(Message \ {"assistant"})
    BY DEF Message
  <2> QED BY <1>3, <1>5, <2>1, AnswerSettles
<1>7. state' = [state EXCEPT !.messages = state.messages \o u, !.reason = "none"]
  BY <1>1, <1>2, <1>3 DEF HarnessState
<1> HIDE DEF u
<1>8. results' \in Seq({"tool"})
  BY <1>1 DEF TypeOK
<1> QED BY <1>1, <1>4, <1>6, <1>7, <1>8, ExtendingAdvances

LEMMA PackageAdvances ==
  ASSUME TypeOK, Counted, Package, Shaped(state.messages)
  PROVE  Advances /\ Counted' /\ Settled(state'.messages)
<1> DEFINE u == <<"assistant">> \o results
<1>1. /\ pc = "tools" /\ pc' = "open" /\ results' = << >>
      /\ state' = [state EXCEPT !.messages = state.messages \o <<"assistant">> \o results]
      /\ UNCHANGED <<disk, progress, runs, recent, finished>>
  BY DEF Package, history
<1>2. state # Absent /\ state.reason = "none" /\ results \in Seq({"tool"})
  BY <1>1 DEF TypeOK, Counted
<1>3. state \in HarnessState /\ state.messages \in Seq(Message)
  BY <1>2, StateFields
<1>4. /\ results \in Seq(Message) /\ results \in Seq(Message \ {"assistant"})
      /\ <<"assistant">> \in Seq(Message) /\ "none" \in Reason
  BY <1>2 DEF Message, Reason
<1>5. u \in Seq(Message) /\ state.messages \o <<"assistant">> \o results = state.messages \o u
  <2>1. u \in Seq(Message)
    BY <1>4
  <2>2. (state.messages \o <<"assistant">>) \o results
          = state.messages \o (<<"assistant">> \o results)
    <3> DEFINE a == <<"assistant">>
               s == state.messages
    <3>1. a \in Seq(Message) /\ s \in Seq(Message)
      BY <1>3, <1>4
    <3> HIDE DEF a, s
    <3>2. (s \o a) \o results = s \o (a \o results)
      BY <1>4, <3>1, ConcatAssociative
    <3> QED BY <3>2 DEF a, s
  <2> QED BY <2>1, <2>2
<1>6. Settled(state.messages \o u)
  BY <1>2, <1>3, <1>4, <1>5, AnswerSettles
<1> HIDE DEF u
<1>7. state' = [state EXCEPT !.messages = state.messages \o u, !.reason = "none"]
  BY <1>1, <1>2, <1>3, <1>5 DEF HarnessState
<1>8. results' \in Seq({"tool"})
  BY <1>1
<1> QED BY <1>1, <1>4, <1>5, <1>6, <1>7, <1>8, ExtendingAdvances

InMemory ==
  \/ BeginTurn \/ RetryTransient \/ Package
  \/ \E r \in Response :
       \/ Handoff(r)
       \/ \E depth \in Depth : \E verdicts \in Verdicts :
            Answer(r, depth, verdicts) \/ Correct(r, depth, verdicts)
       \/ \E depths \in [1 .. Len(Parse(r).calls) -> Depth] : CallTools(r, depths)
  \/ \E i \in 1 .. Len(pending) : Attempt(i)

LEMMA ConversationGoesOn ==
  ASSUME TypeOK, Counted, Conversing, InMemory
  PROVE  Advances /\ Counted' /\ Conversing'
<1>1. state # Absent
  BY DEF InMemory, BeginTurn, RetryTransient, Package, Handoff, Answer, Correct, Answers,
         CallTools, Attempt, TypeOK
<1>2. Shaped(state.messages)
  BY <1>1 DEF Conversing
<1>3. state.messages \in Seq(Message) /\ state.reason \in Reason
  BY <1>1, StateFields
<1>4. ASSUME Advances, Shaped(state'.messages),
             pc' \in {"open", "write"} /\ state'.reason = "none" => Settled(state'.messages)
      PROVE  Conversing'
  <2>1. disk' = disk
    BY <1>4 DEF Advances
  <2>2. \A n \in Step : Readable(n)' => (~Terminated(disk'[n]) => Settled(disk'[n].messages))
    BY <2>1 DEF Conversing, Readable
  <2> QED BY <1>4, <2>2 DEF Conversing
<1>5. ASSUME Advances, Settled(state'.messages)
      PROVE  Conversing'
  <2>1. state'.messages \in Seq(Message)
    BY <1>5 DEF Advances, HarnessState
  <2> QED BY <1>4, <1>5, <2>1, SettledIsShaped
<1>6. ASSUME Advances, state'.messages = state.messages,
             state'.reason # "none" \/ pc' \notin {"open", "write"}
      PROVE  Conversing'
  BY <1>2, <1>4, <1>6
<1>7. CASE BeginTurn
  <2>1. Advances /\ Counted' /\ state'.messages = state.messages
    BY <1>7, BeginTurnAdvances
  <2>2. state'.reason # "none" \/ pc' \notin {"open", "write"}
    <3>1. state \in HarnessState
      BY <1>1, StateFields
    <3> QED BY <1>7, <3>1 DEF BeginTurn, HarnessState
  <2> QED BY <1>6, <2>1, <2>2
<1>8. CASE RetryTransient
  <2>1. Advances /\ Counted' /\ state' = state /\ pc' = "turn"
    BY <1>8, RetryAdvances DEF RetryTransient
  <2> QED BY <1>6, <2>1
<1>9. CASE Package
  BY <1>2, <1>5, <1>9, PackageAdvances
<1>10. ASSUME NEW r, Handoff(r)
       PROVE  Advances /\ Counted' /\ Conversing'
  BY <1>6, <1>10, HandoffAdvances
<1>11. ASSUME NEW r, NEW depth, NEW verdicts, Answer(r, depth, verdicts)
       PROVE  Advances /\ Counted' /\ Conversing'
  <2>1. /\ Advances /\ Counted' /\ state'.reason = "final_answer"
        /\ state'.messages = state.messages \o <<"assistant">>
    BY <1>11, AnswerAdvances
  <2>2. << >> \in Seq(Message \ {"assistant"})
    OBVIOUS
  <2>3. Settled(state.messages \o <<"assistant">> \o << >>)
    BY <1>2, <1>3, <2>2, AnswerSettles
  <2>4. state.messages \o <<"assistant">> \o << >> = state.messages \o <<"assistant">>
    BY <1>3, AppendedIs DEF Message
  <2> QED BY <1>5, <2>1, <2>3, <2>4
<1>12. ASSUME NEW r, NEW depth, NEW verdicts, Correct(r, depth, verdicts)
       PROVE  Advances /\ Counted' /\ Conversing'
  BY <1>2, <1>5, <1>12, CorrectAdvances
<1>13. ASSUME NEW r, NEW depths, CallTools(r, depths)
       PROVE  Advances /\ Counted' /\ Conversing'
  <2>1. Advances /\ Counted' /\ state' = state /\ pc' = "tools"
    BY <1>13, CallToolsAdvances DEF CallTools
  <2> QED BY <1>6, <2>1
<1>14. ASSUME NEW i, Attempt(i)
       PROVE  Advances /\ Counted' /\ Conversing'
  <2>1. Advances /\ Counted' /\ state' = state /\ pc' = "tools"
    BY <1>14, AttemptAdvances DEF Attempt
  <2> QED BY <1>6, <2>1
<1> QED
  BY <1>7, <1>8, <1>9, <1>10, <1>11, <1>12, <1>13, <1>14 DEF InMemory

----------------------------------------------------------------------------
(* The last file. *)

LEMMA LatestIs == \A n \in Step : IsLast(n) => Latest = disk[n]
<1> SUFFICES ASSUME NEW n \in Step, IsLast(n)
             PROVE  Latest = disk[n]
  OBVIOUS
<1>1. n \in Saved /\ \A m \in Saved : n >= m
  BY StoreAssumption DEF IsLast, Saved, Step
<1>2. Max(Saved) \in Saved /\ \A m \in Saved : Max(Saved) >= m
  BY <1>1 DEF Max
<1>3. Max(Saved) = n
  BY <1>1, <1>2, StoreAssumption DEF Saved, Step
<1> QED
  BY <1>1, <1>3 DEF Latest

(* There is one: the naturals below the greatest number, counted from it,  *)
(* are well founded.                                                       *)
LEMMA HasLast == Saved # {} => \E n \in Step : IsLast(n)
<1> SUFFICES ASSUME Saved # {}
             PROVE  \E n \in Step : IsLast(n)
  OBVIOUS
<1> DEFINE top == MaxTurns + 1
           R == OpToRel(<, Nat)
           S == {top - n : n \in Saved}
<1>1. IsWellFoundedOn(R, Nat)
  BY NatLessThanWellFounded
<1>2. \A x, y \in Nat : y < x => <<y, x>> \in R
  BY DEF OpToRel
<1>3. top \in Nat /\ Saved \subseteq 1 .. top
  BY StoreAssumption DEF Saved, Step
<1>4. S \subseteq Nat /\ S # {}
  <2>1. PICK m \in Saved : TRUE
    OBVIOUS
  <2>2. \A n \in Saved : top - n \in Nat
    BY <1>3
  <2> HIDE DEF top
  <2> QED BY <2>1, <2>2
<1> HIDE DEF R
<1>5. PICK x \in S : \A y \in S : ~(<<y, x>> \in R)
  <2> HIDE DEF S
  <2> QED BY <1>1, <1>4, WFMin
<1>6. PICK n \in Saved : x = top - n
  BY <1>5
<1>7. ASSUME NEW m \in Saved
      PROVE  m <= n
  <2>1. top - m \in S /\ top - m \in Nat /\ top - n \in Nat
    BY <1>3, <1>6
  <2>2. ~(top - m < top - n)
    BY <1>2, <1>5, <1>6, <2>1
  <2> QED BY <1>3, <1>6, <2>2
<1>8. n \in Step
  BY <1>6 DEF Saved
<1> QED
  BY <1>7, <1>8 DEF IsLast

LEMMA LastAfter ==
  /\ Saved' # {} => \E n \in Step : IsLast(n)'
  /\ \A n \in Step : IsLast(n)' => Latest' = disk'[n]
<1>1. (Saved # {} => \E n \in Step : IsLast(n))'
  BY HasLast, PTL
<1>2. (\A n \in Step : IsLast(n) => Latest = disk[n])'
  BY LatestIs, PTL
<1> QED BY <1>1, <1>2

(* A file that can be read is a state. *)
LEMMA FileFields ==
  ASSUME TypeOK, NEW n \in Step, Readable(n)
  PROVE  /\ disk[n] \in HarnessState /\ n \in Saved
         /\ disk[n].session \in Nat /\ disk[n].turns \in Nat
         /\ disk[n].messages \in Seq(Message)
BY DEF TypeOK, Readable, Saved, HarnessState

----------------------------------------------------------------------------
(* Every step keeps the invariant. *)

LEMMA InitInvariant == Init => IInv
<1> SUFFICES ASSUME Init
             PROVE  IInv
  OBVIOUS
<1> USE DEF Init
<1>1. TypeOK
  BY DEF TypeOK, Phase
<1>2. Counted /\ HistoryDurable /\ FinishedStaysFinished /\ Shadowed /\ LostOnlyToShadow
  BY DEF Counted, HistoryDurable, FinishedStaysFinished, Shadowed, LostOnlyToShadow
<1>3. \A n \in Step : ~Readable(n)
  BY DEF Readable
<1>4. Filed /\ Chained /\ Superseded /\ Conversing
  BY <1>3 DEF Filed, Chained, Superseded, Conversing
<1> QED
  BY <1>1, <1>2, <1>4 DEF IInv

(* What speaks of the files alone. *)
LEMMA FilesKeep ==
  ASSUME Filed, Chained, Superseded, TypeOK, TypeOK', runs <= runs',
         UNCHANGED <<disk, finished>>
  PROVE  Filed' /\ Chained' /\ Superseded'
<1>1. \A n \in Step : Readable(n)' = Readable(n)
  BY DEF Readable
<1>2. Filed'
  BY <1>1, FileFields DEF Filed, TypeOK
<1>3. Chained'
  BY <1>1 DEF Chained
<1>4. Superseded'
  BY <1>1 DEF Superseded, Saved
<1> QED BY <1>2, <1>3, <1>4

LEMMA LostKeeps ==
  ASSUME LostOnlyToShadow, UNCHANGED <<disk, recent>>, progress' \in {progress, TRUE}
  PROVE  LostOnlyToShadow'
BY DEF LostOnlyToShadow, Loadable, Latest, Saved, Terminated

LEMMA InMemoryKeeps ==
  ASSUME IInv, InMemory
  PROVE  IInv'
<1>1. Advances /\ Counted' /\ Conversing'
  BY ConversationGoesOn DEF IInv
<1> USE DEF IInv
<1>2. TypeOK'
  BY <1>1 DEF Advances, TypeOK, Phase
<1>3. Filed' /\ Chained' /\ Superseded'
  BY <1>1, <1>2, FilesKeep DEF Advances, TypeOK
<1>4. HistoryDurable'
  <2> SUFFICES ASSUME NEW n \in Step, Readable(n)', disk'[n].session = state'.session
               PROVE  disk'[n].turns <= state'.turns
                        /\ IsPrefix(disk'[n].messages, state'.messages)
    BY DEF HistoryDurable
  <2>1. Readable(n) /\ disk[n].session = state.session /\ disk'[n] = disk[n]
    BY <1>1 DEF Advances, Readable
  <2>2. disk[n].turns <= state.turns /\ IsPrefix(disk[n].messages, state.messages)
    BY <1>1, <2>1 DEF HistoryDurable, Advances
  <2>3. PICK u \in Seq(Message) : state'.messages = state.messages \o u
    BY <1>1 DEF Advances
  <2>4. disk[n].messages \in Seq(Message) /\ disk[n].turns \in Nat
    BY <2>1, FileFields
  <2>5. state.messages \in Seq(Message) /\ state.turns \in Nat /\ state'.turns \in Nat
    BY <1>1, StateFields DEF Advances, HarnessState
  <2>6. IsPrefix(disk[n].messages, state.messages \o u)
    BY <2>2, <2>4, <2>5, PrefixExtends
  <2>7. disk[n].turns <= state'.turns
    BY <1>1, <2>2, <2>4, <2>5 DEF Advances
  <2> QED BY <2>1, <2>3, <2>6, <2>7
<1>5. FinishedStaysFinished'
  BY <1>1 DEF FinishedStaysFinished, Advances
<1>6. Shadowed'
  <2> SUFFICES ASSUME NEW n \in Step, IsLast(n)', state'.turns < n
               PROVE  Readable(n)' /\ Terminated(disk'[n]) /\ disk'[n].session < state'.session
    BY DEF Shadowed
  <2>1. IsLast(n)
    BY <1>1 DEF IsLast, Saved, Advances
  <2>2. state.turns < n
    <3>1. state.turns \in Nat /\ state'.turns \in Nat /\ n \in Nat
      BY <1>1, StateFields, StoreAssumption DEF Advances, HarnessState, Step
    <3> QED BY <1>1, <3>1 DEF Advances
  <2> QED BY <1>1, <2>1, <2>2 DEF Shadowed, Advances, Readable
<1>7. LostOnlyToShadow'
  BY <1>1, LostKeeps DEF Advances
<1> QED BY <1>1, <1>2, <1>3, <1>4, <1>5, <1>6, <1>7

(* The run ends, or there is none. *)
LEMMA NoRunKeeps ==
  ASSUME IInv, state' = Absent, pc' = "idle", results' \in Seq({"tool"}),
         runs' \in Nat, runs <= runs', progress' \in {progress, TRUE},
         UNCHANGED <<disk, recent, finished>>
  PROVE  IInv'
<1> USE DEF IInv
<1>1. TypeOK'
  BY DEF TypeOK, Phase
<1>2. Counted' /\ HistoryDurable' /\ FinishedStaysFinished' /\ Shadowed'
  BY DEF Counted, HistoryDurable, FinishedStaysFinished, Shadowed
<1>3. Filed' /\ Chained' /\ Superseded'
  BY <1>1, FilesKeep
<1>4. LostOnlyToShadow'
  BY LostKeeps
<1>5. Conversing'
  BY DEF Conversing, Readable
<1> QED BY <1>1, <1>2, <1>3, <1>4, <1>5

LEMMA AbandonKeeps == IInv /\ Abandon => IInv'
<1> SUFFICES ASSUME IInv, Abandon
             PROVE  IInv'
  OBVIOUS
<1>1. << >> \in Seq({"tool"}) /\ runs \in Nat
  BY DEF IInv, TypeOK
<1> QED
  BY <1>1, NoRunKeeps DEF Abandon

LEMMA BetweenRunsKeeps ==
  ASSUME IInv, WriteProgress \/ \E depth \in Depth : StartFails(depth)
  PROVE  IInv'
<1>1. runs \in Nat /\ results \in Seq({"tool"}) /\ (pc = "idle" <=> state = Absent)
  BY DEF IInv, TypeOK
<1>2. /\ pc' = "idle" /\ state' = Absent /\ results' = results
      /\ UNCHANGED <<disk, recent, finished>>
  BY <1>1 DEF WriteProgress, StartFails, history
<1>3. progress' \in {progress, TRUE}
  BY DEF WriteProgress, StartFails
<1>4. runs' \in {runs, runs + 1}
  BY DEF WriteProgress, StartFails
<1>5. runs' \in Nat /\ runs <= runs'
  BY <1>1, <1>4
<1> QED BY <1>1, <1>2, <1>3, <1>5, NoRunKeeps

LEMMA StutterKeeps == IInv /\ UNCHANGED vars => IInv'
BY DEF vars, IInv, TypeOK, Counted, Filed, Chained, HistoryDurable, Superseded,
       FinishedStaysFinished, Shadowed, LostOnlyToShadow, Conversing, Readable, Saved,
       IsLast, Loadable, Latest, Terminated, Shaped, Settled

(* A run that resumes nothing. *)
LEMMA FreshStarts ==
  ASSUME IInv, NEW depth, Start(depth), Loaded = Fresh, Latest = Absent \/ Terminated(Latest)
  PROVE  IInv'
<1> USE DEF IInv
<1>1. /\ pc = "idle" /\ pc' = "turn" /\ runs' = runs + 1 /\ runs \in Nat /\ results' = results
      /\ UNCHANGED <<disk, progress, recent, finished>>
      /\ Latest # Torn
  BY DEF Start, history, TypeOK, Loadable
<1> DEFINE t == << >> \o <<"goal">>
<1>2. t \in Seq(Message) /\ Shaped(t)
  <2> DEFINE e == << >>
  <2>1. e \in Seq(Message) /\ "goal" \in Message /\ e = << >>
    BY DEF Message
  <2> HIDE DEF e
  <2>2. e \o <<"goal">> \in Seq(Message) /\ Shaped(e \o <<"goal">>)
    BY <2>1, GoalShapes, AppendedIs
  <2> QED BY <2>1, <2>2
<1>3. state' = [session |-> runs + 1, turns |-> 0, messages |-> t, reason |-> "none"]
  BY DEF Start, Fresh
<1> HIDE DEF t
<1>4. state' \in HarnessState /\ state' # Absent
  BY <1>1, <1>2, <1>3, StateIsThere DEF HarnessState, Reason
<1>5. TypeOK'
  BY <1>1, <1>4 DEF TypeOK, Phase
<1>6. Counted'
  BY <1>1, <1>3, StoreAssumption DEF Counted
<1>7. Filed' /\ Chained' /\ Superseded'
  BY <1>1, <1>5, FilesKeep
<1>8. HistoryDurable'
  <2>1. \A n \in Step : Readable(n)' => disk'[n].session # state'.session
    BY <1>1, <1>3, FileFields DEF Filed, Readable
  <2> QED BY <2>1 DEF HistoryDurable
<1>9. FinishedStaysFinished'
  BY <1>1, <1>3 DEF FinishedStaysFinished, TypeOK
<1>10. Shadowed'
  <2> SUFFICES ASSUME NEW n \in Step, IsLast(n)'
               PROVE  Readable(n)' /\ Terminated(disk'[n]) /\ disk'[n].session < state'.session
    BY DEF Shadowed
  <2>1. IsLast(n)
    BY <1>1 DEF IsLast, Saved
  <2>2. Latest = disk[n] /\ disk[n] # Absent
    BY <2>1, LatestIs DEF IsLast, Saved
  <2>3. Readable(n) /\ Terminated(disk[n])
    BY <1>1, <2>2 DEF Readable
  <2>4. disk[n].session <= runs /\ disk[n].session \in Nat
    BY <2>3, FileFields DEF Filed
  <2> QED BY <1>1, <1>3, <2>3, <2>4 DEF Readable
<1>11. LostOnlyToShadow'
  BY <1>1, LostKeeps
<1>12. Conversing'
  <2>1. \A n \in Step : Readable(n)' => (~Terminated(disk'[n]) => Settled(disk'[n].messages))
    BY <1>1 DEF Conversing, Readable
  <2> QED BY <1>1, <1>2, <1>3, <2>1 DEF Conversing
<1> QED
  BY <1>5, <1>6, <1>7, <1>8, <1>9, <1>10, <1>11, <1>12

(* A run that resumes the last state. *)
LEMMA ResumptionStarts ==
  ASSUME IInv, NEW depth, Start(depth), Loaded = Latest, Latest # Absent, ~Terminated(Latest)
  PROVE  IInv'
<1> USE DEF IInv
<1>1. /\ pc = "idle" /\ pc' = "turn" /\ runs' = runs + 1 /\ runs \in Nat /\ results' = results
      /\ UNCHANGED <<disk, progress, recent, finished>>
      /\ Latest # Torn
  BY DEF Start, history, TypeOK, Loadable
<1>2. PICK n \in Step : IsLast(n)
  BY HasLast DEF Latest
<1>3. Latest = disk[n] /\ Readable(n)
  BY <1>1, <1>2, LatestIs DEF Readable
<1>4. /\ disk[n] \in HarnessState /\ disk[n].session \in Nat /\ disk[n].turns \in Nat
      /\ disk[n].messages \in Seq(Message)
  BY <1>3, FileFields
<1>5. /\ disk[n].reason = "none" /\ disk[n].turns = n /\ n <= MaxTurns /\ n \in Nat
      /\ disk[n].session <= runs /\ Settled(disk[n].messages)
  BY <1>3, StoreAssumption DEF Terminated, Filed, Conversing, Step
<1> DEFINE t == disk[n].messages \o <<"goal">>
<1>6. <<"goal">> \in Seq(Message) /\ t \in Seq(Message) /\ Shaped(t)
  <2>1. <<"goal">> \in Seq(Message)
    BY DEF Message
  <2> QED BY <1>4, <1>5, <2>1, GoalShapes
<1>7. state' = [disk[n] EXCEPT !.messages = t]
  BY <1>3 DEF Start
<1>8. /\ state' \in HarnessState /\ state'.session = disk[n].session /\ state'.turns = n
      /\ state'.messages = t /\ state'.reason = "none"
  <2> HIDE DEF t
  <2> QED BY <1>4, <1>5, <1>6, <1>7 DEF HarnessState
<1>9. state' # Absent
  BY <1>8, StateIsThere
<1>10. TypeOK'
  BY <1>1, <1>8, <1>9 DEF TypeOK, Phase
<1>11. Counted'
  BY <1>1, <1>4, <1>5, <1>8, StoreAssumption DEF Counted
<1>12. Filed' /\ Chained' /\ Superseded'
  BY <1>1, <1>10, FilesKeep
<1>13. HistoryDurable'
  <2> SUFFICES ASSUME NEW m \in Step, Readable(m)', disk'[m].session = state'.session
               PROVE  disk'[m].turns <= state'.turns
                        /\ IsPrefix(disk'[m].messages, state'.messages)
    BY DEF HistoryDurable
  <2>1. Readable(m) /\ disk'[m] = disk[m] /\ disk[m].session = disk[n].session
    BY <1>1, <1>8 DEF Readable
  <2>2. m <= n /\ disk[m].turns = m
    BY <1>2, <2>1, FileFields DEF IsLast, Filed
  <2>3. IsPrefix(disk[m].messages, disk[n].messages)
    BY <1>3, <2>1, <2>2 DEF Chained
  <2>4. IsPrefix(disk[m].messages, t)
    BY <1>4, <1>6, <2>1, <2>3, FileFields, PrefixExtends
  <2> HIDE DEF t
  <2> QED BY <1>8, <2>1, <2>2, <2>4
<1>14. FinishedStaysFinished'
  BY <1>1, <1>2, <1>3, <1>5, <1>8, StoreAssumption
     DEF FinishedStaysFinished, Superseded, IsLast, Saved, Step, Terminated
<1>15. Shadowed'
  BY <1>1, <1>2, <1>8, StoreAssumption DEF Shadowed, IsLast, Saved, Step
<1>16. LostOnlyToShadow'
  BY <1>1, LostKeeps
<1>17. Conversing'
  <2>1. \A m \in Step : Readable(m)' => (~Terminated(disk'[m]) => Settled(disk'[m].messages))
    BY <1>1 DEF Conversing, Readable
  <2> HIDE DEF t
  <2> QED BY <1>1, <1>6, <1>8, <2>1 DEF Conversing
<1> QED
  BY <1>10, <1>11, <1>12, <1>13, <1>14, <1>15, <1>16, <1>17

LEMMA StartKeeps ==
  ASSUME IInv, NEW depth, Start(depth)
  PROVE  IInv'
BY FreshStarts, ResumptionStarts DEF Loaded

(* The file of the turn is emptied. *)
LEMMA OpenKeeps == IInv /\ OpenCheckpoint => IInv'
<1> SUFFICES ASSUME IInv, OpenCheckpoint
             PROVE  IInv'
  OBVIOUS
<1> USE DEF IInv
<1> DEFINE n == state.turns
<1>1. /\ pc = "open" /\ pc' = "write" /\ state # Absent
      /\ disk' = [disk EXCEPT ![n] = Torn]
      /\ UNCHANGED <<progress, state, results, runs, recent, finished>>
  BY DEF OpenCheckpoint, Truncate, history, TypeOK
<1>2. state.turns \in Nat /\ n \in Step
  BY <1>1, StateFields, StoreAssumption DEF Counted, Step
<1> HIDE DEF n
<1>3. /\ disk'[n] = Torn
      /\ \A m \in Step : m # n => disk'[m] = disk[m]
      /\ disk' \in [Step -> HarnessState \cup {Absent, Torn}]
  BY <1>1, <1>2 DEF TypeOK
<1>4. \A m \in Step : Readable(m)' => m # n /\ Readable(m) /\ disk'[m] = disk[m]
  BY <1>3 DEF Readable
<1>5. Saved' = Saved \cup {n}
  BY <1>2, <1>3, StoreAssumption DEF Saved
<1>6. \A m \in Step : IsLast(m)' /\ m # n => IsLast(m) /\ disk'[m] = disk[m]
  BY <1>3, <1>5 DEF IsLast
<1>7. TypeOK'
  BY <1>1, <1>3 DEF TypeOK, Phase
<1>8. Counted'
  BY <1>1 DEF Counted
<1>9. Filed' /\ Chained' /\ HistoryDurable'
  BY <1>1, <1>4 DEF Filed, Chained, HistoryDurable
<1>10. Superseded' /\ FinishedStaysFinished'
  BY <1>1, <1>4, <1>5 DEF Superseded, FinishedStaysFinished
<1>11. Shadowed'
  BY <1>1, <1>2, <1>3, <1>6 DEF Shadowed, Readable, n
<1>12. LostOnlyToShadow'
  <2> SUFFICES ASSUME Loadable', recent # Absent
               PROVE  Latest' = recent
                        \/ (Terminated(Latest') /\ Latest'.session < recent.session)
    BY <1>1 DEF LostOnlyToShadow
  <2>1. PICK m \in Step : IsLast(m)'
    BY <1>5, LastAfter
  <2>2. Latest' = disk'[m] /\ Latest' # Torn
    BY <2>1, LastAfter DEF Loadable
  <2>3. m # n
    BY <1>3, <2>2
  <2>4. Latest = disk[m] /\ Latest' = Latest
    BY <1>6, <2>1, <2>2, <2>3, LatestIs
  <2>5. Loadable
    BY <1>1, <2>2, <2>4 DEF Loadable
  <2> QED BY <2>4, <2>5 DEF LostOnlyToShadow
<1>13. Conversing'
  BY <1>1, <1>4 DEF Conversing
<1> QED
  BY <1>7, <1>8, <1>9, <1>10, <1>11, <1>12, <1>13

(* The state of the run is written to it; an ended run is over. *)
LEMMA WriteKeeps == IInv /\ WriteCheckpoint => IInv'
<1> SUFFICES ASSUME IInv, WriteCheckpoint
             PROVE  IInv'
  OBVIOUS
<1> USE DEF IInv
<1>0. PICK n \in Step : n = state.turns
  <2>1. pc = "write" /\ state # Absent
    BY DEF WriteCheckpoint, TypeOK
  <2> QED BY <2>1, StateFields, StoreAssumption DEF Counted, Step
<1>1. /\ pc = "write" /\ state # Absent
      /\ disk' = [disk EXCEPT ![n] = state] /\ recent' = state
      /\ UNCHANGED <<progress, results, runs>>
  BY <1>0 DEF WriteCheckpoint, Write, TypeOK
<1>2. \/ Terminated(state) /\ pc' = "idle" /\ state' = Absent
           /\ finished' = finished \cup {state.session}
      \/ ~Terminated(state) /\ pc' = "turn" /\ state' = state /\ finished' = finished
  BY DEF WriteCheckpoint
<1>3. /\ state \in HarnessState /\ state.session \in Nat /\ state.turns \in Nat
      /\ state.messages \in Seq(Message) /\ state.session <= runs /\ runs \in Nat
      /\ n \in Nat
  BY <1>0, <1>1, StateFields DEF Counted, TypeOK
<1>4. state.reason = "none" => n <= MaxTurns
  BY <1>0, <1>1 DEF Counted
<1>5. /\ disk'[n] = state
      /\ \A m \in Step : m # n => disk'[m] = disk[m]
      /\ disk' \in [Step -> HarnessState \cup {Absent, Torn}]
  BY <1>1, <1>3 DEF TypeOK
<1>6. Readable(n)' /\ \A m \in Step : m # n => (Readable(m)' <=> Readable(m))
  <2>1. state # Absent /\ state # Torn
    BY <1>3, StateIsThere
  <2> QED BY <1>3, <1>5, <2>1 DEF Readable
<1>7. Saved' = Saved \cup {n}
  BY <1>3, <1>5, StateIsThere DEF Saved
<1>8. \A m \in Step : IsLast(m)' /\ m # n => IsLast(m) /\ disk'[m] = disk[m]
  BY <1>5, <1>7 DEF IsLast
<1>9. \A m \in Step : Readable(m) /\ disk[m].session = state.session =>
                        m <= n /\ IsPrefix(disk[m].messages, state.messages)
  BY <1>0, <1>1, <1>3, FileFields DEF HistoryDurable, Filed
<1>10. TypeOK'
  <2>1. state' \in HarnessState \cup {Absent} /\ pc' \in Phase
          /\ (pc' = "idle" <=> state' = Absent)
    BY <1>1, <1>2, <1>3 DEF Phase
  <2>2. finished' \subseteq 0 .. runs'
    <3>1. state.session \in 0 .. runs
      BY <1>3
    <3> QED BY <1>1, <1>2, <3>1 DEF TypeOK
  <2> QED BY <1>1, <1>3, <1>5, <2>1, <2>2 DEF TypeOK
<1>11. Counted'
  BY <1>1, <1>2 DEF Counted, Terminated
<1>12. Filed'
  <2>1. disk'[n].turns = n /\ disk'[n].session <= runs' /\ (disk'[n].reason = "none" => n <= MaxTurns)
    BY <1>0, <1>1, <1>3, <1>4, <1>5
  <2> QED BY <1>1, <1>5, <1>6, <2>1 DEF Filed
<1>13. Chained'
  <2> SUFFICES ASSUME NEW l \in Step, NEW m \in Step, l <= m, Readable(l)', Readable(m)',
                      disk'[l].session = disk'[m].session
               PROVE  IsPrefix(disk'[l].messages, disk'[m].messages)
    BY DEF Chained
  <2>1. CASE l = n /\ m = n
    BY <1>3, <1>5, <2>1, PrefixSelf
  <2>2. CASE l # n /\ m = n
    BY <1>5, <1>6, <1>9, <2>2
  <2>3. CASE l = n /\ m # n
    <3>1. m <= n /\ m \in Nat /\ l \in Nat
      BY <1>5, <1>6, <1>9, <2>3, StoreAssumption DEF Step
    <3> QED BY <2>3, <3>1
  <2>4. CASE l # n /\ m # n
    BY <1>5, <1>6, <2>4 DEF Chained
  <2> QED BY <2>1, <2>2, <2>3, <2>4
<1>14. HistoryDurable'
  <2> SUFFICES ASSUME state' = state, NEW m \in Step, Readable(m)',
                      disk'[m].session = state.session
               PROVE  disk'[m].turns <= state.turns
                        /\ IsPrefix(disk'[m].messages, state.messages)
    BY <1>2 DEF HistoryDurable
  <2>1. CASE m = n
    BY <1>3, <1>5, <2>1, PrefixSelf
  <2>2. CASE m # n
    BY <1>1, <1>5, <1>6, <2>2 DEF HistoryDurable
  <2> QED BY <2>1, <2>2
<1>15. Superseded'
  <2> SUFFICES ASSUME NEW m \in Step, Readable(m)', disk'[m].session \in finished',
                      ~Terminated(disk'[m])
               PROVE  \E k \in Saved' : m < k
    BY DEF Superseded
  <2>1. ASSUME m # n, disk[m].session \in finished
        PROVE  \E k \in Saved' : m < k
    BY <1>5, <1>6, <1>7, <2>1 DEF Superseded
  <2>2. CASE m # n /\ disk[m].session = state.session
    <3>1. m <= n /\ m \in Nat
      BY <1>6, <1>9, <2>2, StoreAssumption DEF Step
    <3>2. m < n
      BY <1>3, <2>2, <3>1
    <3>3. n \in Saved'
      BY <1>7
    <3> QED BY <3>2, <3>3
  <2>3. m # n
    BY <1>1, <1>2, <1>5 DEF FinishedStaysFinished
  <2> QED BY <1>2, <1>5, <2>1, <2>2, <2>3
<1>16. FinishedStaysFinished'
  BY <1>1, <1>2 DEF FinishedStaysFinished
<1>17. Shadowed'
  <2> SUFFICES ASSUME state' = state, NEW m \in Step, IsLast(m)', state.turns < m
               PROVE  Readable(m)' /\ Terminated(disk'[m]) /\ disk'[m].session < state.session
    BY <1>2 DEF Shadowed
  <2>1. m # n
    BY <1>0, <1>3
  <2> QED BY <1>1, <1>6, <1>8, <2>1 DEF Shadowed
<1>18. LostOnlyToShadow'
  <2>1. PICK m \in Step : IsLast(m)'
    BY <1>7, LastAfter
  <2>2. Latest' = disk'[m]
    BY <2>1, LastAfter
  <2>3. CASE m = n
    BY <1>1, <1>5, <2>2, <2>3 DEF LostOnlyToShadow
  <2>4. CASE m # n
    <3>1. n < m
      BY <1>3, <1>7, <2>1, <2>4, StoreAssumption DEF IsLast, Step
    <3>2. Terminated(disk[m]) /\ disk[m].session < state.session
      BY <1>0, <1>1, <1>8, <2>1, <2>4, <3>1 DEF Shadowed
    <3> QED BY <1>1, <1>5, <2>2, <2>4, <3>2 DEF LostOnlyToShadow
  <2> QED BY <2>3, <2>4
<1>19. Conversing'
  <2>1. Shaped(state.messages) /\ (~Terminated(state) => Settled(state.messages))
    BY <1>1 DEF Conversing, Terminated
  <2>2. \A m \in Step : Readable(m)' => (~Terminated(disk'[m]) => Settled(disk'[m].messages))
    BY <1>5, <1>6, <2>1 DEF Conversing
  <2> QED BY <1>2, <2>1, <2>2 DEF Conversing
<1> QED
  BY <1>10, <1>11, <1>12, <1>13, <1>14, <1>15, <1>16, <1>17, <1>18, <1>19

LEMMA NextInvariant == IInv /\ [Next]_vars => IInv'
<1> SUFFICES ASSUME IInv, [Next]_vars
             PROVE  IInv'
  OBVIOUS
<1>1. CASE InMemory
  BY <1>1, InMemoryKeeps
<1>2. CASE Halt \/ Crash
  BY <1>2, AbandonKeeps DEF Halt, Crash
<1>3. CASE OpenCheckpoint \/ WriteCheckpoint
  BY <1>3, OpenKeeps, WriteKeeps
<1>4. CASE WriteProgress \/ \E depth \in Depth : StartFails(depth)
  BY <1>4, BetweenRunsKeeps
<1>5. ASSUME NEW depth \in Depth, Start(depth)
      PROVE  IInv'
  BY <1>5, StartKeeps
<1>6. CASE UNCHANGED vars
  BY <1>6, StutterKeeps
<1> QED
  BY <1>1, <1>2, <1>3, <1>4, <1>5, <1>6 DEF Next, Loop, InMemory

THEOREM Invariant == Spec => []IInv
BY InitInvariant, NextInvariant, PTL DEF Spec

----------------------------------------------------------------------------
(* What the prompt shows. *)

LEMMA HistoryShown ==
  ASSUME NEW s \in Seq(Message), NEW i \in 1 .. Len(s) - 1,
         s[i] = "tool" => i > Len(s) - 1 - Recent,
         i <= Anchor \/ i > Len(s) - 1 - Recent,
         NEW over \in BOOLEAN, NEW keyword
  PROVE  i \in Shown(s, over, keyword)
<1> DEFINE n == Len(s) - 1
           h == Front(s)
<1>1. n \in Nat /\ i \in 1 .. n
  OBVIOUS
<1>2. Len(h) = n /\ h[i] = s[i]
  <2>1. h = [j \in 1 .. n |-> s[j]]
    BY <1>1 DEF Front
  <2> QED BY <1>1, <2>1
<1> HIDE DEF h
<1>3. ~(h[i] = "tool" /\ i <= Len(h) - Recent)
  BY <1>1, <1>2, ContextAssumption
<1>4. Place(i, FALSE) \in MaskOldToolOutputs(h)
  <2>1. Place(i, h[i] = "tool" /\ i <= Len(h) - Recent) = Place(i, FALSE)
    BY <1>3
  <2> QED BY <1>1, <1>2, <2>1 DEF MaskOldToolOutputs
<1>5. Place(i, FALSE) \in CompactIfNeeded(MaskOldToolOutputs(h), Len(h), over, keyword)
  <2>1. Place(i, FALSE).message = i
    BY DEF Place
  <2> QED BY <1>1, <1>2, <1>4, <2>1 DEF CompactIfNeeded
<1>6. Place(i, FALSE) \in Prompt(s, over, keyword)
  BY <1>5 DEF Prompt, h
<1>7. Place(i, FALSE).message = i /\ ~Place(i, FALSE).masked
  BY DEF Place
<1> QED
  BY <1>6, <1>7 DEF Shown

LEMMA LastShown ==
  ASSUME NEW s \in Seq(Message), NEW over, NEW keyword
  PROVE  Len(s) \in Shown(s, over, keyword)
<1>1. Place(Len(s), FALSE) \in Prompt(s, over, keyword)
  BY DEF Prompt
<1>2. Place(Len(s), FALSE).message = Len(s) /\ ~Place(Len(s), FALSE).masked
  BY DEF Place
<1> QED
  BY <1>1, <1>2 DEF Shown

(* Results that the model has not read are the last but one message, at    *)
(* most: as many as there are, so far back they begin.                     *)
LEMMA UnseenIsRecent ==
  ASSUME NEW s \in Seq(Message), Shaped(s), Cardinality(Unseen(s)) <= Recent,
         NEW i \in Unseen(s), i # Len(s)
  PROVE  i \in 1 .. Len(s) - 1 /\ i > Len(s) - 1 - Recent
<1> DEFINE n == Len(s)
           U == Unseen(s)
<1>1. n \in Nat /\ i \in 1 .. n /\ i # n /\ U \subseteq 1 .. n
  BY DEF Unseen
<1>2. i .. n - 1 \subseteq U
  BY <1>1 DEF Shaped, Unseen
<1> HIDE DEF n, U
<1>3. IsFiniteSet(U)
  <2>1. IsFiniteSet(1 .. n)
    BY <1>1, FS_Interval
  <2> QED BY <1>1, <2>1, FS_Subset
<1>4. IsFiniteSet(i .. n - 1) /\ Cardinality(i .. n - 1) = n - i
  BY <1>1, FS_Interval
<1>5. Cardinality(i .. n - 1) <= Cardinality(U) /\ Cardinality(U) \in Nat
  BY <1>2, <1>3, FS_Subset, FS_CardinalityType
<1> QED
  BY <1>1, <1>4, <1>5, ContextAssumption DEF n, U

----------------------------------------------------------------------------
(* A resumption continues one conversation: no checkpoint of the session   *)
(* in progress holds anything but a beginning of it, whatever crashed, and *)
(* whichever older sessions left their files behind.                       *)
THEOREM ConversationsAreDurable == Spec => []HistoryDurable
BY Invariant, PTL DEF IInv

(* A session whose end was saved is never run again. *)
THEOREM EndedForGood == Spec => []FinishedStaysFinished
BY Invariant, PTL DEF IInv

(* When the checkpoint saved last is not the one a run resumes, an older   *)
(* session that ended at a higher turn hides it.                           *)
THEOREM OnlyEndedSessionsHide == Spec => []LostOnlyToShadow
BY Invariant, PTL DEF IInv

(* The prompt holds the goal, the message to reply to, and every result    *)
(* not yet read, when a batch is no longer than what is never masked.      *)
THEOREM PromptIsComplete == Spec => []PromptShowsWork
<1>1. IInv => PromptShowsWork
  <2> SUFFICES ASSUME IInv, pc = "model", Cardinality(Unseen(state.messages)) <= Recent,
                      NEW over \in BOOLEAN, NEW keyword \in SUBSET (1 .. Len(state.messages)),
                      NEW i \in Unseen(state.messages) \cup {1, Len(state.messages)}
               PROVE  i \in Shown(state.messages, over, keyword)
    BY DEF PromptShowsWork
  <2> DEFINE s == state.messages
  <2>1. s \in Seq(Message) /\ Shaped(s)
    BY StateFields DEF IInv, TypeOK, Conversing
  <2> HIDE DEF s
  <2>2. CASE i = Len(s)
    BY <2>1, <2>2, LastShown DEF s
  <2>3. CASE i = 1 /\ Len(s) # 1
    <3>1. 1 \in 1 .. Len(s) - 1
      <4> DEFINE n == Len(s)
      <4>1. n \in Nat /\ n >= 1 /\ n # 1
        BY <2>1, <2>3 DEF Shaped
      <4> HIDE DEF n
      <4>2. 1 \in 1 .. n - 1
        BY <4>1
      <4> QED BY <4>2 DEF n
    <3>2. s[1] # "tool" /\ 1 <= Anchor
      BY <2>1, ContextAssumption DEF Shaped
    <3> QED BY <2>1, <2>3, <3>1, <3>2, HistoryShown DEF s
  <2>4. CASE i \in Unseen(s) /\ i # Len(s)
    <3>1. i \in 1 .. Len(s) - 1 /\ i > Len(s) - 1 - Recent
      BY <2>1, <2>4, UnseenIsRecent DEF s
    <3> QED BY <2>1, <3>1, HistoryShown DEF s
  <2> QED BY <2>2, <2>3, <2>4 DEF s
<1> QED
  BY <1>1, Invariant, PTL

----------------------------------------------------------------------------
(* The guarded conversation beside the harness (SentinelAI), for any       *)
(* number of messages, streams, drops and resets.                          *)

(* The turns of the conversation, and who still owes an answer. *)
Turn == [role : {"user", "model"}, of : Seq(Nat)]

TurnsTyped ==
  /\ conversation \in Seq(Turn)
  /\ adjudications \in Nat
  /\ open \subseteq 1 .. adjudications /\ given_up \subseteq 1 .. adjudications
  /\ open \cap given_up = {}

TurnsNumbered ==
  \A i \in DOMAIN conversation :
    \E n \in 1 .. adjudications : conversation[i] \in {Question(n), Reply(n)}

TurnsOnce ==
  \A i, j \in DOMAIN conversation : conversation[i] = conversation[j] => i = j

TurnsOwed ==
  \A i \in DOMAIN conversation, n \in open \cup given_up : conversation[i] # Reply(n)

TurnsAnswered ==
  \A i \in DOMAIN conversation, n \in (1 .. adjudications) \ (open \cup given_up) :
    conversation[i] = Question(n) =>
      \E j \in DOMAIN conversation : i < j /\ conversation[j] = Reply(n)

Asked(n) == \E i \in DOMAIN conversation : conversation[i] = Question(n)

Recalled ==
  \A n \in 1 .. adjudications :
    n \in open \/ (\E i \in DOMAIN conversation : conversation[i] = Reply(n))
      => n \in cleared \/ Asked(n)

TurnInvariant == TurnsTyped /\ TurnsNumbered /\ TurnsOnce /\ TurnsOwed /\ TurnsAnswered /\ Recalled

LEMMA TurnsDiffer ==
  /\ \A m, n : Question(m) = Question(n) => m = n
  /\ \A m, n : Reply(m) = Reply(n) => m = n
  /\ \A m, n : Question(m) # Reply(n)
  /\ \A n \in Nat : Question(n) \in Turn /\ Reply(n) \in Turn
BY DEF Question, Reply, Turn

(* Where the turns are after one, or two, have been appended. *)
LEMMA OneTurnMore ==
  ASSUME NEW talk \in Seq(Turn), NEW t \in Turn
  PROVE  /\ Append(talk, t) \in Seq(Turn)
         /\ DOMAIN Append(talk, t) = DOMAIN talk \cup {Len(talk) + 1}
         /\ \A i \in DOMAIN talk : i < Len(talk) + 1 /\ Append(talk, t)[i] = talk[i]
         /\ Append(talk, t)[Len(talk) + 1] = t
OBVIOUS

LEMMA TwoTurnsMore ==
  ASSUME NEW talk \in Seq(Turn), NEW t \in Turn, NEW u \in Turn
  PROVE  /\ talk \o <<t, u>> \in Seq(Turn)
         /\ DOMAIN (talk \o <<t, u>>) = DOMAIN talk \cup {Len(talk) + 1, Len(talk) + 2}
         /\ \A i \in DOMAIN talk : i < Len(talk) + 1 /\ (talk \o <<t, u>>)[i] = talk[i]
         /\ (talk \o <<t, u>>)[Len(talk) + 1] = t
         /\ (talk \o <<t, u>>)[Len(talk) + 2] = u
         /\ Len(talk) \in Nat
<1> DEFINE longer == talk \o <<t, u>>
<1>1. longer \in Seq(Turn) /\ Len(longer) = Len(talk) + 2 /\ Len(talk) \in Nat
  OBVIOUS
<1>2. \A i \in 1 .. Len(talk) : longer[i] = talk[i]
  OBVIOUS
<1>3. longer[Len(talk) + 1] = t /\ longer[Len(talk) + 2] = u
  OBVIOUS
<1>4. DOMAIN longer = 1 .. Len(talk) + 2 /\ DOMAIN talk = 1 .. Len(talk)
  BY <1>1
<1> HIDE DEF longer
<1> QED
  BY <1>1, <1>2, <1>3, <1>4 DEF longer

NewTurns == {Question(This), Reply(This)}

(* What the question of a new message, and then its answer, make of the    *)
(* turns.                                                                  *)
LEMMA FreshTurn ==
  ASSUME TurnInvariant
  PROVE  /\ This \in Nat /\ This \notin open \cup given_up /\ This \notin 1 .. adjudications
         /\ 1 .. This = (1 .. adjudications) \cup {This}
         /\ \A i \in DOMAIN conversation : conversation[i] \notin NewTurns
<1>1. This \in Nat /\ This \notin 1 .. adjudications
  BY DEF TurnInvariant, TurnsTyped, This
<1>2. 1 .. This = (1 .. adjudications) \cup {This}
  BY DEF TurnInvariant, TurnsTyped, This
<1>3. This \notin open \cup given_up
  BY <1>1 DEF TurnInvariant, TurnsTyped
<1>4. \A i \in DOMAIN conversation : conversation[i] \notin NewTurns
  BY <1>1, TurnsDiffer DEF TurnInvariant, TurnsNumbered, NewTurns
<1> QED
  BY <1>1, <1>2, <1>3, <1>4

(* A question whose answer is still to come, or never comes. *)
LEMMA QuestionStep ==
  ASSUME TurnInvariant, adjudications' = This,
         conversation' = Append(conversation, Question(This)),
         open' \cup given_up' = open \cup given_up \cup {This}, open' \cap given_up' = {},
         open \subseteq open', given_up \subseteq given_up', UNCHANGED cleared
  PROVE  TurnInvariant'
<1> USE DEF NewTurns
<1> DEFINE last == Len(conversation) + 1
<1>1. /\ This \in Nat /\ This \notin open \cup given_up /\ This \notin 1 .. adjudications
      /\ 1 .. This = (1 .. adjudications) \cup {This}
      /\ \A i \in DOMAIN conversation : conversation[i] \notin NewTurns
  BY FreshTurn
<1>2. /\ conversation' \in Seq(Turn) /\ DOMAIN conversation' = DOMAIN conversation \cup {last}
      /\ \A i \in DOMAIN conversation : i < last /\ conversation'[i] = conversation[i]
      /\ conversation'[last] = Question(This)
  BY <1>1, OneTurnMore, TurnsDiffer DEF TurnInvariant, TurnsTyped
<1> HIDE DEF last
<1>3. TurnsTyped'
  BY <1>1, <1>2 DEF TurnInvariant, TurnsTyped
<1>4. TurnsNumbered'
  BY <1>1, <1>2 DEF TurnInvariant, TurnsNumbered
<1>5. TurnsOnce'
  BY <1>1, <1>2 DEF TurnInvariant, TurnsOnce
<1>6. TurnsOwed'
  BY <1>1, <1>2, TurnsDiffer DEF TurnInvariant, TurnsOwed
<1>7. TurnsAnswered'
  BY <1>1, <1>2, TurnsDiffer DEF TurnInvariant, TurnsAnswered
<1>8. Recalled'
  <2>1. ASSUME NEW n, n = This PROVE Asked(n)'
    BY <1>2, <2>1 DEF Asked
  <2>2. ASSUME NEW n \in 1 .. adjudications, Asked(n) PROVE Asked(n)'
    BY <1>2, <2>2 DEF Asked
  <2>3. \A n \in 1 .. adjudications :
          /\ n \in open' => n \in open
          /\ (\E i \in DOMAIN conversation' : conversation'[i] = Reply(n))
               => \E i \in DOMAIN conversation : conversation[i] = Reply(n)
    BY <1>1, <1>2, TurnsDiffer
  <2> QED BY <1>1, <2>1, <2>2, <2>3 DEF TurnInvariant, Recalled
<1> QED
  BY <1>3, <1>4, <1>5, <1>6, <1>7, <1>8 DEF TurnInvariant

(* A question and its answer at once. *)
LEMMA ExchangeStep ==
  ASSUME TurnInvariant, adjudications' = This,
         conversation' = conversation \o <<Question(This), Reply(This)>>,
         UNCHANGED <<open, given_up, cleared>>
  PROVE  TurnInvariant'
<1> USE DEF NewTurns
<1> DEFINE last == Len(conversation) + 1
           end == Len(conversation) + 2
<1>1. /\ This \in Nat /\ This \notin open \cup given_up /\ This \notin 1 .. adjudications
      /\ 1 .. This = (1 .. adjudications) \cup {This}
      /\ \A i \in DOMAIN conversation : conversation[i] \notin NewTurns
  BY FreshTurn
<1>2. conversation \in Seq(Turn) /\ Question(This) \in Turn /\ Reply(This) \in Turn
  BY <1>1, TurnsDiffer DEF TurnInvariant, TurnsTyped
<1>3. /\ conversation' \in Seq(Turn) /\ DOMAIN conversation' = DOMAIN conversation \cup {last, end}
      /\ \A i \in DOMAIN conversation : i < last /\ conversation'[i] = conversation[i]
      /\ conversation'[last] = Question(This) /\ conversation'[end] = Reply(This)
      /\ last < end /\ Len(conversation) \in Nat
  BY <1>2, TwoTurnsMore
<1>4. \A i \in DOMAIN conversation : i \in Nat /\ i < end
  BY <1>2, <1>3
<1> HIDE DEF last, end
<1>5. /\ DOMAIN conversation' = DOMAIN conversation \cup {last, end}
      /\ \A i \in DOMAIN conversation : conversation'[i] = conversation[i]
      /\ \A i \in DOMAIN conversation : i # last /\ i # end
      /\ conversation'[last] = Question(This) /\ conversation'[end] = Reply(This)
      /\ last < end
  BY <1>3, <1>4 DEF last, end
<1>6. TurnsTyped'
  BY <1>1, <1>3 DEF TurnInvariant, TurnsTyped
<1>7. TurnsNumbered'
  BY <1>1, <1>5 DEF TurnInvariant, TurnsNumbered
<1>8. TurnsOnce'
  <2> SUFFICES ASSUME NEW i \in DOMAIN conversation', NEW j \in DOMAIN conversation',
                      conversation'[i] = conversation'[j]
               PROVE  i = j
    BY DEF TurnsOnce
  <2>1. Question(This) # Reply(This)
    BY <1>1, TurnsDiffer
  <2>2. CASE i \in DOMAIN conversation /\ j \in DOMAIN conversation
    BY <2>2, <1>5 DEF TurnInvariant, TurnsOnce
  <2>3. CASE i \in {last, end} /\ j \in {last, end}
    BY <2>1, <2>3, <1>5
  <2>4. CASE i \in DOMAIN conversation /\ j \in {last, end}
    BY <2>4, <1>1, <1>5
  <2>5. CASE i \in {last, end} /\ j \in DOMAIN conversation
    BY <2>5, <1>1, <1>5
  <2> QED BY <2>2, <2>3, <2>4, <2>5, <1>5
<1>9. TurnsOwed'
  BY <1>1, <1>5, TurnsDiffer DEF TurnInvariant, TurnsOwed
<1>10. TurnsAnswered'
  <2> SUFFICES ASSUME NEW i \in DOMAIN conversation', NEW n \in 1 .. This,
                      n \notin open \cup given_up, conversation'[i] = Question(n)
               PROVE  \E j \in DOMAIN conversation' : i < j /\ conversation'[j] = Reply(n)
    BY DEF TurnsAnswered
  <2>1. CASE i = last
    BY <1>5, <2>1, TurnsDiffer
  <2>2. CASE i \in DOMAIN conversation
    <3>1. n \in 1 .. adjudications /\ conversation[i] = Question(n)
      BY <1>1, <1>5, <2>2
    <3>2. PICK j \in DOMAIN conversation : i < j /\ conversation[j] = Reply(n)
      BY <2>2, <3>1 DEF TurnInvariant, TurnsAnswered
    <3> QED BY <1>5, <3>2
  <2>3. i # end
    <3>1. conversation'[end] # Question(n)
      BY <1>5, TurnsDiffer
    <3> QED BY <3>1
  <2> QED BY <1>5, <2>1, <2>2, <2>3
<1>11. Recalled'
  <2>1. ASSUME NEW n, n = This PROVE Asked(n)'
    BY <1>5, <2>1 DEF Asked
  <2>2. ASSUME NEW n \in 1 .. adjudications, Asked(n) PROVE Asked(n)'
    BY <1>5, <2>2 DEF Asked
  <2>3. \A n \in 1 .. adjudications :
          (\E i \in DOMAIN conversation' : conversation'[i] = Reply(n))
            => \E i \in DOMAIN conversation : conversation[i] = Reply(n)
    BY <1>1, <1>5, TurnsDiffer
  <2> QED BY <1>1, <2>1, <2>2, <2>3 DEF TurnInvariant, Recalled
<1> QED
  BY <1>6, <1>7, <1>8, <1>9, <1>10, <1>11 DEF TurnInvariant

(* The answer of a stream, wherever the conversation has got to. *)
LEMMA AnswerStep ==
  ASSUME TurnInvariant, NEW n \in open, StreamEnd(n)
  PROVE  TurnInvariant'
<1> DEFINE last == Len(conversation) + 1
<1>1. /\ n \in Nat /\ n \in 1 .. adjudications /\ n \notin given_up
      /\ open' = open \ {n} /\ UNCHANGED <<adjudications, given_up, cleared>>
      /\ \A i \in DOMAIN conversation : conversation[i] # Reply(n)
  BY DEF TurnInvariant, TurnsTyped, TurnsOwed, StreamEnd
<1>2. /\ conversation' \in Seq(Turn) /\ DOMAIN conversation' = DOMAIN conversation \cup {last}
      /\ \A i \in DOMAIN conversation : i < last /\ conversation'[i] = conversation[i]
      /\ conversation'[last] = Reply(n)
  BY <1>1, OneTurnMore, TurnsDiffer DEF TurnInvariant, TurnsTyped, StreamEnd
<1> HIDE DEF last
<1>3. TurnsTyped'
  BY <1>1, <1>2 DEF TurnInvariant, TurnsTyped
<1>4. TurnsNumbered'
  BY <1>1, <1>2 DEF TurnInvariant, TurnsNumbered
<1>5. TurnsOnce'
  BY <1>1, <1>2 DEF TurnInvariant, TurnsOnce
<1>6. TurnsOwed'
  BY <1>1, <1>2, TurnsDiffer DEF TurnInvariant, TurnsOwed
<1>7. TurnsAnswered'
  BY <1>1, <1>2, TurnsDiffer DEF TurnInvariant, TurnsAnswered
<1>8. Recalled'
  BY <1>1, <1>2, TurnsDiffer DEF TurnInvariant, Recalled, Asked
<1> QED
  BY <1>3, <1>4, <1>5, <1>6, <1>7, <1>8 DEF TurnInvariant

(* No turn enters: a message is refused, a stream dropped. *)
LEMMA NoTurnStep ==
  ASSUME TurnInvariant, UNCHANGED <<conversation, cleared>>,
         \/ adjudications' = This /\ UNCHANGED <<open, given_up>>
         \/ \E n \in open : StreamDrop(n)
         \/ UNCHANGED <<adjudications, open, given_up>>
  PROVE  TurnInvariant'
<1> USE DEF NewTurns
<1>1. CASE adjudications' = This /\ UNCHANGED <<open, given_up>>
  <2>1. /\ This \notin open \cup given_up
        /\ 1 .. This = (1 .. adjudications) \cup {This} /\ This \in Nat
        /\ \A i \in DOMAIN conversation : conversation[i] \notin NewTurns
    BY FreshTurn
  <2>2. TurnsTyped' /\ TurnsNumbered' /\ TurnsOnce' /\ TurnsOwed'
    BY <1>1, <2>1 DEF TurnInvariant, TurnsTyped, TurnsNumbered, TurnsOnce, TurnsOwed
  <2>3. TurnsAnswered'
    BY <1>1, <2>1 DEF TurnInvariant, TurnsAnswered
  <2>4. Recalled'
    BY <1>1, <2>1 DEF TurnInvariant, Recalled, Asked
  <2> QED
    BY <2>2, <2>3, <2>4 DEF TurnInvariant
<1>2. ASSUME NEW n \in open, StreamDrop(n) PROVE TurnInvariant'
  BY <1>2 DEF StreamDrop, TurnInvariant, TurnsTyped, TurnsNumbered, TurnsOnce,
      TurnsOwed, TurnsAnswered,
     Recalled, Asked
<1>3. CASE UNCHANGED <<adjudications, open, given_up>>
  BY <1>3 DEF TurnInvariant, TurnsTyped, TurnsNumbered, TurnsOnce, TurnsOwed, TurnsAnswered,
      Recalled, Asked
<1> QED
  BY <1>1, <1>2, <1>3

LEMMA ResetStep == TurnInvariant /\ Reset => TurnInvariant'
<1> SUFFICES ASSUME TurnInvariant, Reset PROVE TurnInvariant'
  OBVIOUS
<1>1. conversation' \in Seq(Turn) /\ DOMAIN conversation' = {}
  BY DEF Reset
<1> QED
  BY <1>1 DEF Reset, TurnInvariant, TurnsTyped, TurnsNumbered, TurnsOnce, TurnsOwed,
      TurnsAnswered, Recalled, Asked

LEMMA ConversationStep == TurnInvariant /\ [SentinelNext]_sentinel => TurnInvariant'
<1> SUFFICES ASSUME TurnInvariant, [SentinelNext]_sentinel PROVE TurnInvariant'
  OBVIOUS
<1>1. CASE ChatBlocked \/ StreamBlocked \/ EvolveNow \/ UNCHANGED sentinel
  BY <1>1, NoTurnStep DEF ChatBlocked, StreamBlocked, Refuse,
      Adjudicated, EvolveNow, sentinel
<1>2. CASE Chat \/ StreamWhole
  BY <1>2, ExchangeStep DEF Chat, StreamWhole, Adjudicated
<1>3. CASE StreamBegin \/ StreamWholeFails \/ ChatInterrupted
  <2>1. This \notin open \cup given_up /\ open \cap given_up = {}
    BY FreshTurn DEF TurnInvariant, TurnsTyped
  <2> QED BY <1>3, <2>1, QuestionStep DEF StreamBegin, StreamWholeFails,
      ChatInterrupted, Adjudicated
<1>4. ASSUME NEW n \in open, StreamEnd(n) PROVE TurnInvariant'
  BY <1>4, AnswerStep
<1>5. ASSUME NEW n \in open, StreamDrop(n) PROVE TurnInvariant'
  BY <1>5, NoTurnStep DEF StreamDrop
<1>6. CASE Reset
  BY <1>6, ResetStep
<1> QED
  BY <1>1, <1>2, <1>3, <1>4, <1>5, <1>6 DEF SentinelNext

(* However chats, streams, drops and resets interleave, every question of  *)
(* the conversation has its one answer after it or never gets one, and an  *)
(* answer has lost its question only to a reset.                           *)
THEOREM TurnsArePaired == SentinelSpec => []TurnsPair
<1>1. SentinelInit => TurnInvariant
  BY DEF SentinelInit, TurnInvariant, TurnsTyped, TurnsNumbered, TurnsOnce, TurnsOwed,
      TurnsAnswered, Recalled
<1>2. TurnInvariant => TurnsPair
  <2> SUFFICES ASSUME TurnInvariant, NEW n \in 1 .. adjudications
               PROVE  /\ Places(Question(n)) # {} =>
                           IF n \in open \cup given_up THEN Places(Reply(n)) = {}
                           ELSE \E i, j \in DOMAIN conversation :
                                    /\ Places(Question(n)) = {i}
                                    /\ Places(Reply(n)) = {j} /\ i < j
                      /\ Places(Reply(n)) # {} /\ Places(Question(n)) = {}
                           => n \in cleared
    BY DEF TurnsPair
  <2>1. \A turn : \A i \in Places(turn) : Places(turn) = {i}
    BY DEF TurnInvariant, TurnsOnce, Places
  <2>2. n \in open \cup given_up => Places(Reply(n)) = {}
    BY DEF TurnInvariant, TurnsOwed, Places
  <2>3. ASSUME n \notin open \cup given_up, Places(Question(n)) # {}
        PROVE  \E i, j \in DOMAIN conversation :
                 Places(Question(n)) = {i} /\ Places(Reply(n)) = {j} /\ i < j
    <3>1. PICK i \in DOMAIN conversation : conversation[i] = Question(n)
      BY <2>3 DEF Places
    <3>2. PICK j \in DOMAIN conversation : i < j /\ conversation[j] = Reply(n)
      BY <2>3, <3>1 DEF TurnInvariant, TurnsAnswered
    <3>3. i \in Places(Question(n)) /\ j \in Places(Reply(n))
      BY <3>1, <3>2 DEF Places
    <3> QED BY <2>1, <3>2, <3>3
  <2>4. Places(Reply(n)) # {} /\ Places(Question(n)) = {} => n \in cleared
    BY DEF TurnInvariant, Recalled, Asked, Places
  <2> QED BY <2>2, <2>3, <2>4
<1> QED
  BY <1>1, <1>2, ConversationStep, PTL DEF SentinelSpec

----------------------------------------------------------------------------
(* What the providers are asked: whatever the conversation holds, Gemini's *)
(* contents say it faithfully, and every provider is asked the same.       *)

(* A set that has 0 and, with a number up to N, the next, has them all. *)
LEMMA CountingUp ==
  ASSUME NEW N \in Nat, NEW S, 0 \in S, \A n \in 1 .. N : n - 1 \in S => n \in S
  PROVE  0 .. N \subseteq S
<1> SUFFICES ASSUME (0 .. N) \ S # {} PROVE FALSE
  OBVIOUS
<1> DEFINE left == (0 .. N) \ S
<1>1. left \subseteq Nat /\ left # {}
  OBVIOUS
<1>2. PICK n \in left : \A m \in left : ~(<<m, n>> \in OpToRel(<, Nat))
  <2> HIDE DEF left
  <2> QED BY <1>1, NatLessThanWellFounded, WFMin
<1>3. n \in 1 .. N /\ n - 1 \in left
  OBVIOUS
<1>4. <<n - 1, n>> \in OpToRel(<, Nat)
  BY <1>3 DEF OpToRel
<1> QED BY <1>2, <1>3, <1>4

(* The items gathered so far are those of one message fewer, and one more. *)
LEMMA GatheredOneByOne ==
  ASSUME NEW messages, Len(messages) \in Nat
  PROVE  /\ Gathered(messages)[0] = <<>>
         /\ \A n \in 1 .. Len(messages) :
              Gathered(messages)[n] = Gather(Gathered(messages)[n - 1], messages[n])
<1> DEFINE Gathers(items, k) ==
      items = [n \in 0 .. k |-> IF n = 0 THEN <<>> ELSE Gather(items[n - 1], messages[n])]
    able == {k \in Nat : \E items : Gathers(items, k)}
<1>1. 0 \in able
  <2> DEFINE none == [n \in 0 .. 0 |-> <<>>]
  <2>1. Gathers(none, 0)
    OBVIOUS
  <2> QED BY <2>1
<1>2. ASSUME NEW k \in 1 .. Len(messages), k - 1 \in able
      PROVE  k \in able
  <2>1. PICK items : Gathers(items, k - 1)
    BY <1>2
  <2> DEFINE more == [n \in 0 .. k |->
                        IF n = k THEN Gather(items[k - 1], messages[k]) ELSE items[n]]
  <2>2. DOMAIN more = 0 .. k /\ more[0] = <<>>
    BY <2>1
  <2>3. \A n \in 1 .. k : more[n] = Gather(more[n - 1], messages[n])
    BY <2>1
  <2>4. more = [n \in DOMAIN more |-> more[n]]
    OBVIOUS
  <2> HIDE DEF more
  <2>5. \A n \in 0 .. k : more[n] = IF n = 0 THEN <<>> ELSE Gather(more[n - 1], messages[n])
    BY <2>2, <2>3
  <2>6. Gathers(more, k)
    BY <2>2, <2>4, <2>5
  <2>7. k \in Nat
    BY <1>2
  <2> HIDE DEF Gathers
  <2> QED BY <2>6, <2>7
<1>3. Len(messages) \in able
  <2> HIDE DEF able
  <2>1. 0 .. Len(messages) \subseteq able
    BY <1>1, <1>2, CountingUp
  <2> QED BY <2>1
<1>4. Gathers(Gathered(messages), Len(messages))
  BY <1>3 DEF Gathered
<1> QED
  BY <1>4

(* The same of the contents and the items. *)
LEMMA EmittedOneByOne ==
  ASSUME NEW items, Len(items) \in Nat
  PROVE  /\ Emitted(items)[0] = <<>>
         /\ \A n \in 1 .. Len(items) :
              Emitted(items)[n] = Put(Emitted(items)[n - 1], items, n)
<1> DEFINE Emits(out, k) ==
      out = [n \in 0 .. k |-> IF n = 0 THEN <<>> ELSE Put(out[n - 1], items, n)]
    able == {k \in Nat : \E out : Emits(out, k)}
<1>1. 0 \in able
  <2> DEFINE none == [n \in 0 .. 0 |-> <<>>]
  <2>1. Emits(none, 0)
    OBVIOUS
  <2> QED BY <2>1
<1>2. ASSUME NEW k \in 1 .. Len(items), k - 1 \in able
      PROVE  k \in able
  <2>1. PICK out : Emits(out, k - 1)
    BY <1>2
  <2> DEFINE more == [n \in 0 .. k |->
                        IF n = k THEN Put(out[k - 1], items, k) ELSE out[n]]
  <2>2. DOMAIN more = 0 .. k /\ more[0] = <<>>
    BY <2>1
  <2>3. \A n \in 1 .. k : more[n] = Put(more[n - 1], items, n)
    BY <2>1
  <2>4. more = [n \in DOMAIN more |-> more[n]]
    OBVIOUS
  <2> HIDE DEF more
  <2>5. \A n \in 0 .. k : more[n] = IF n = 0 THEN <<>> ELSE Put(more[n - 1], items, n)
    BY <2>2, <2>3
  <2>6. Emits(more, k)
    BY <2>2, <2>4, <2>5
  <2>7. k \in Nat
    BY <1>2
  <2> HIDE DEF Emits
  <2> QED BY <2>6, <2>7
<1>3. Len(items) \in able
  <2> HIDE DEF able
  <2>1. 0 .. Len(items) \subseteq able
    BY <1>1, <1>2, CountingUp
  <2> QED BY <2>1
<1>4. Emits(Emitted(items), Len(items))
  BY <1>3 DEF Emitted
<1> QED
  BY <1>4

Word == Nat \cup {"interleaved", "own", "prompt"}
Utterance == [role : {"user", "model", "system"}, of : Seq(Word)]

(* No two preludes in a row. *)
Apart(items) ==
  /\ items \in Seq(Utterance)
  /\ \A i \in 1 .. Len(items) : i + 1 \in 1 .. Len(items) =>
       ~(items[i].role = "system" /\ items[i + 1].role = "system")

LEMMA GatherKeepsApart ==
  ASSUME NEW items, Apart(items), NEW message \in Utterance
  PROVE  Apart(Gather(items, message))
<1>1. items \in Seq(Utterance) /\ Len(items) \in Nat
  BY DEF Apart
<1>2. CASE message.role = "system" /\ items # <<>> /\ Last(items).role = "system"
  <2> DEFINE n == Len(items)
             joined == [items[n] EXCEPT !.of = @ \o message.of]
  <2>1. n \in 1 .. n
    BY <1>1, <1>2, EmptySeq
  <2>2. items[n] \in Utterance
    BY <1>1, <2>1
  <2>3. joined \in Utterance /\ joined.role = items[n].role
    <3>1. /\ items[n].role \in {"user", "model", "system"}
          /\ items[n].of \in Seq(Word) /\ message.of \in Seq(Word)
      BY <2>2 DEF Utterance
    <3>2. items[n].of \o message.of \in Seq(Word)
      BY <3>1, ConcatProperties
    <3>3. \A u \in Utterance : \A w : [u EXCEPT !.of = w] = [role |-> u.role, of |-> w]
      BY DEF Utterance
    <3>4. joined = [role |-> items[n].role, of |-> items[n].of \o message.of]
      BY <2>2, <3>3
    <3> HIDE DEF joined
    <3> QED BY <3>1, <3>2, <3>4 DEF Utterance
  <2>4. Gather(items, message) = [items EXCEPT ![n] = joined]
    BY <1>2 DEF Gather
  <2> HIDE DEF joined
  <2>5. /\ Gather(items, message) \in Seq(Utterance)
        /\ Len(Gather(items, message)) = n
        /\ \A i \in 1 .. n : Gather(items, message)[i] = IF i = n THEN joined ELSE items[i]
    BY <1>1, <2>1, <2>3, <2>4, ExceptSeq
  <2> QED BY <1>1, <2>3, <2>5 DEF Apart
<1>3. CASE ~(message.role = "system" /\ items # <<>> /\ Last(items).role = "system")
  <2>1. Gather(items, message) = Append(items, message)
    BY <1>3 DEF Gather
  <2>2. /\ Gather(items, message) \in Seq(Utterance)
        /\ Len(Gather(items, message)) = Len(items) + 1
        /\ \A i \in 1 .. Len(items) : Gather(items, message)[i] = items[i]
        /\ Gather(items, message)[Len(items) + 1] = message
    BY <1>1, <2>1, AppendProperties
  <2>3. Len(items) \in 1 .. Len(items) => ~(items[Len(items)].role = "system" /\ message.role = "system")
    BY <1>1, <1>3 DEF Last
  <2> QED BY <1>1, <2>2, <2>3 DEF Apart
<1> QED BY <1>2, <1>3

LEMMA CleanedIsApart ==
  ASSUME NEW messages \in Seq(Utterance)
  PROVE  Apart(Cleaned(messages))
<1> DEFINE some == {n \in Nat : Apart(Gathered(messages)[n])}
<1>1. Len(messages) \in Nat /\ \A n \in 1 .. Len(messages) : messages[n] \in Utterance
  OBVIOUS
<1>2. 0 \in some
  <2>1. Len(<<>>) = 0 /\ <<>> \in Seq(Utterance)
    BY EmptySeq
  <2>2. Apart(<<>>)
    BY <2>1 DEF Apart
  <2> QED BY <1>1, <2>2, GatheredOneByOne
<1>3. \A n \in 1 .. Len(messages) : n - 1 \in some => n \in some
  BY <1>1, GatheredOneByOne, GatherKeepsApart
<1> HIDE DEF some
<1>4. 0 .. Len(messages) \subseteq some
  BY <1>1, <1>2, <1>3, CountingUp
<1>5. Len(messages) \in some
  BY <1>1, <1>4
<1> QED BY <1>5 DEF some, Cleaned

(* After a prelude comes what is next. *)
LEMMA NextRealIs ==
  ASSUME NEW items, Apart(items), NEW i \in 1 .. Len(items), items[i].role = "system"
  PROVE  NextReal(items, i) = IF i = Len(items) THEN "none" ELSE items[i + 1].role
<1> DEFINE after == {j \in (i + 1) .. Len(items) : items[j].role # "system"}
<1>1. Len(items) \in Nat
  BY DEF Apart
<1>2. CASE i = Len(items)
  <2>1. after = {}
    BY <1>1, <1>2
  <2> QED BY <1>2, <2>1 DEF NextReal
<1>3. CASE i # Len(items)
  <2>1. i + 1 \in after /\ \A k \in after : i + 1 <= k
    BY <1>1, <1>3 DEF Apart
  <2>2. (CHOOSE j \in after : \A k \in after : j <= k) = i + 1
    BY <2>1
  <2>3. after # {}
    BY <2>1
  <2> HIDE DEF after
  <2>4. NextReal(items, i) = items[CHOOSE j \in after : \A k \in after : j <= k].role
    BY <2>3 DEF NextReal, after
  <2> QED BY <1>3, <2>2, <2>4
<1> QED BY <1>2, <1>3

Part == Utterance \cup {Understood, Empty}
GeminiTurn == [role : {"user", "model"}, parts : Seq(Part)]

(* Turns as GeminiFaithful wants them. *)
Formed(out) ==
  /\ out \in Seq(GeminiTurn)
  /\ \A i \in 1 .. Len(out) :
       /\ out[i].parts # <<>>
       /\ out[i].role = IF i % 2 = 1 THEN "user" ELSE "model"
       /\ \A part \in ToSet(out[i].parts) :
            /\ part.role = "system" => out[i] = [role |-> "user", parts |-> <<part>>]
            /\ part.role \in {"user", "model"} => out[i].role = part.role

(* The last turn is a prelude. *)
Instructs(out) == out # <<>> /\ \E part \in ToSet(Last(out).parts) : part.role = "system"

(* The last turn speaks for this role, so that a part joins it. *)
Joins(out, role) == out # <<>> /\ Last(out).role = role

(* A part that can be appended without harm. *)
Fits(out, role, part) ==
  /\ role \in {"user", "model"} /\ part \in Part
  /\ out = <<>> => role = "user"
  /\ part.role = "system" => role = "user" /\ ~Joins(out, role)
  /\ part.role \in {"user", "model"} => role = part.role
  /\ Joins(out, role) => ~Instructs(out) /\ Last(out).parts # <<Empty>>

LEMMA LastTurn ==
  ASSUME NEW out, Formed(out), out # <<>>
  PROVE  /\ Len(out) \in Nat \ {0} /\ Len(out) \in 1 .. Len(out)
         /\ Last(out) = out[Len(out)] /\ Last(out) \in GeminiTurn
<1>1. out \in Seq(GeminiTurn)
  BY DEF Formed
<1>2. Len(out) \in Nat \ {0}
  BY <1>1, EmptySeq
<1> QED BY <1>1, <1>2 DEF Last

(* The sequence new is out with its turn k as given, k being the last or one
   more, and the roles go on alternating. *)
LEMMA FormedWith ==
  ASSUME NEW out, Formed(out), NEW k \in Nat, k \in {Len(out), Len(out) + 1},
         NEW turn \in GeminiTurn, turn.parts # <<>>,
         turn.role = IF k % 2 = 1 THEN "user" ELSE "model",
         \A part \in ToSet(turn.parts) :
            /\ part.role = "system" => turn = [role |-> "user", parts |-> <<part>>]
            /\ part.role \in {"user", "model"} => turn.role = part.role,
         NEW new \in Seq(GeminiTurn), Len(new) = k,
         \A i \in 1 .. k : new[i] = IF i = k THEN turn ELSE out[i]
  PROVE  Formed(new)
<1>1. out \in Seq(GeminiTurn) /\ Len(out) \in Nat
  BY DEF Formed
<1> SUFFICES ASSUME NEW i \in 1 .. Len(new)
             PROVE  /\ new[i].parts # <<>>
                    /\ new[i].role = IF i % 2 = 1 THEN "user" ELSE "model"
                    /\ \A p \in ToSet(new[i].parts) :
                         /\ p.role = "system" => new[i] = [role |-> "user", parts |-> <<p>>]
                         /\ p.role \in {"user", "model"} => new[i].role = p.role
  BY DEF Formed
<1>2. CASE i = k
  BY <1>2
<1>3. CASE i # k
  <2>1. i \in 1 .. Len(out) /\ new[i] = out[i]
    BY <1>1, <1>3
  <2> QED BY <2>1 DEF Formed
<1> QED BY <1>2, <1>3

LEMMA NewTurn ==
  ASSUME NEW out, Formed(out), NEW role, NEW part, Fits(out, role, part), ~Joins(out, role)
  PROVE  /\ Formed(AppendTurn(out, role, part))
         /\ Len(AppendTurn(out, role, part)) = Len(out) + 1
         /\ \A i \in 1 .. Len(out) : AppendTurn(out, role, part)[i] = out[i]
         /\ AppendTurn(out, role, part)[Len(out) + 1] = [role |-> role, parts |-> <<part>>]
<1> DEFINE turn == [role |-> role, parts |-> <<part>>]
           new == AppendTurn(out, role, part)
<1>1. out \in Seq(GeminiTurn) /\ Len(out) \in Nat
  BY DEF Formed
<1>2. turn \in GeminiTurn
  BY DEF GeminiTurn, Fits
<1>3. new = Append(out, turn)
  BY DEF AppendTurn, Joins
<1>4. /\ new \in Seq(GeminiTurn) /\ Len(new) = Len(out) + 1
      /\ \A i \in 1 .. Len(out) : new[i] = out[i]
      /\ new[Len(out) + 1] = turn
  BY <1>1, <1>2, <1>3, AppendProperties
<1>5. ToSet(turn.parts) = {part} /\ turn.parts # <<>>
  BY DEF ToSet
<1>6. role = IF (Len(out) + 1) % 2 = 1 THEN "user" ELSE "model"
  <2>1. CASE out = <<>>
    BY <2>1 DEF Fits
  <2>2. CASE out # <<>>
    <3>1. /\ Len(out) \in 1 .. Len(out) /\ out[Len(out)].role # role
          /\ out[Len(out)].role = IF Len(out) % 2 = 1 THEN "user" ELSE "model"
      BY <2>2, LastTurn DEF Joins, Formed
    <3>2. Len(out) % 2 = 1 <=> (Len(out) + 1) % 2 # 1
      BY <1>1
    <3> QED BY <3>1, <3>2 DEF Fits
  <2> QED BY <2>1, <2>2
<1>7. turn.role = role /\ turn.parts = <<part>>
  OBVIOUS
<1>8. /\ part.role = "system" => turn = [role |-> "user", parts |-> <<part>>]
      /\ part.role \in {"user", "model"} => turn.role = part.role
  BY DEF Fits
<1>9. Formed(new)
  <2> HIDE DEF turn, new
  <2>1. \A p \in ToSet(turn.parts) :
          /\ p.role = "system" => turn = [role |-> "user", parts |-> <<p>>]
          /\ p.role \in {"user", "model"} => turn.role = p.role
    BY <1>5, <1>8
  <2>2. \A i \in 1 .. Len(out) + 1 : new[i] = IF i = Len(out) + 1 THEN turn ELSE out[i]
    BY <1>1, <1>4
  <2>3. Len(out) + 1 \in Nat
    BY <1>1
  <2>4. turn.role = IF (Len(out) + 1) % 2 = 1 THEN "user" ELSE "model"
    BY <1>6, <1>7
  <2> DEFINE n == Len(out) + 1
  <2>5. n \in Nat /\ n \in {Len(out), Len(out) + 1} /\ Len(new) = n /\ new \in Seq(GeminiTurn)
    BY <1>4, <2>3
  <2>6. \A i \in 1 .. n : new[i] = IF i = n THEN turn ELSE out[i]
    BY <2>2
  <2>7. turn.role = IF n % 2 = 1 THEN "user" ELSE "model"
    BY <2>4
  <2> HIDE DEF n
  <2> QED BY <1>2, <1>5, <2>1, <2>5, <2>6, <2>7, FormedWith
<1> QED BY <1>4, <1>9

LEMMA JoinTurn ==
  ASSUME NEW out, Formed(out), NEW role, NEW part, Fits(out, role, part), Joins(out, role)
  PROVE  /\ Formed(AppendTurn(out, role, part))
         /\ Len(AppendTurn(out, role, part)) = Len(out)
         /\ \A i \in 1 .. Len(out) :
              AppendTurn(out, role, part)[i] =
                 IF i = Len(out)
                 THEN [role |-> role, parts |-> Append(out[Len(out)].parts, part)]
                 ELSE out[i]
<1> DEFINE k == Len(out)
           parts == out[k].parts
           turn == [role |-> role, parts |-> Append(parts, part)]
           new == AppendTurn(out, role, part)
<1>1. /\ out \in Seq(GeminiTurn) /\ k \in Nat \ {0} /\ k \in 1 .. k
      /\ out[k] \in GeminiTurn /\ out[k].role = role /\ parts # <<Empty>>
      /\ Last(out) = out[k] /\ out # <<>>
  BY LastTurn DEF Formed, Joins, Fits
<1>2. parts \in Seq(Part) /\ part \in Part /\ role \in {"user", "model"}
  BY <1>1 DEF GeminiTurn, Fits
<1>3. /\ Append(parts, part) \in Seq(Part) /\ Append(parts, part) # <<>>
      /\ \A j \in 1 .. Len(parts) : Append(parts, part)[j] = parts[j]
      /\ Len(Append(parts, part)) = Len(parts) + 1
      /\ Append(parts, part)[Len(parts) + 1] = part
  BY <1>2, AppendProperties
<1>4. turn \in GeminiTurn
  BY <1>2, <1>3 DEF GeminiTurn
<1>5. new = [out EXCEPT ![k] = turn]
  <2>1. \A u \in GeminiTurn : \A w : [u EXCEPT !.parts = w] = [role |-> u.role, parts |-> w]
    BY DEF GeminiTurn
  <2>2. [out[k] EXCEPT !.parts = Append(parts, part)] = turn
    BY <1>1, <2>1
  <2>3. new = [out EXCEPT ![k] = [out[k] EXCEPT !.parts = Append(parts, part)]]
    BY <1>1 DEF AppendTurn
  <2> QED BY <2>2, <2>3
<1>6. /\ new \in Seq(GeminiTurn) /\ Len(new) = k
      /\ \A i \in 1 .. k : new[i] = IF i = k THEN turn ELSE out[i]
  <2> HIDE DEF turn, new
  <2> QED BY <1>1, <1>4, <1>5, ExceptSeq
<1>7. role = IF k % 2 = 1 THEN "user" ELSE "model"
  BY <1>1 DEF Formed
<1>8. \A p \in ToSet(turn.parts) :
        /\ p.role = "system" => turn = [role |-> "user", parts |-> <<p>>]
        /\ p.role \in {"user", "model"} => turn.role = p.role
  <2> SUFFICES ASSUME NEW p \in ToSet(turn.parts)
               PROVE  p.role # "system" /\ (p.role \in {"user", "model"} => role = p.role)
    OBVIOUS
  <2>1. p = part \/ p \in ToSet(parts)
    BY <1>2, <1>3 DEF ToSet
  <2>2. CASE p = part
    BY <2>2 DEF Fits
  <2>3. CASE p \in ToSet(parts)
    <3>1. p.role # "system"
      BY <1>1, <2>3 DEF Fits, Instructs
    <3>2. p.role \in {"user", "model"} => out[k].role = p.role
      BY <1>1, <2>3 DEF Formed
    <3> QED BY <1>1, <3>1, <3>2
  <2> QED BY <2>1, <2>2, <2>3
<1>9. Formed(new)
  <2>1. turn.role = role /\ turn.parts # <<>>
    BY <1>3
  <2>2. k \in Nat /\ k \in {Len(out), Len(out) + 1}
    BY <1>1
  <2>3. turn.role = IF k % 2 = 1 THEN "user" ELSE "model"
    BY <1>7, <2>1
  <2> HIDE DEF k, turn, new
  <2> QED BY <1>4, <1>6, <1>8, <2>1, <2>2, <2>3, FormedWith
<1> QED BY <1>6, <1>9

(* Said means said by one of the parts of one of the turns. *)
LEMMA SpokenIs ==
  ASSUME NEW out, Formed(out), NEW p
  PROVE  p \in Spoken(out) <=>
           \E i \in 1 .. Len(out) : \E j \in 1 .. Len(out[i].parts) :
              p = <<i, j>> /\ out[i].parts[j] \notin {Understood, Empty}
<1>1. DOMAIN out = 1 .. Len(out) /\ \A i \in 1 .. Len(out) : out[i] \in GeminiTurn
  BY DEF Formed
<1>2. \A i \in 1 .. Len(out) : DOMAIN out[i].parts = 1 .. Len(out[i].parts)
  BY <1>1 DEF GeminiTurn
<1>3. \A i, j : Heard(out, <<i, j>>) = out[i].parts[j]
  BY DEF Heard
<1> QED BY <1>1, <1>2, <1>3 DEF Spoken

(* The first n items have been said, each once and in order. *)
Said(out, items, n) ==
  /\ IsFiniteSet(Spoken(out)) /\ Cardinality(Spoken(out)) = n
  /\ \A p \in Spoken(out) : Heard(out, p) = items[Cardinality(SpokenUntil(out, p))]

(* The position q comes before the position p. *)
Before(q, p) == q[1] < p[1] \/ (q[1] = p[1] /\ q[2] < p[2])

(* What a part adds to what is said is said last. *)
AddsLast(out, new, part) ==
  \E at \in Nat \X Nat :
    /\ Heard(new, at) = part
    /\ Spoken(new) = Spoken(out) \cup (IF part \in {Understood, Empty} THEN {} ELSE {at})
    /\ \A p \in Spoken(out) : p \in Nat \X Nat /\ Heard(new, p) = Heard(out, p) /\ Before(p, at)

LEMMA NewTurnAddsLast ==
  ASSUME NEW out, Formed(out), NEW role, NEW part, Fits(out, role, part), ~Joins(out, role)
  PROVE  AddsLast(out, AppendTurn(out, role, part), part)
<1> DEFINE new == AppendTurn(out, role, part)
           k == Len(out) + 1
           turn == [role |-> role, parts |-> <<part>>]
           at == <<k, 1>>
<1>1. /\ Formed(new) /\ Len(new) = k
      /\ \A i \in 1 .. Len(out) : new[i] = out[i]
      /\ new[k] = turn
  BY NewTurn
<1>2. Len(out) \in Nat /\ \A i \in 1 .. Len(out) : Len(out[i].parts) \in Nat
  BY DEF Formed, GeminiTurn
<1>3. turn.parts = <<part>> /\ Len(turn.parts) = 1 /\ turn.parts[1] = part
  OBVIOUS
<1> HIDE DEF new, turn
<1>4. at \in Nat \X Nat /\ Heard(new, at) = part
  BY <1>1, <1>2, <1>3 DEF Heard
<1>5. \A p : p \in Spoken(new) <=>
               p \in Spoken(out) \/ (p = at /\ part \notin {Understood, Empty})
  <2> TAKE p
  <2>1. p \in Spoken(new) =>
          p \in Spoken(out) \/ (p = at /\ part \notin {Understood, Empty})
    <3> SUFFICES ASSUME NEW i \in 1 .. k, NEW j \in 1 .. Len(new[i].parts), p = <<i, j>>,
                        new[i].parts[j] \notin {Understood, Empty}
                 PROVE  p \in Spoken(out) \/ (p = at /\ part \notin {Understood, Empty})
      BY <1>1, SpokenIs
    <3>1. CASE i = k
      BY <1>1, <1>3, <3>1
    <3>2. CASE i # k
      <4>1. i \in 1 .. Len(out) /\ new[i] = out[i]
        BY <1>1, <1>2, <3>2
      <4> QED BY <4>1, SpokenIs
    <3> QED BY <3>1, <3>2
  <2>2. p \in Spoken(out) => p \in Spoken(new)
    <3> SUFFICES ASSUME NEW i \in 1 .. Len(out), NEW j \in 1 .. Len(out[i].parts), p = <<i, j>>,
                        out[i].parts[j] \notin {Understood, Empty}
                 PROVE  p \in Spoken(new)
      BY SpokenIs
    <3>1. i \in 1 .. Len(new) /\ new[i] = out[i]
      BY <1>1, <1>2
    <3> QED BY <1>1, <3>1, SpokenIs
  <2>3. part \notin {Understood, Empty} => at \in Spoken(new)
    <3>1. k \in 1 .. Len(new) /\ 1 \in 1 .. Len(new[k].parts) /\ new[k].parts[1] = part
      BY <1>1, <1>2, <1>3
    <3> QED BY <1>1, <3>1, SpokenIs
  <2> QED BY <2>1, <2>2, <2>3
<1>6. \A p \in Spoken(out) : p \in Nat \X Nat /\ Heard(new, p) = Heard(out, p) /\ Before(p, at)
  <2>1. ASSUME NEW i \in 1 .. Len(out), NEW j \in 1 .. Len(out[i].parts)
        PROVE  /\ <<i, j>> \in Nat \X Nat /\ Heard(new, <<i, j>>) = Heard(out, <<i, j>>)
               /\ Before(<<i, j>>, at)
    BY <1>1, <1>2 DEF Heard, Before
  <2> HIDE DEF at, new
  <2>2. \A p \in Spoken(out) :
          \E i \in 1 .. Len(out) : \E j \in 1 .. Len(out[i].parts) : p = <<i, j>>
    BY SpokenIs
  <2> QED BY <2>1, <2>2
<1> HIDE DEF at, new
<1>7. Spoken(new) = Spoken(out) \cup (IF part \in {Understood, Empty} THEN {} ELSE {at})
  <2>1. CASE part \in {Understood, Empty}
    <3>1. \A p : p \in Spoken(new) <=> p \in Spoken(out)
      BY <1>5, <2>1
    <3> QED BY <2>1, <3>1
  <2>2. CASE part \notin {Understood, Empty}
    <3>1. \A p : p \in Spoken(new) <=> p \in Spoken(out) \/ p = at
      BY <1>5, <2>2
    <3> QED BY <2>2, <3>1
  <2> QED BY <2>1, <2>2
<1>8. AddsLast(out, new, part)
  BY <1>4, <1>6, <1>7 DEF AddsLast
<1> QED BY <1>8 DEF new

LEMMA JoinTurnAddsLast ==
  ASSUME NEW out, Formed(out), NEW role, NEW part, Fits(out, role, part), Joins(out, role)
  PROVE  AddsLast(out, AppendTurn(out, role, part), part)
<1> DEFINE new == AppendTurn(out, role, part)
           k == Len(out)
           l == Len(out[k].parts)
           at == <<k, l + 1>>
<1>1. /\ Formed(new) /\ Len(new) = k
      /\ \A i \in 1 .. k : i # k => new[i] = out[i]
      /\ new[k].parts = Append(out[k].parts, part)
  <2> DEFINE turn == [role |-> role, parts |-> Append(out[k].parts, part)]
  <2>1. /\ Formed(new) /\ Len(new) = k
        /\ \A i \in 1 .. k : new[i] = IF i = k THEN turn ELSE out[i]
    BY JoinTurn
  <2>2. k \in 1 .. k
    BY LastTurn DEF Joins
  <2>3. turn.parts = Append(out[k].parts, part)
    OBVIOUS
  <2> HIDE DEF new, turn
  <2> QED BY <2>1, <2>2, <2>3
<1>2. k \in Nat \ {0} /\ \A i \in 1 .. k : Len(out[i].parts) \in Nat /\ out[i].parts \in Seq(Part)
  <2>1. k \in Nat \ {0} /\ \A i \in 1 .. k : out[i] \in GeminiTurn
    BY LastTurn DEF Formed, Joins
  <2> QED BY <2>1 DEF GeminiTurn
<1>3. /\ Len(new[k].parts) = l + 1 /\ new[k].parts[l + 1] = part /\ l \in Nat
      /\ \A j \in 1 .. l : new[k].parts[j] = out[k].parts[j]
  <2>1. out[k].parts \in Seq(Part) /\ part \in Part /\ l \in Nat
    BY <1>2 DEF Fits
  <2> HIDE DEF new
  <2> QED BY <1>1, <2>1, AppendProperties
<1> HIDE DEF new
<1>4. at \in Nat \X Nat /\ Heard(new, at) = part
  BY <1>1, <1>2, <1>3 DEF Heard
<1> HIDE DEF l
<1>5. \A p : p \in Spoken(new) <=>
               p \in Spoken(out) \/ (p = at /\ part \notin {Understood, Empty})
  <2> TAKE p
  <2>1. p \in Spoken(new) =>
          p \in Spoken(out) \/ (p = at /\ part \notin {Understood, Empty})
    <3> SUFFICES ASSUME NEW i \in 1 .. k, NEW j \in 1 .. Len(new[i].parts), p = <<i, j>>,
                        new[i].parts[j] \notin {Understood, Empty}
                 PROVE  p \in Spoken(out) \/ (p = at /\ part \notin {Understood, Empty})
      BY <1>1, SpokenIs
    <3>1. CASE i = k /\ j = l + 1
      BY <1>3, <3>1
    <3>2. CASE i = k /\ j # l + 1
      <4>1. j \in 1 .. Len(out[i].parts) /\ new[i].parts[j] = out[i].parts[j]
        BY <1>3, <3>2 DEF l
      <4> QED BY <4>1, SpokenIs
    <3>3. CASE i # k
      <4>1. new[i] = out[i]
        BY <1>1, <3>3
      <4> QED BY <4>1, SpokenIs
    <3> QED BY <3>1, <3>2, <3>3
  <2>2. p \in Spoken(out) => p \in Spoken(new)
    <3> SUFFICES ASSUME NEW i \in 1 .. k, NEW j \in 1 .. Len(out[i].parts), p = <<i, j>>,
                        out[i].parts[j] \notin {Understood, Empty}
                 PROVE  p \in Spoken(new)
      BY SpokenIs
    <3>1. i \in 1 .. Len(new) /\ j \in 1 .. Len(new[i].parts) /\ new[i].parts[j] = out[i].parts[j]
      <4>1. CASE i = k
        BY <1>1, <1>3, <4>1 DEF l
      <4>2. CASE i # k
        BY <1>1, <4>2
      <4> QED BY <4>1, <4>2
    <3> QED BY <1>1, <3>1, SpokenIs
  <2>3. part \notin {Understood, Empty} => at \in Spoken(new)
    <3>1. k \in 1 .. Len(new) /\ l + 1 \in 1 .. Len(new[k].parts) /\ new[k].parts[l + 1] = part
      BY <1>1, <1>2, <1>3
    <3> QED BY <1>1, <3>1, SpokenIs
  <2> QED BY <2>1, <2>2, <2>3
<1>6. \A p \in Spoken(out) : p \in Nat \X Nat /\ Heard(new, p) = Heard(out, p) /\ Before(p, at)
  <2>1. ASSUME NEW i \in 1 .. k, NEW j \in 1 .. Len(out[i].parts)
        PROVE  /\ <<i, j>> \in Nat \X Nat /\ Heard(new, <<i, j>>) = Heard(out, <<i, j>>)
               /\ Before(<<i, j>>, at)
    <3>1. CASE i = k
      <4>1. j \in 1 .. l /\ i \in Nat
        BY <1>2, <3>1 DEF l
      <4> QED BY <1>3, <3>1, <4>1 DEF Heard, Before
    <3>2. CASE i # k
      <4>1. i < k /\ i \in Nat /\ j \in Nat /\ new[i] = out[i]
        BY <1>1, <1>2, <3>2
      <4> QED BY <4>1 DEF Heard, Before
    <3> QED BY <3>1, <3>2
  <2> HIDE DEF at, new
  <2>2. \A p \in Spoken(out) :
          \E i \in 1 .. k : \E j \in 1 .. Len(out[i].parts) : p = <<i, j>>
    BY SpokenIs
  <2> QED BY <2>1, <2>2
<1> HIDE DEF at, new
<1>7. Spoken(new) = Spoken(out) \cup (IF part \in {Understood, Empty} THEN {} ELSE {at})
  <2>1. CASE part \in {Understood, Empty}
    <3>1. \A p : p \in Spoken(new) <=> p \in Spoken(out)
      BY <1>5, <2>1
    <3> QED BY <2>1, <3>1
  <2>2. CASE part \notin {Understood, Empty}
    <3>1. \A p : p \in Spoken(new) <=> p \in Spoken(out) \/ p = at
      BY <1>5, <2>2
    <3> QED BY <2>2, <3>1
  <2> QED BY <2>1, <2>2
<1>8. AddsLast(out, new, part)
  BY <1>4, <1>6, <1>7 DEF AddsLast
<1> QED BY <1>8 DEF new

(* A filler leaves said what was; an item that is next is said in its turn. *)
LEMMA AddsLastSaid ==
  ASSUME NEW out, NEW new, NEW part, AddsLast(out, new, part),
         NEW items, NEW n \in Nat, Said(out, items, n)
  PROVE  /\ part \in {Understood, Empty} => Said(new, items, n)
         /\ part \notin {Understood, Empty} /\ part = items[n + 1] => Said(new, items, n + 1)
<1>1. PICK at \in Nat \X Nat :
        /\ Heard(new, at) = part
        /\ Spoken(new) = Spoken(out) \cup (IF part \in {Understood, Empty} THEN {} ELSE {at})
        /\ \A p \in Spoken(out) : p \in Nat \X Nat /\ Heard(new, p) = Heard(out, p) /\ Before(p, at)
  BY DEF AddsLast
<1>2. IsFiniteSet(Spoken(out)) /\ Cardinality(Spoken(out)) = n
  BY DEF Said
<1>3. \A p \in Spoken(out) : Heard(out, p) = items[Cardinality(SpokenUntil(out, p))]
  BY DEF Said
<1>4. CASE part \in {Understood, Empty}
  <2>1. Spoken(new) = Spoken(out)
    BY <1>1, <1>4
  <2>2. \A p : SpokenUntil(new, p) = SpokenUntil(out, p)
    BY <2>1 DEF SpokenUntil
  <2> QED BY <1>1, <1>2, <1>3, <1>4, <2>1, <2>2 DEF Said
<1>5. CASE part \notin {Understood, Empty} /\ part = items[n + 1]
  <2>1. Spoken(new) = Spoken(out) \cup {at}
    BY <1>1, <1>5
  <2>2. \A p \in Spoken(out) : p # at /\ Before(p, at) /\ p \in Nat \X Nat
    BY <1>1 DEF Before
  <2>3. \A p \in Spoken(out) : SpokenUntil(new, p) = SpokenUntil(out, p)
    <3> SUFFICES ASSUME NEW p \in Spoken(out)
                 PROVE  ~(at[1] < p[1] \/ (at[1] = p[1] /\ at[2] <= p[2]))
      BY <2>1 DEF SpokenUntil
    <3> QED BY <2>2 DEF Before
  <2>4. SpokenUntil(new, at) = Spoken(out) \cup {at}
    <3>1. \A p \in Spoken(out) : p[1] < at[1] \/ (p[1] = at[1] /\ p[2] <= at[2])
      BY <2>2 DEF Before
    <3> QED BY <2>1, <3>1 DEF SpokenUntil
  <2>5. /\ IsFiniteSet(Spoken(out) \cup {at})
        /\ Cardinality(Spoken(out) \cup {at}) = n + 1
    BY <1>2, <2>2, FS_AddElement
  <2>6. ASSUME NEW p \in Spoken(new)
        PROVE  Heard(new, p) = items[Cardinality(SpokenUntil(new, p))]
    <3>1. CASE p = at
      BY <1>1, <1>5, <2>4, <2>5, <3>1
    <3>2. CASE p \in Spoken(out)
      BY <1>1, <1>3, <2>3, <3>2
    <3> QED BY <2>1, <3>1, <3>2
  <2> QED BY <1>5, <2>1, <2>5, <2>6 DEF Said
<1> QED BY <1>4, <1>5

(* Where one part can be appended: what follows of the turns and of what
   has been said. *)
LEMMA AppendTurnStep ==
  ASSUME NEW out, Formed(out), NEW role, NEW part, Fits(out, role, part),
         NEW items, NEW n \in Nat, Said(out, items, n)
  PROVE  LET new == AppendTurn(out, role, part)
         IN  /\ Formed(new) /\ new # <<>> /\ Last(new).role = role
             /\ part # Empty => Last(new).parts # <<Empty>>
             /\ Instructs(new) => part.role = "system"
             /\ part \in {Understood, Empty} => Said(new, items, n)
             /\ part \notin {Understood, Empty} /\ part = items[n + 1] => Said(new, items, n + 1)
<1> DEFINE new == AppendTurn(out, role, part)
<1>1. /\ part \in {Understood, Empty} => Said(new, items, n)
      /\ part \notin {Understood, Empty} /\ part = items[n + 1] => Said(new, items, n + 1)
  <2>1. AddsLast(out, new, part)
    BY NewTurnAddsLast, JoinTurnAddsLast
  <2> HIDE DEF new
  <2> QED BY <2>1, AddsLastSaid
<1>2. CASE ~Joins(out, role)
  <2>1. /\ Formed(new) /\ Len(new) = Len(out) + 1
        /\ new[Len(out) + 1] = [role |-> role, parts |-> <<part>>]
    BY <1>2, NewTurn
  <2>2. Len(out) \in Nat
    BY DEF Formed
  <2> HIDE DEF new
  <2>3. new # <<>>
    BY <2>1, <2>2, EmptySeq
  <2>4. Last(new) = [role |-> role, parts |-> <<part>>]
    BY <2>1, <2>3, LastTurn
  <2>5. /\ Last(new).role = role /\ ToSet(Last(new).parts) = {part}
        /\ part # Empty => Last(new).parts # <<Empty>>
    BY <2>4 DEF ToSet
  <2>6. Instructs(new) => part.role = "system"
    BY <2>5 DEF Instructs
  <2> QED BY <1>1, <2>1, <2>3, <2>5, <2>6 DEF new
<1>3. CASE Joins(out, role)
  <2> DEFINE k == Len(out)
             parts == out[k].parts
  <2>1. /\ Formed(new) /\ Len(new) = k
        /\ new[k] = [role |-> role, parts |-> Append(parts, part)]
    <3> DEFINE turn == [role |-> role, parts |-> Append(parts, part)]
    <3>1. /\ Formed(new) /\ Len(new) = k
          /\ \A i \in 1 .. k : new[i] = IF i = k THEN turn ELSE out[i]
      BY <1>3, JoinTurn
    <3>2. k \in 1 .. k
      BY <1>3, LastTurn DEF Joins
    <3> HIDE DEF new, turn
    <3>3. Formed(new) /\ Len(new) = k /\ new[k] = turn
      BY <3>1, <3>2
    <3> QED BY <3>3 DEF turn
  <2>2. k \in Nat \ {0} /\ out[k] \in GeminiTurn /\ Last(out) = out[k] /\ out # <<>>
    BY <1>3, LastTurn DEF Joins
  <2>3. parts \in Seq(Part) /\ part \in Part /\ parts # <<>> /\ Len(parts) \in Nat \ {0}
    <3>1. parts \in Seq(Part) /\ part \in Part
      BY <2>2 DEF GeminiTurn, Fits
    <3>2. parts # <<>>
      BY <2>2 DEF Formed
    <3> QED BY <3>1, <3>2, EmptySeq
  <2> HIDE DEF new
  <2>4. new # <<>>
    BY <2>1, <2>2, EmptySeq
  <2>5. Last(new) = [role |-> role, parts |-> Append(parts, part)]
    BY <2>1, <2>4, LastTurn
  <2> HIDE DEF parts
  <2>6. /\ Last(new).role = role
        /\ Last(new).parts = Append(parts, part)
    BY <2>5
  <2>7. ToSet(Append(parts, part)) = ToSet(parts) \cup {part}
    BY <2>3, AppendProperties DEF ToSet
  <2>8. Append(parts, part) # <<Empty>>
    BY <2>3, AppendProperties
  <2>9. Instructs(new) => part.role = "system"
    <3>1. ~Instructs(out)
      BY <1>3 DEF Fits
    <3>2. \A p \in ToSet(parts) : p.role # "system"
      BY <2>2, <3>1 DEF Instructs, parts
    <3> QED BY <2>6, <2>7, <3>2 DEF Instructs
  <2> QED BY <1>1, <2>1, <2>4, <2>6, <2>8, <2>9 DEF new
<1> QED BY <1>2, <1>3

(* The contents after the first n items.  A prelude that ends them is the
   last item, and no message of the user's comes after it. *)
Ready(out, items, n) ==
  /\ Formed(out)
  /\ Said(out, items, n)
  /\ out # <<>> => Last(out).parts # <<Empty>>
  /\ Instructs(out) => /\ n \in 1 .. Len(items) /\ items[n].role = "system"
                       /\ NextReal(items, n) # "user"

LEMMA FillersAre ==
  /\ Understood \in Part /\ Understood.role = "filler"
  /\ Empty \in Part /\ Empty.role = "empty" /\ Understood # Empty
  /\ \A u \in Utterance : u \in Part /\ u.role \in {"user", "model", "system"}
                           /\ u \notin {Understood, Empty}
<1>1. Understood.role = "filler" /\ Empty.role = "empty"
  BY DEF Understood, Empty
<1>2. \A u \in Utterance : u.role \in {"user", "model", "system"}
  BY DEF Utterance
<1> QED BY <1>1, <1>2 DEF Part

LEMMA PutPreludeStep ==
  ASSUME NEW items, Apart(items), NEW n \in Nat, n + 1 \in 1 .. Len(items),
         items[n + 1].role = "system", NEW out, Ready(out, items, n)
  PROVE  Ready(PutPrelude(out, items[n + 1], NextReal(items, n + 1)), items, n + 1)
<1> DEFINE prelude == items[n + 1]
           next == NextReal(items, n + 1)
           apart == IF LastRole(out) = "user"
                    THEN AppendTurn(out, "model", Understood) ELSE out
           said == AppendTurn(apart, "user", prelude)
           done == AppendTurn(said, "model", Understood)
<1>1. prelude \in Utterance /\ prelude.role = "system"
  BY DEF Apart
<1>2. ~Instructs(out)
  BY DEF Ready, Apart
<1>3. Formed(out) /\ Said(out, items, n) /\ (out # <<>> => Last(out).parts # <<Empty>>)
  BY DEF Ready
<1>4. /\ Formed(apart) /\ Said(apart, items, n)
      /\ ~Joins(apart, "user")
  <2>1. CASE LastRole(out) = "user"
    <3>1. Fits(out, "model", Understood)
      BY <2>1, FillersAre DEF Fits, Joins, LastRole
    <3>2. apart = AppendTurn(out, "model", Understood)
      BY <2>1
    <3> HIDE DEF apart
    <3> QED BY <1>3, <3>1, <3>2, AppendTurnStep DEF Joins
  <2>2. CASE LastRole(out) # "user"
    BY <1>3, <2>2 DEF LastRole, Joins
  <2> QED BY <2>1, <2>2
<1> HIDE DEF apart
<1>5. Fits(apart, "user", prelude)
  BY <1>1, <1>4, FillersAre DEF Fits
<1>6. /\ Formed(said) /\ said # <<>> /\ Last(said).role = "user"
      /\ Last(said).parts # <<Empty>>
      /\ Said(said, items, n + 1)
  BY <1>1, <1>4, <1>5, FillersAre, AppendTurnStep
<1> HIDE DEF said
<1>7. Fits(said, "model", Understood)
  BY <1>6, FillersAre DEF Fits, Joins
<1>8. n + 1 \in Nat
  OBVIOUS
<1>9. /\ Formed(done) /\ done # <<>> /\ Last(done).parts # <<Empty>>
      /\ ~Instructs(done) /\ Said(done, items, n + 1)
  BY <1>6, <1>7, <1>8, FillersAre, AppendTurnStep
<1> HIDE DEF done
<1>10. Ready(done, items, n + 1)
  BY <1>9 DEF Ready
<1>11. next # "user" => Ready(said, items, n + 1)
  BY <1>1, <1>6 DEF Ready
<1>12. PutPrelude(out, prelude, next) =
         IF next = "user" \/ (next = "none" /\ out = <<>>) THEN done ELSE said
  BY DEF PutPrelude, apart, said, done
<1> HIDE DEF next, prelude
<1>13. Ready(PutPrelude(out, prelude, next), items, n + 1)
  BY <1>10, <1>11, <1>12
<1> QED BY <1>13 DEF next, prelude

LEMMA PutRealStep ==
  ASSUME NEW items, Apart(items), NEW n \in Nat, n + 1 \in 1 .. Len(items),
         items[n + 1].role # "system", NEW out, Ready(out, items, n)
  PROVE  Ready(PutReal(out, items[n + 1]), items, n + 1)
<1> DEFINE message == items[n + 1]
           start == IF out = <<>> /\ message.role # "user"
                    THEN AppendTurn(out, "user", Empty) ELSE out
           done == AppendTurn(start, message.role, message)
<1>1. message \in Utterance /\ message.role \in {"user", "model"}
  <2>1. message \in Utterance
    BY DEF Apart
  <2> QED BY <2>1 DEF Utterance
<1>2. Formed(out) /\ Said(out, items, n) /\ (out # <<>> => Last(out).parts # <<Empty>>)
  BY DEF Ready
<1>3. Joins(out, message.role) => ~Instructs(out)
  <2> SUFFICES ASSUME Joins(out, message.role), Instructs(out)
               PROVE  FALSE
    OBVIOUS
  <2>1. n \in 1 .. Len(items) /\ items[n].role = "system" /\ NextReal(items, n) # "user"
    BY DEF Ready
  <2>2. NextReal(items, n) = message.role
    <3>1. n # Len(items)
      BY DEF Apart
    <3> QED BY <2>1, <3>1, NextRealIs
  <2>3. Last(out).role = "user"
    <3>1. /\ Len(out) \in 1 .. Len(out) /\ Last(out) = out[Len(out)]
          /\ \E part \in ToSet(Last(out).parts) : part.role = "system"
      BY <1>2, LastTurn DEF Instructs
    <3>2. PICK part \in ToSet(out[Len(out)].parts) : part.role = "system"
      BY <3>1
    <3>3. out[Len(out)] = [role |-> "user", parts |-> <<part>>]
      BY <1>2, <3>1, <3>2 DEF Formed
    <3>4. out[Len(out)].role = "user"
      BY <3>3
    <3> QED BY <3>1, <3>4
  <2> QED BY <1>1, <2>1, <2>2, <2>3 DEF Joins
<1>4. /\ Formed(start) /\ Said(start, items, n)
      /\ Fits(start, message.role, message)
  <2>1. CASE out = <<>> /\ message.role # "user"
    <3>1. Fits(out, "user", Empty)
      BY <2>1, FillersAre DEF Fits, Joins
    <3>2. start = AppendTurn(out, "user", Empty)
      BY <2>1
    <3> HIDE DEF start
    <3>3. /\ Formed(start) /\ Said(start, items, n) /\ start # <<>>
          /\ Last(start).role = "user"
      BY <1>2, <3>1, <3>2, FillersAre, AppendTurnStep
    <3>4. ~Joins(start, message.role)
      BY <2>1, <3>3 DEF Joins
    <3>5. message \in Part
      BY <1>1, FillersAre
    <3> QED BY <1>1, <3>3, <3>4, <3>5 DEF Fits
  <2>2. CASE ~(out = <<>> /\ message.role # "user")
    <3>1. start = out
      BY <2>2
    <3>2. message \in Part
      BY <1>1, FillersAre
    <3>3. Fits(out, message.role, message)
      BY <1>1, <1>2, <1>3, <2>2, <3>2 DEF Fits, Joins
    <3> HIDE DEF start
    <3> QED BY <1>2, <3>1, <3>3
  <2> QED BY <2>1, <2>2
<1>5. PutReal(out, message) = done
  BY DEF PutReal
<1> HIDE DEF start
<1>6. /\ Formed(done) /\ done # <<>> /\ Last(done).parts # <<Empty>>
      /\ ~Instructs(done) /\ Said(done, items, n + 1)
  BY <1>1, <1>4, FillersAre, AppendTurnStep
<1> HIDE DEF done
<1>7. Ready(done, items, n + 1)
  BY <1>6 DEF Ready
<1> QED BY <1>5, <1>7

LEMMA EmittedIsReady ==
  ASSUME NEW items, Apart(items)
  PROVE  Ready(Emitted(items)[Len(items)], items, Len(items))
<1> DEFINE some == {n \in Nat : Ready(Emitted(items)[n], items, n)}
<1>1. Len(items) \in Nat
  BY DEF Apart
<1>2. 0 \in some
  <2>1. Formed(<<>>)
    <3>1. <<>> \in Seq(GeminiTurn) /\ Len(<<>>) = 0
      BY EmptySeq
    <3> QED BY <3>1 DEF Formed
  <2>2. Spoken(<<>>) = {}
    <3>1. \A p : p \notin Spoken(<<>>)
      BY <2>1, SpokenIs
    <3> QED BY <3>1
  <2>3. Said(<<>>, items, 0)
    BY <2>2, FS_EmptySet DEF Said
  <2>4. ~Instructs(<<>>)
    BY DEF Instructs
  <2>5. Ready(<<>>, items, 0)
    BY <2>1, <2>3, <2>4 DEF Ready
  <2> QED BY <1>1, <2>5, EmittedOneByOne
<1>3. ASSUME NEW n \in 1 .. Len(items), n - 1 \in some
      PROVE  n \in some
  <2> DEFINE m == n - 1
             out == Emitted(items)[m]
  <2>1. m \in Nat /\ m + 1 = n /\ Ready(out, items, m)
    BY <1>3
  <2>2. Emitted(items)[n] = Put(out, items, n)
    BY <1>1, EmittedOneByOne
  <2> HIDE DEF m, out
  <2>3. Ready(Put(out, items, n), items, n)
    BY <1>1, <2>1, PutPreludeStep, PutRealStep DEF Put
  <2> QED BY <2>2, <2>3
<1> HIDE DEF some
<1>4. 0 .. Len(items) \subseteq some
  BY <1>1, <1>2, <1>3, CountingUp
<1>5. Len(items) \in some
  BY <1>1, <1>4
<1> QED BY <1>5 DEF some

(* Whatever Gemini is asked, it is asked faithfully. *)
LEMMA GeminiIsFaithful ==
  ASSUME NEW messages \in Seq(Utterance)
  PROVE  GeminiFaithful(Contents(messages), messages)
<1> DEFINE items == Cleaned(messages)
           contents == Contents(messages)
<1>1. contents = Emitted(items)[Len(items)]
  BY DEF Contents
<1>2. Apart(items)
  BY CleanedIsApart
<1> HIDE DEF items, contents
<1>3. Ready(contents, items, Len(items))
  BY <1>1, <1>2, EmittedIsReady
<1>4. DOMAIN contents = 1 .. Len(contents)
  BY <1>3 DEF Ready, Formed
<1>5. GeminiFaithful(contents, messages)
  BY <1>3, <1>4 DEF GeminiFaithful, Ready, Formed, Said, items
<1> QED BY <1>5 DEF contents

(* A prompt of any kind is a word. *)
LEMMA InstructionIs ==
  ASSUME NEW s \in Word
  PROVE  Instruction(s) \in Utterance
BY DEF Instruction, Utterance

LEMMA ExpectedIs ==
  ASSUME NEW own, NEW system, NEW messages \in Seq(Utterance)
  PROVE  Expected(own, system, messages) \in Seq(Utterance)
<1>1. Instruction("prompt") \in Utterance /\ Instruction("own") \in Utterance
  BY InstructionIs DEF Word
<1>2. /\ <<Instruction("prompt")>> \in Seq(Utterance)
      /\ <<Instruction("own")>> \in Seq(Utterance)
  BY <1>1
<1>3. /\ <<Instruction("prompt")>> \o messages \in Seq(Utterance)
      /\ <<Instruction("own")>> \o messages \in Seq(Utterance)
  BY <1>2, ConcatProperties
<1> QED BY <1>3 DEF Expected

(* The prompt of the call goes before the adapter's own. *)
LEMMA PromptedIsExpected ==
  ASSUME NEW own \in OwnPrompts, NEW system \in CallPrompts, NEW messages
  PROVE  MistralRequest(own, system, messages) = Expected(own, system, messages)
BY DEF OwnPrompts, CallPrompts, MistralRequest, Prompted, EffectiveSystem, Expected, Unset

LEMMA AskedTheSame ==
  ASSUME NEW messages \in Seq(Utterance), NEW system \in CallPrompts
  PROVE  LET anthropic == AnthropicRequest(system, messages)
         IN  /\ \A own \in OwnPrompts :
                   LET expected == Expected(own, system, messages)
                   IN  /\ MistralRequest(own, system, messages) = expected
                       /\ GeminiFaithful(GeminiRequest(own, system, messages), expected)
             /\ OpenAIRequest(system, messages) = Expected(Unset, system, messages)
             /\ VertexRequest(system, messages) = Contents(OpenAIRequest(system, messages))
             /\ Prompted(anthropic.system, anthropic.messages)
                   = OpenAIRequest(system, messages)
<1>1. ASSUME NEW own \in OwnPrompts
      PROVE  /\ MistralRequest(own, system, messages) = Expected(own, system, messages)
             /\ GeminiFaithful(GeminiRequest(own, system, messages),
                               Expected(own, system, messages))
  <2>1. MistralRequest(own, system, messages) = Expected(own, system, messages)
    BY PromptedIsExpected
  <2>2. GeminiRequest(own, system, messages) = Contents(Expected(own, system, messages))
    BY <2>1 DEF GeminiRequest, MistralRequest
  <2> QED BY <2>1, <2>2, ExpectedIs, GeminiIsFaithful
<1>2. OpenAIRequest(system, messages) = MistralRequest(Unset, system, messages)
  BY DEF OpenAIRequest, MistralRequest, EffectiveSystem
<1>3. Unset \in OwnPrompts
  BY DEF OwnPrompts
<1>4. VertexRequest(system, messages) = Contents(OpenAIRequest(system, messages))
  BY <1>2 DEF VertexRequest, GeminiRequest, MistralRequest
<1>5. Prompted(IF system = Unset THEN "" ELSE system, messages) = OpenAIRequest(system, messages)
  BY DEF CallPrompts, Prompted, OpenAIRequest, Unset
<1> QED BY <1>1, <1>2, <1>3, <1>4, <1>5, PromptedIsExpected DEF AnthropicRequest

LEMMA TranscriptsAre ==
  ASSUME conversation \in Seq(Utterance)
  PROVE  Transcripts \subseteq Seq(Utterance)
<1> DEFINE s == Instruction("interleaved")
           n == Len(conversation)
<1>1. s \in Utterance
  BY InstructionIs DEF Word
<1> HIDE DEF s
<1>2. ASSUME NEW i \in 1 .. n + 1
      PROVE  InsertAt(conversation, i, s) \in Seq(Utterance)
  <2>1. n \in Nat /\ i \in Int
    OBVIOUS
  <2>2. SubSeq(conversation, 1, i - 1) \in Seq(Utterance)
    BY <2>1, SubSeqProperties
  <2>3. SubSeq(conversation, i, n) \in Seq(Utterance)
    BY <2>1, SubSeqProperties
  <2>4. <<s>> \in Seq(Utterance)
    BY <1>1
  <2>5. SubSeq(conversation, 1, i - 1) \o <<s>> \o SubSeq(conversation, i, n) \in Seq(Utterance)
    BY <2>2, <2>3, <2>4, ConcatProperties
  <2> QED BY <2>5 DEF InsertAt
<1> QED BY <1>2 DEF Transcripts, s

LEMMA TurnsAreUtterances == TurnInvariant => conversation \in Seq(Utterance)
<1> SUFFICES ASSUME TurnInvariant PROVE conversation \in Seq(Utterance)
  OBVIOUS
<1>1. \A n \in Nat : Question(n) \in Utterance /\ Reply(n) \in Utterance
  <2> SUFFICES ASSUME NEW n \in Nat PROVE Question(n) \in Utterance /\ Reply(n) \in Utterance
    OBVIOUS
  <2>1. <<n>> \in Seq(Word)
    BY DEF Word
  <2> QED BY <2>1 DEF Question, Reply, Utterance
<1>2. \A i \in 1 .. Len(conversation) : conversation[i] \in Utterance
  BY <1>1 DEF TurnInvariant, TurnsTyped, TurnsNumbered
<1> QED BY <1>2 DEF TurnInvariant, TurnsTyped

(* However streams, drops and resets have left the conversation, and       *)
(* wherever a system message stands in it, a Gemini model hears every      *)
(* message once, in its order and under its role, in turns that alternate, *)
(* and the other providers are sent the same instruction and messages.     *)
THEOREM ContentsAreFaithful == SentinelSpec => []ContentsFaithful
<1>1. SentinelInit => TurnInvariant
  BY DEF SentinelInit, TurnInvariant, TurnsTyped, TurnsNumbered, TurnsOnce, TurnsOwed,
      TurnsAnswered, Recalled
<1>2. TurnInvariant => ContentsFaithful
  BY TurnsAreUtterances, TranscriptsAre, AskedTheSame DEF ContentsFaithful
<1> QED
  BY <1>1, <1>2, ConversationStep, PTL DEF SentinelSpec
=============================================================================
