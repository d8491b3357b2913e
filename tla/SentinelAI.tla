----------------------------- MODULE SentinelAI -----------------------------
(***************************************************************************)
(* The guarded conversation of agent/sentinel_ai.py and the form in which  *)
(* the providers get it (agent/adapters), Gemini's above all.              *)
(*                                                                         *)
(* A caller chats, or opens streams and reads them token by token.         *)
(* stream_chat is a generator: between two tokens the caller is free to    *)
(* chat, to open another stream, to clear the conversation, or to drop the *)
(* stream and never read it again.  The question is in the conversation    *)
(* from the first token; the answer only arrives with the last one.        *)
(*                                                                         *)
(* A text is the number of the adjudication it came from: turn             *)
(* [role |-> "user", of |-> 3] is the third message, and the assistant's   *)
(* turn of 3 its answer (or the fixed error text that stands for it).      *)
(* What adjudication says of a message is left open (AegisVitality).       *)
(***************************************************************************)
EXTENDS Naturals, Sequences, SequencesExt, FiniteSets

CONSTANTS EvolveEvery,   \* evolve_every_n
          MaxCalls,      \* bound: messages adjudicated
          MaxEvolutions  \* bound: cycles of the GenesisEngine

ASSUME SentinelAssumption ==
    EvolveEvery \in Nat \ {0} /\ MaxCalls \in Nat /\ MaxEvolutions \in Nat

VARIABLES
    conversation,   \* _conversation
    open,           \* the messages whose stream the caller still holds
    adjudications,  \* _adjudication_count
    blocked,        \* _blocked_count
    generation,     \* genesis.generation
    streaming,      \* adapter.supports_streaming()
    given_up,       \* history: messages whose call or stream was dropped or failed
    cleared         \* history: messages whose stream was open at a reset

sentinel == <<conversation, open, adjudications, blocked, generation, streaming,
              given_up, cleared>>

-----------------------------------------------------------------------------
(* The conversation as Gemini contents                                     *)

Question(n) == [role |-> "user", of |-> <<n>>]
Reply(n) == [role |-> "model", of |-> <<n>>]
Instruction(s) == [role |-> "system", of |-> <<s>>]

Understood == [role |-> "filler", of |-> <<>>]
Empty == [role |-> "empty", of |-> <<>>]

\* Steps 1 and 2 of _to_gemini_contents: system texts in a row become one
\* prelude; every other message stays as it is.
Gather(items, message) ==
    IF /\ message.role = "system"
       /\ items # <<>>
       /\ Last(items).role = "system"
    THEN [items EXCEPT ![Len(items)].of = @ \o message.of]
    ELSE Append(items, message)

Gathered(messages) ==
    LET items[n \in 0..Len(messages)] ==
            IF n = 0 THEN <<>> ELSE Gather(items[n - 1], messages[n])
    IN  items

Cleaned(messages) == Gathered(messages)[Len(messages)]

(* A turn that never joins the one before. *)
MutantAppendTurn(out, role, part) ==
    Append(out, [role |-> role, parts |-> <<part>>])

\* append_turn: a turn of the role that spoke last joins that turn.  A turn's
\* parts are what was joined into it; joining to an empty text replaces it.
AppendTurn(out, role, part) ==
    IF out # <<>> /\ Last(out).role = role
    THEN [out EXCEPT ![Len(out)].parts =
             IF @ = <<Empty>> THEN <<part>> ELSE Append(@, part)]
    ELSE Append(out, [role |-> role, parts |-> <<part>>])

LastRole(out) == IF out = <<>> THEN "none" ELSE Last(out).role

\* The role of the first message after item i that is not a prelude.
NextReal(items, i) ==
    LET after == {j \in (i + 1)..Len(items) : items[j].role # "system"}
    IN  IF after = {} THEN "none"
        ELSE items[CHOOSE j \in after : \A k \in after : j <= k].role

\* A prelude never touches a user's turn: the model says "Understood."
\* between the two.
PutPrelude(out, prelude, next) ==
    LET apart == IF LastRole(out) = "user"
                 THEN AppendTurn(out, "model", Understood) ELSE out
        said == AppendTurn(apart, "user", prelude)
    IN  IF next = "user" \/ (next = "none" /\ out = <<>>)
        THEN AppendTurn(said, "model", Understood) ELSE said

\* The contents start with a user's turn, an empty one if need be.
PutReal(out, message) ==
    AppendTurn(IF out = <<>> /\ message.role # "user"
               THEN AppendTurn(out, "user", Empty) ELSE out,
               message.role, message)

Put(out, items, i) ==
    IF items[i].role = "system"
    THEN PutPrelude(out, items[i], NextReal(items, i))
    ELSE PutReal(out, items[i])

\* The loop of step 3, after each of the items.
Emitted(items) ==
    LET out[n \in 0..Len(items)] ==
            IF n = 0 THEN <<>> ELSE Put(out[n - 1], items, n)
    IN  out

\* _to_gemini_contents, the system prompt being a message before the others.
Contents(messages) ==
    LET items == Cleaned(messages) IN Emitted(items)[Len(items)]

(* What each provider is asked, streaming or not                           *)

Unset == "unset"

\* A prompt of the call, be it blank, goes before the adapter's own.
EffectiveSystem(own, system) == IF system # Unset THEN system ELSE own

Prompted(system, messages) ==
    IF system \in {Unset, ""} THEN messages
    ELSE <<Instruction(system)>> \o messages

OpenAIRequest(system, messages) == Prompted(system, messages)
MistralRequest(own, system, messages) ==
    Prompted(EffectiveSystem(own, system), messages)
AnthropicRequest(system, messages) ==
    [system |-> IF system = Unset THEN "" ELSE system, messages |-> messages]
GeminiRequest(own, system, messages) ==
    Contents(Prompted(EffectiveSystem(own, system), messages))
VertexRequest(system, messages) == GeminiRequest(Unset, system, messages)

-----------------------------------------------------------------------------
(* The guarded session                                                     *)

SentinelInit ==
    /\ conversation = <<>>
    /\ open = {}
    /\ adjudications = 0
    /\ blocked = 0
    /\ generation = 0
    /\ streaming \in BOOLEAN
    /\ given_up = {}
    /\ cleared = {}

This == adjudications + 1

Adjudicated == adjudications < MaxCalls /\ adjudications' = This

\* The cycle a chat runs when its number comes up.
Evolved ==
    generation' = IF This % EvolveEvery = 0 THEN generation + 1 ELSE generation

\* A condemned message is counted and refused; the conversation never has it.
Refuse ==
    /\ Adjudicated
    /\ blocked' = blocked + 1
    /\ UNCHANGED <<conversation, open, streaming, given_up, cleared>>

ChatBlocked == Refuse /\ Evolved
StreamBlocked == Refuse /\ UNCHANGED generation

\* chat: question and answer enter together.  An adapter that raises is
\* answered for by the error text.
Chat ==
    /\ Adjudicated
    /\ Evolved
    /\ conversation' = conversation \o <<Question(This), Reply(This)>>
    /\ UNCHANGED <<open, blocked, streaming, given_up, cleared>>

\* ... but an interrupt is no Exception: it leaves chat with the question asked.
ChatInterrupted ==
    /\ Adjudicated
    /\ Evolved
    /\ conversation' = Append(conversation, Question(This))
    /\ given_up' = given_up \cup {This}
    /\ UNCHANGED <<open, blocked, streaming, cleared>>

\* stream_chat up to its first token.  No cycle is due, whatever the count.
StreamBegin ==
    /\ Adjudicated
    /\ streaming
    /\ conversation' = Append(conversation, Question(This))
    /\ open' = open \cup {This}
    /\ UNCHANGED <<blocked, generation, streaming, given_up, cleared>>

\* stream_chat with an adapter that cannot stream.
StreamWhole ==
    /\ Adjudicated
    /\ ~streaming
    /\ conversation' = conversation \o <<Question(This), Reply(This)>>
    /\ UNCHANGED <<open, blocked, generation, streaming, given_up, cleared>>

\* ... which raises: nothing catches it, and the question stays.
StreamWholeFails ==
    /\ Adjudicated
    /\ ~streaming
    /\ conversation' = Append(conversation, Question(This))
    /\ given_up' = given_up \cup {This}
    /\ UNCHANGED <<open, blocked, generation, streaming, cleared>>

(* A stream that forgets its answer. *)
MutantStreamEnd(n) ==
    /\ n \in open
    /\ open' = open \ {n}
    /\ UNCHANGED <<conversation, adjudications, blocked, generation, streaming,
                   given_up, cleared>>

\* The last token was read: the answer is appended, wherever the
\* conversation has got to.
StreamEnd(n) ==
    /\ n \in open
    /\ open' = open \ {n}
    /\ conversation' = Append(conversation, Reply(n))
    /\ UNCHANGED <<adjudications, blocked, generation, streaming, given_up,
                   cleared>>

\* The caller drops the generator, or the provider breaks off.
StreamDrop(n) ==
    /\ n \in open
    /\ open' = open \ {n}
    /\ given_up' = given_up \cup {n}
    /\ UNCHANGED <<conversation, adjudications, blocked, generation, streaming,
                   cleared>>

\* reset_conversation does not reach the open streams.
Reset ==
    /\ conversation # <<>>
    /\ conversation' = <<>>
    /\ cleared' = cleared \cup open
    /\ UNCHANGED <<open, adjudications, blocked, generation, streaming,
                   given_up>>

\* evolve_now
EvolveNow ==
    /\ generation < MaxEvolutions
    /\ generation' = generation + 1
    /\ UNCHANGED <<conversation, open, adjudications, blocked, streaming,
                   given_up, cleared>>

SentinelNext ==
    \/ ChatBlocked \/ StreamBlocked \/ Chat \/ ChatInterrupted
    \/ StreamBegin \/ StreamWhole \/ StreamWholeFails
    \/ \E n \in open : StreamEnd(n) \/ StreamDrop(n)
    \/ Reset \/ EvolveNow

SentinelSpec == SentinelInit /\ [][SentinelNext]_sentinel

-----------------------------------------------------------------------------
(* Properties                                                              *)

Places(turn) == {i \in DOMAIN conversation : conversation[i] = turn}

\* Question and answer belong together (sentinel_ai.py:166-178, 215-236):
\* every question of the conversation has exactly one answer after it, unless
\* its stream is still open or its call was given up, and then it has none; and every
\* answer has its question before it, unless the conversation was cleared
\* while its stream was open.
TurnsPair ==
    \A n \in 1..adjudications :
        LET asked == Places(Question(n))
            told == Places(Reply(n))
        IN  /\ asked # {} =>
                 IF n \in open \cup given_up THEN told = {}
                 ELSE \E i, j \in DOMAIN conversation :
                          asked = {i} /\ told = {j} /\ i < j
            /\ told # {} /\ asked = {} => n \in cleared

\* The conversation, with a system message anywhere or with none.
Transcripts ==
    {conversation} \cup
    {InsertAt(conversation, i, Instruction("interleaved")) :
        i \in 1..(Len(conversation) + 1)}

\* The prompts an adapter may have of its own, and those of a call.
OwnPrompts == {Unset, "", "own"}
CallPrompts == {Unset, "", "prompt"}

\* What the instruction of a request must be: the call's, else the adapter's
\* own, never both.
Expected(own, system, messages) ==
    CASE system = "prompt" -> <<Instruction("prompt")>> \o messages
      [] system = Unset /\ own = "own" -> <<Instruction("own")>> \o messages
      [] OTHER -> messages

\* Where something is said, by turn and part: the fillers say nothing.
Heard(contents, p) == contents[p[1]].parts[p[2]]
Spoken(contents) ==
    {p \in UNION {{i} \X DOMAIN contents[i].parts : i \in DOMAIN contents} :
        Heard(contents, p) \notin {Understood, Empty}}

\* What is said at p or before.
SpokenUntil(contents, p) ==
    {q \in Spoken(contents) : q[1] < p[1] \/ (q[1] = p[1] /\ q[2] <= p[2])}

\* A Gemini model gets the conversation it is meant to get, however streams,
\* drops and resets have left it (gemini_adapter.py:14-130): turns alternate
\* and start with the user's, a prelude is a turn of its own, and leaving out
\* the fillers every message is there once, in its order, under its role.
GeminiFaithful(contents, expected) ==
    LET items == Cleaned(expected)
    IN  /\ \A i \in DOMAIN contents :
               /\ contents[i].role = IF i % 2 = 1 THEN "user" ELSE "model"
               /\ \A part \in ToSet(contents[i].parts) :
                      /\ part.role = "system" =>
                            contents[i] = [role |-> "user", parts |-> <<part>>]
                      /\ part.role \in {"user", "model"} =>
                            contents[i].role = part.role
        /\ Cardinality(Spoken(contents)) = Len(items)
        /\ \A p \in Spoken(contents) :
               Heard(contents, p) = items[Cardinality(SpokenUntil(contents, p))]

\* Whatever the prompts and the conversation, all providers are asked the
\* same thing: Mistral and Gemini, which may have a prompt of their own, and
\* OpenAI, Anthropic and Vertex, which have none.
ContentsFaithful ==
    \A messages \in Transcripts, system \in CallPrompts :
        LET anthropic == AnthropicRequest(system, messages)
        IN  /\ \A own \in OwnPrompts :
                   LET expected == Expected(own, system, messages)
                   IN  /\ MistralRequest(own, system, messages) = expected
                       /\ GeminiFaithful(GeminiRequest(own, system, messages), expected)
            /\ OpenAIRequest(system, messages) = Expected(Unset, system, messages)
            /\ VertexRequest(system, messages) = Contents(OpenAIRequest(system, messages))
            /\ Prompted(anthropic.system, anthropic.messages)
                   = OpenAIRequest(system, messages)
=============================================================================
