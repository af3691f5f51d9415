------------------------------- MODULE Answer -------------------------------
(***************************************************************************)
(* From passages to a cited answer: the choice of a provider and its       *)
(* stream (ragent/providers/llm.py), answer_stream (ragent/agent/answer.py)*)
(* and the three endpoints that relay it: /ask (ragent/api/main.py) and    *)
(* /v1/chat/completions, streamed or not (ragent/api/openai_compat.py).    *)
(*                                                                         *)
(* A text is a sequence of the characters that markers are made of; the    *)
(* provider cuts it into deltas anywhere, also within a marker.  Passages  *)
(* are known by their place in the prompt.                                 *)
(***************************************************************************)
EXTENDS Naturals, SequencesExt, Ordering

CONSTANTS
  Endpoints,         \* of "ask", "stream" and "complete", the ones in use
  MaxPassages,       \* bounds the passages of a prompt
  Deltas,            \* texts a delta may carry, and a passage may contain
  MaxDeltas,         \* bounds the deltas of an answer
  STRATEGIES,        \* ragent.ingest.chunking.STRATEGIES
  ModelNames,        \* model names of requests, cut at the first dash
  Conversations      \* the messages of requests: [role, text]

VARIABLES
  endpoint,
  shown,       \* the number of passages hybrid_search returned
  provider,    \* what _provider() made of the settings
  step,        \* of the generator behind the response
  collected,   \* the text in answer_stream's hands
  usage,       \* token counts: "zero" until the provider reports "some"
  frames,      \* what the endpoint has yielded
  said,        \* history: the deltas the provider sent
  reported     \* history: the provider has reported token counts

avars == <<endpoint, shown, provider, step, collected, usage, frames, said, reported>>

Digit == [d \in {"0", "1", "2"} |-> CASE d = "0" -> 0 [] d = "1" -> 1 [] d = "2" -> 2]
Numeral == <<"1", "2">>

ASSUME AnswerAssumption ==
  /\ Endpoints \subseteq {"ask", "stream", "complete"}
  /\ MaxPassages \in 0 .. Len(Numeral)
  /\ Deltas \subseteq Seq({"[", "]"} \cup DOMAIN Digit) \ {<<>>}
  /\ MaxDeltas \in Nat

-----------------------------------------------------------------------------
(* The provider *)

LLMSettings ==
  [llm_provider : {"none", "anthropic", "openai", "auto"},
   anthropic_api_key : BOOLEAN, openai_api_key : BOOLEAN, own_base_url : BOOLEAN]

(* "unavailable" stands for the LLMUnavailable it raises. *)
_provider(s) ==
  CASE s.llm_provider = "none" -> "none"
    [] s.llm_provider = "anthropic" -> IF s.anthropic_api_key THEN "anthropic" ELSE "unavailable"
    [] s.llm_provider = "openai" -> "openai"
    [] s.anthropic_api_key -> "anthropic"
    [] s.openai_api_key \/ s.own_base_url -> "openai"
    [] OTHER -> "none"

available == provider \notin {"none", "unavailable"}

-----------------------------------------------------------------------------
(* Citations *)

(* The numbers of \[(\d{1,2})\] in a text.  Matches cannot overlap. *)
Markers(text) ==
  LET at(i, c) == i \in DOMAIN text /\ text[i] \in c
      digit(i) == at(i, DOMAIN Digit)
  IN {Digit[text[i + 1]] :
        i \in {n \in DOMAIN text : at(n, {"["}) /\ digit(n + 1) /\ at(n + 2, {"]"})}}
     \cup
     {10 * Digit[text[i + 1]] + Digit[text[i + 2]] :
        i \in {n \in DOMAIN text :
                 at(n, {"["}) /\ digit(n + 1) /\ digit(n + 2) /\ at(n + 3, {"]"})}}

(* Markers that name a passage of the prompt, each once and in order. *)
resolve_citations(text, n) == InOrder(Markers(text) \cap (1 .. n), <)

(* The passages themselves, numbered; their text may look like a marker. *)
_extractive_answer(snippet) ==
  FlattenSeq([i \in 1 .. shown |-> <<"[", Numeral[i], "]">> \o snippet])

-----------------------------------------------------------------------------
(* Frames: an event and its JSON value, an array or an object.  The last   *)
(* chunk of an OpenAI stream carries citations and usage, and [DONE] comes *)
(* after it; a completion is one JSON object.  Both are cut into the same  *)
(* frames here, the parts of a completion all at once.                     *)

Frame(event, json, value) == [event |-> event, json |-> json, value |-> value]

(* `chunk.data or {}`: an empty list leaves as an empty object. *)
DataFrame(event, list) == Frame(event, IF list = <<>> THEN "object" ELSE "array", list)

(* What the endpoint yields for a delta of answer_stream. *)
DeltaFrames(text) ==
  IF endpoint = "complete" THEN <<>> ELSE <<Frame("delta", "object", text)>>

(* And for the chunks that end it: the citations of the text, the token    *)
(* counts of a provider, "none" when none was asked, and done.             *)
LastFrames(text, counts) ==
  LET citations == resolve_citations(text, shown)
      tokens == Frame("usage", "object", <<IF counts = "none" THEN "zero" ELSE counts>>) IN
  CASE endpoint = "ask" /\ counts = "none" ->
         <<DataFrame("citations", citations), Frame("done", "object", <<>>)>>
    [] endpoint = "ask" /\ counts # "none" ->
         <<DataFrame("citations", citations), tokens, Frame("done", "object", <<>>)>>
    [] endpoint = "stream" ->
         <<Frame("citations", "array", citations), tokens, Frame("done", "object", <<>>)>>
    [] endpoint = "complete" ->
         <<Frame("delta", "object", text), Frame("citations", "array", citations), tokens,
           Frame("done", "object", <<>>)>>

-----------------------------------------------------------------------------
(* The request *)

AnswerInit ==
  /\ endpoint \in Endpoints
  /\ shown \in 0 .. MaxPassages
  /\ provider \in {_provider(s) : s \in LLMSettings}
  /\ step = "request"
  /\ collected = <<>>
  /\ usage = "zero"
  /\ frames = <<>>
  /\ said = <<>>
  /\ reported = FALSE

(* "" stands for the 404: a name that is not ragent's, or a strategy that  *)
(* does not exist.                                                         *)
_strategy_for(name) ==
  CASE name \in {<<>>, <<"ragent">>} -> "default"
    [] Len(name) = 2 /\ name[1] = "ragent" /\ name[2] \in STRATEGIES -> name[2]
    [] OTHER -> ""

(* The last turn of the user that has text; "" stands for the 400. *)
_query_of(messages) ==
  LET asked == SelectSeq(messages, LAMBDA m : m.role = "user" /\ m.text # "")
  IN IF asked = <<>> THEN "" ELSE Last(asked).text

chat_completions ==
  /\ step = "request" /\ endpoint # "ask"
  /\ \E name \in ModelNames, messages \in Conversations :
       step' = IF _strategy_for(name) = "" \/ _query_of(messages) = "" THEN "refused" ELSE "text"
  /\ frames' = IF step' = "text" /\ endpoint = "stream"
               THEN <<Frame("role", "object", <<>>)>> ELSE <<>>
  /\ UNCHANGED <<endpoint, shown, provider, collected, usage, said, reported>>

(* Passages go out before the answer. *)
ask ==
  /\ step = "request" /\ endpoint = "ask"
  /\ step' = "text"
  /\ frames' = <<Frame("passages", "array", [i \in 1 .. shown |-> i])>>
  /\ UNCHANGED <<endpoint, shown, provider, collected, usage, said, reported>>

(* Without passages, or without a provider, the answer is one delta; the   *)
(* apology has no character of a marker in it.                             *)
ReplyWith(text) ==
  /\ step' = "done"
  /\ collected' = text
  /\ frames' = frames \o DeltaFrames(text) \o LastFrames(text, "none")
  /\ said' = <<text>>
  /\ UNCHANGED <<endpoint, shown, provider, usage, reported>>

apologize ==
  /\ step = "text" /\ shown = 0
  /\ ReplyWith(<<>>)

extract ==
  /\ step = "text" /\ shown > 0 /\ ~available
  /\ \E snippet \in Deltas : ReplyWith(_extractive_answer(snippet))

Streaming == step = "text" /\ shown > 0 /\ available

(* Mutation: only the last delta is kept for the citations. *)
stream_text_last ==
  /\ Streaming
  /\ Len(said) < MaxDeltas
  /\ \E delta \in Deltas :
       /\ collected' = delta
       /\ frames' = frames \o DeltaFrames(delta)
       /\ said' = Append(said, delta)
  /\ UNCHANGED <<endpoint, shown, provider, step, usage, reported>>

stream_text ==
  /\ Streaming
  /\ Len(said) < MaxDeltas
  /\ \E delta \in Deltas :
       /\ collected' = collected \o delta
       /\ frames' = frames \o DeltaFrames(delta)
       /\ said' = Append(said, delta)
  /\ UNCHANGED <<endpoint, shown, provider, step, usage, reported>>

(* A chunk with the counts, which OpenAI sends without choices; servers    *)
(* may leave it out.                                                       *)
usage_chunk ==
  /\ Streaming
  /\ provider = "openai" /\ ~reported
  /\ usage' = "some"
  /\ reported' = TRUE
  /\ UNCHANGED <<endpoint, shown, provider, step, collected, frames, said>>

(* The counts at the end: Anthropic has them in its last message.          *)
final_usage == IF provider = "anthropic" THEN "some" ELSE usage

(* The provider's stream ends. *)
conclude ==
  /\ Streaming
  /\ step' = "done"
  /\ usage' = final_usage
  /\ reported' = (reported \/ provider = "anthropic")
  /\ frames' = frames \o LastFrames(collected, final_usage)
  /\ UNCHANGED <<endpoint, shown, provider, collected, said>>

(* Mutation: the end is sent whatever happened. *)
provider_fails_politely ==
  /\ Streaming
  /\ step' = "broken"
  /\ frames' = frames \o LastFrames(collected, usage)
  /\ UNCHANGED <<endpoint, shown, provider, collected, usage, said, reported>>

(* The provider raises: a stream is cut, the other endpoint answers 500. *)
provider_fails ==
  /\ Streaming
  /\ step' = "broken"
  /\ UNCHANGED <<endpoint, shown, provider, collected, usage, frames, said, reported>>

Respond ==
  \/ stream_text
  \/ usage_chunk
  \/ conclude
  \/ provider_fails
  \/ apologize
  \/ extract

AnswerNext == ask \/ chat_completions \/ Respond

-----------------------------------------------------------------------------
(* Properties *)

Text(fs) == FlattenSeq([i \in DOMAIN fs |-> IF fs[i].event = "delta" THEN fs[i].value ELSE <<>>])
ValueOf(event) == frames[Max({i \in DOMAIN frames : frames[i].event = event})].value

AnswerTypeOK ==
  /\ endpoint \in Endpoints
  /\ shown \in 0 .. MaxPassages
  /\ provider \in {"none", "anthropic", "openai", "unavailable"}
  /\ step \in {"request", "text", "done", "broken", "refused"}
  /\ usage \in {"zero", "some"}
  /\ \A i \in DOMAIN frames :
       /\ frames[i].event \in {"role", "passages", "delta", "citations", "usage", "done"}
       /\ frames[i].event = "done" <=> step = "done" /\ i = Len(frames)
  /\ step = "refused" => frames = <<>>

(* A response that ends as the protocol wants it is whole, and no response *)
(* that was cut looks like it: the client has all the text the provider    *)
(* sent, the citations are the markers of all that text, wherever a delta  *)
(* cut them, that name a passage of the prompt, each once and in order,    *)
(* and token counts that were reported are passed on.                      *)
FinishedIsWhole ==
  (frames # <<>> /\ Last(frames).event = "done") =>
    LET text == FlattenSeq(said)  cited == ValueOf("citations") IN
    /\ step = "done"
    /\ Text(frames) = text
    /\ ToSet(cited) = {m \in 1 .. shown : m \in Markers(text)}
    /\ \A i, j \in DOMAIN cited : i < j => cited[i] < cited[j]
    /\ reported => ValueOf("usage") = <<"some">>
=============================================================================
