--------------------------- MODULE UpstreamStreams ---------------------------
(***************************************************************************)
(* How one answer of an upstream reaches the caller of the gateway.  The   *)
(* adapter translates the upstream's events one by one while they arrive   *)
(* (a Codex or Gemini stream), copies them (raw), or reads the whole body  *)
(* and translates it at its end (JSON and JSONWithAuth, whose result is    *)
(* also what an Anthropic caller gets, as a message or as its events).     *)
(*                                                                         *)
(* Text and arguments are counted in fragments that hold words; white      *)
(* space before or after the words of a fragment, or in one that holds     *)
(* nothing else, is only remembered to have been there.  The adapters that *)
(* translate read each fragment through asString, which trims it: they     *)
(* lose that white space, and skip a blank fragment as if it had not come. *)
(*                                                                         *)
(* A Codex upstream announces a tool call under two names, that of the     *)
(* call and that of the output item, and its later events use one of them; *)
(* it streams its texts and calls or leaves them to the completed event.   *)
(* The caller collects parts of a tool call by their index.  Requests to   *)
(* Gemini and Anthropic upstreams pass no tools on: their answers are text. *)
(***************************************************************************)
EXTENDS Naturals, Sequences, FiniteSets, Functions

CONSTANTS
  Calls,    \* tool calls of the answer
  MaxParts  \* bound on the parts of the text and of a call's arguments

ASSUME StreamsAssumption == IsFiniteSet(Calls) /\ MaxParts \in Nat \ {0}

VARIABLES
  upstream,    \* what the upstream has said so far
  translator,  \* local variables of the adapter
  caller,      \* what the caller has collected
  result       \* what the adapter returns

streamVars == <<upstream, translator, caller, result>>

Names == Calls \X {"call", "item"}
NoIndex == Cardinality(Names)
Indexes == 0..(NoIndex - 1)

\* by is the name that the argument events of a call use.
CallStates == [stage : {"none", "added", "done"}, by : {"call", "item"}, args : 0..MaxParts]
Unsaid(name) == [stage |-> "none", by |-> name, args |-> 0]
NoPart == [call |-> {}, args |-> 0]

Adapters == {"codex", "gemini", "anthropic", "raw"}
Fragments == {"words", "spaced", "blank"}

UpstreamRecords == [adapter : Adapters, framing : {"stream", "json", "anthropic"},
                    text : 0..MaxParts, spaced : BOOLEAN, calls : [Calls -> CallStates], order : Seq(Calls),
                    reason : {"stop", "length", "content_filter"},
                    end : {"open", "completed", "failed", "cut", "oversize"}]
TranslatorRecords == [wroteText : BOOLEAN, wroteTools : BOOLEAN, seenPayload : BOOLEAN,
                      index : [Names -> Indexes \cup {NoIndex}], deltas : SUBSET Names, next : 0..NoIndex]
Parts == [call : {{}} \cup {{c} : c \in Calls}, args : 0..2 * MaxParts]
Finishes == {"none", "stop", "tool_calls", "length", "content_filter"}
CallerRecords == [present : BOOLEAN, text : 0..MaxParts, spaced : BOOLEAN, done : BOOLEAN,
                  part : [Indexes -> Parts], finish : Finishes]

StreamsTypeOK ==
  /\ upstream \in UpstreamRecords /\ translator \in TranslatorRecords /\ caller \in CallerRecords
  /\ result \in {"idle", "running", "ok", "client_disconnected", "interrupted", "failed"}

StreamsInit ==
  /\ upstream = [adapter |-> "raw", framing |-> "json", text |-> 0, spaced |-> FALSE,
                 calls |-> [c \in Calls |-> Unsaid("item")], order |-> <<>>, reason |-> "stop", end |-> "open"]
  /\ translator = [wroteText |-> FALSE, wroteTools |-> FALSE, seenPayload |-> FALSE,
                   index |-> [n \in Names |-> NoIndex], deltas |-> {}, next |-> 0]
  /\ caller = [present |-> TRUE, text |-> 0, spaced |-> FALSE, done |-> FALSE, finish |-> "none",
               part |-> [i \in Indexes |-> NoPart]]
  /\ result = "idle"

-----------------------------------------------------------------------------
\* The upstream accepts the request; the adapter follows from the connection and
\* the kind of request.  An upstream that refuses is the subject of Gateway.
AnswerBegins(kind, form) ==
  /\ result = "idle" /\ result' = "running"
  /\ \E said \in [Calls -> {Unsaid("call"), Unsaid("item")}] :
       /\ kind # "codex" => said = upstream.calls
       /\ upstream' = [upstream EXCEPT !.adapter = kind, !.framing = form, !.calls = said]
  /\ UNCHANGED <<translator, caller>>

Answering(kind) == result = "running" /\ upstream.adapter = kind
Streaming == upstream.framing = "stream"

\* Events go to the caller at once; a write to a caller who left ends the adapter.
Write(collected, after) ==
  \/ /\ Streaming /\ caller.present
     /\ caller' = collected /\ translator' = after /\ UNCHANGED result
  \/ /\ Streaming /\ ~caller.present
     /\ result' = "client_disconnected" /\ UNCHANGED <<caller, translator>>
  \/ ~Streaming /\ UNCHANGED <<caller, translator, result>>

\* The caller is told that the answer is complete, and why it ends.
Finish(collected, reason) ==
  \/ /\ caller.present
     /\ caller' = [collected EXCEPT !.done = TRUE, !.finish = reason]
     /\ result' = "ok"
  \/ /\ ~caller.present
     /\ result' = "client_disconnected" /\ UNCHANGED caller

\* A body that was read to its end counts as answered, whether or not the
\* caller is still there to receive the rest.
Deliver(collected, reason) ==
  /\ caller' = IF caller.present THEN [collected EXCEPT !.done = TRUE, !.finish = reason] ELSE caller
  /\ result' = "ok"

\* The adapter gives up: after its first byte a stream is interrupted, a body
\* that was only read leaves the gateway free to try another upstream.
GiveUp == result' = (IF Streaming THEN "interrupted" ELSE "failed") /\ UNCHANGED <<caller, translator>>

-----------------------------------------------------------------------------
\* asString: a fragment is trimmed; of a blank one nothing is left.
AsString(f) == IF f = "blank" THEN 0 ELSE 1

\* The upstream's text goes on by a fragment.
Says(f) ==
  /\ upstream.text + AsString(f) <= MaxParts
  /\ upstream' = [upstream EXCEPT !.text = @ + AsString(f), !.spaced = @ \/ f # "words"]

\* The index of a tool call: the one its name has, or the next one.
IndexOf(name) == IF translator.index[name] = NoIndex THEN translator.next ELSE translator.index[name]
NextAfter(name) == IF translator.index[name] = NoIndex THEN translator.next + 1 ELSE translator.next

\* A blank delta is skipped: it does not count as text that was written.
CodexText(f) ==
  /\ Answering("codex") /\ Says(f)
  /\ \/ f # "blank" /\ Write([caller EXCEPT !.text = @ + 1], [translator EXCEPT !.wroteText = TRUE])
     \/ f = "blank" /\ UNCHANGED <<translator, caller, result>>

\* response.output_item.added: the call is named, both its names get its index.
CodexItemAdded(c) ==
  LET i == IndexOf(<<c, "call">>)
  IN /\ Answering("codex") /\ upstream.calls[c].stage = "none"
     /\ upstream' = [upstream EXCEPT !.calls[c].stage = "added"]
     /\ Write([caller EXCEPT !.part[i].call = @ \cup {c}],
              [translator EXCEPT !.wroteTools = TRUE, !.next = NextAfter(<<c, "call">>),
                                 !.index[<<c, "call">>] = i, !.index[<<c, "item">>] = i])

CodexArgumentsDelta(c, f) ==
  LET name == <<c, upstream.calls[c].by>>
      i == IndexOf(name)
  IN /\ Answering("codex") /\ upstream.calls[c].stage = "added"
     /\ upstream.calls[c].args + AsString(f) <= MaxParts
     /\ upstream' = [upstream EXCEPT !.calls[c].args = @ + AsString(f), !.spaced = @ \/ f # "words"]
     /\ \/ /\ f # "blank"
           /\ Write([caller EXCEPT !.part[i].args = @ + 1],
                    [translator EXCEPT !.wroteTools = TRUE, !.next = NextAfter(name),
                                       !.index[name] = i, !.deltas = @ \cup {name}])
        \/ f = "blank" /\ UNCHANGED <<translator, caller, result>>

\* Mutant: the arguments are written again when they are complete.
ArgumentsPendingAlways(name, n) == n > 0

\* The complete arguments are written unless their parts were.
ArgumentsPending(name, n) == n > 0 /\ name \notin translator.deltas

CodexArgumentsDone(c, n) ==
  LET name == <<c, upstream.calls[c].by>>
      i == IndexOf(name)
  IN /\ Answering("codex") /\ upstream.calls[c].stage = "added"
     /\ n = upstream.calls[c].args \/ upstream.calls[c].args = 0
     /\ upstream' = [upstream EXCEPT !.calls[c].stage = "done", !.calls[c].args = n]
     /\ \/ /\ ArgumentsPending(name, n)
           /\ Write([caller EXCEPT !.part[i].args = @ + n],
                    [translator EXCEPT !.wroteTools = TRUE, !.next = NextAfter(name), !.index[name] = i])
        \/ ~ArgumentsPending(name, n) /\ UNCHANGED <<translator, caller, result>>

Called(calls) == {c \in Calls : calls[c].stage = "done"}
Orders(S) == Bijection(1..Cardinality(S), S)

\* responseToolCalls: the calls of the completed response, in its order.
ToolCall(said, n) == [call |-> {said.order[n]}, args |-> said.calls[said.order[n]].args]
WithToolCalls(collected, said, base) ==
  [collected EXCEPT !.part = [i \in Indexes |-> IF i \in base..(base + Len(said.order) - 1)
                                                THEN ToolCall(said, i - base + 1) ELSE @[i]]]

FinishReason(said) == IF Called(said.calls) # {} THEN "tool_calls" ELSE "stop"

\* The text of a body.  Only one that is copied keeps its white space.
WithText(collected, said) ==
  [collected EXCEPT !.text = said.text, !.spaced = said.spaced /\ said.adapter = "raw"]

\* anthropicMessageFromOpenAI: a block of text, if there is any, then the calls.
AnthropicMessage(said) ==
  WithToolCalls(WithText(caller, said), said, IF said.text > 0 THEN 1 ELSE 0)

\* handleRealGatewayAnthropicMessages: always from a whole answer, also when
\* the caller asked for a stream.
DeliverAnthropic(said, reason) ==
  upstream.framing = "anthropic" /\ Deliver(AnthropicMessage(said), reason)

\* mapCodexEventResponse: the body's completed response, as one chat object.
MapCodexEventResponse(said) ==
  /\ \/ DeliverAnthropic(said, FinishReason(said))
     \/ /\ upstream.framing = "json"
        /\ Deliver(WithToolCalls(WithText(caller, said), said, 0), FinishReason(said))
  /\ UNCHANGED translator

\* What the completed response holds and was not streamed is written now.
CompleteCodexChat(said) ==
  LET withText == IF translator.wroteText THEN caller ELSE WithText(caller, said)
      whole == IF translator.wroteTools THEN withText ELSE WithToolCalls(withText, said, 0)
  IN Finish(whole, IF translator.wroteTools THEN "tool_calls" ELSE FinishReason(said))
     /\ UNCHANGED translator

\* The completed response repeats what was streamed.  An upstream that streamed no
\* text or no call may have either in it; it lists the calls in an order of its own.
ResponseHolds(words, spaced, extra, n) ==
  /\ upstream.text > 0 => words = upstream.text
  /\ upstream.text > 0 \/ words = 0 => spaced = upstream.spaced
  /\ (\E c \in Calls : upstream.calls[c].stage # "none") => extra = {}
  /\ \E order \in Orders(Called(upstream.calls) \cup extra) :
       upstream' = [upstream EXCEPT !.text = words, !.spaced = spaced, !.end = "completed", !.order = order,
                    !.calls = [c \in Calls |-> IF c \in extra
                                THEN [@[c] EXCEPT !.stage = "done", !.args = n] ELSE @[c]]]

\* response.completed
CodexCompleted ==
  /\ Answering("codex") /\ \A c \in Calls : upstream.calls[c].stage # "added"
  /\ \E words \in 0..MaxParts, spaced \in {upstream.spaced, TRUE}, extra \in SUBSET Calls, n \in 0..1 :
       ResponseHolds(words, spaced, extra, n)
  /\ IF Streaming THEN CompleteCodexChat(upstream') ELSE MapCodexEventResponse(upstream')

\* An error event, or response.failed.
CodexFailed ==
  /\ Answering("codex") /\ upstream' = [upstream EXCEPT !.end = "failed"] /\ GiveUp

-----------------------------------------------------------------------------
\* geminiResponseText, of one payload; a blank one is a payload without text.
GeminiText(f) ==
  /\ Answering("gemini") /\ Says(f)
  /\ \/ f # "blank" /\ Write([caller EXCEPT !.text = @ + 1], [translator EXCEPT !.seenPayload = TRUE])
     \/ /\ f = "blank" /\ translator' = [translator EXCEPT !.seenPayload = TRUE]
        /\ UNCHANGED <<caller, result>>

\* A payload without text: only its finish reason is kept, in the caller's words.
GeminiFinishReason(reason) ==
  /\ Answering("gemini") /\ upstream.reason = "stop"
  /\ upstream' = [upstream EXCEPT !.reason = reason]
  /\ translator' = [translator EXCEPT !.seenPayload = TRUE]
  /\ UNCHANGED <<caller, result>>

GeminiError ==
  /\ Answering("gemini") /\ upstream' = [upstream EXCEPT !.end = "failed"] /\ GiveUp

\* mapGeminiResponse, chatObject: the text, and always the same reason.
MapGeminiResponse ==
  /\ \/ DeliverAnthropic(upstream, "stop")
     \/ upstream.framing = "json" /\ Deliver(WithText(caller, upstream), "stop")
  /\ UNCHANGED translator

GeminiBodyEnds ==
  /\ Answering("gemini")
  /\ upstream' = [upstream EXCEPT !.end = "completed"]
  /\ \/ Streaming /\ translator.seenPayload /\ Finish(caller, upstream.reason) /\ UNCHANGED translator
     \/ Streaming /\ ~translator.seenPayload /\ GiveUp
     \/ ~Streaming /\ MapGeminiResponse

-----------------------------------------------------------------------------
\* A stream of any other upstream is copied.  So is a body, except that of an
\* Anthropic upstream: mapAnthropicResponse keeps its text, trimmed.
Copies == Answering("raw") \/ Answering("anthropic")

RawBytes(f) ==
  /\ Copies /\ Says(f)
  /\ Write([caller EXCEPT !.text = @ + AsString(f), !.spaced = @ \/ f # "words"], translator)

RawBodyEnds ==
  /\ Copies
  /\ upstream' = [upstream EXCEPT !.end = "completed"]
  /\ \/ Streaming /\ Deliver(caller, "stop")
     \/ DeliverAnthropic(upstream, "stop")
     \/ upstream.framing = "json" /\ Deliver(WithText(caller, upstream), "stop")
  /\ UNCHANGED translator

-----------------------------------------------------------------------------
\* The body ends without a completed event.
CodexBodyEnds ==
  /\ Answering("codex") /\ upstream' = [upstream EXCEPT !.end = "cut"] /\ GiveUp

\* The connection breaks, the deadline of the call passes, or a line is too long.
BodyBreaks ==
  /\ result = "running" /\ upstream' = [upstream EXCEPT !.end = "cut"] /\ GiveUp

\* A body that is read is cut at 16 MiB, silently.  The completed response of a
\* Codex body is then missing.  Any other body counts as answered: one that is
\* copied is delivered as far as it was read, one that has to be decoded is no
\* JSON any more, so that its translation is an empty answer.
BodyTooLong ==
  /\ result = "running" /\ ~Streaming
  /\ upstream' = [upstream EXCEPT !.end = "oversize"]
  /\ \/ upstream.adapter = "codex" /\ GiveUp
     \/ /\ upstream.adapter = "raw" /\ upstream.framing = "json"
        /\ Deliver(WithText(caller, upstream), "stop") /\ UNCHANGED translator
     \/ /\ upstream.adapter # "codex" /\ ~(upstream.adapter = "raw" /\ upstream.framing = "json")
        /\ Deliver(caller, "stop") /\ UNCHANGED translator

CallerDisconnects ==
  /\ result = "running" /\ caller.present
  /\ caller' = [caller EXCEPT !.present = FALSE]
  /\ UNCHANGED <<upstream, translator, result>>

StreamsNext ==
  \/ \E kind \in Adapters, form \in {"stream", "json", "anthropic"} : AnswerBegins(kind, form)
  \/ \E f \in Fragments : \/ CodexText(f) \/ GeminiText(f) \/ RawBytes(f)
                          \/ \E c \in Calls : CodexArgumentsDelta(c, f)
  \/ \E c \in Calls : CodexItemAdded(c) \/ \E n \in 0..MaxParts : CodexArgumentsDone(c, n)
  \/ CodexCompleted \/ CodexFailed \/ CodexBodyEnds \/ GeminiError \/ GeminiBodyEnds
  \/ \E reason \in {"length", "content_filter"} : GeminiFinishReason(reason)
  \/ RawBodyEnds \/ BodyBreaks \/ BodyTooLong \/ CallerDisconnects

StreamsSpec == StreamsInit /\ [][StreamsNext]_streamVars

-----------------------------------------------------------------------------
\* What the upstream called and what the caller collected.
Said == {<<c, upstream.calls[c].args>> : c \in Called(upstream.calls)}
Collected == {<<caller.part[i].call, caller.part[i].args>> : i \in {j \in Indexes : caller.part[j] # NoPart}}

\* A caller who is told that the answer is complete has all the words of it, whatever
\* the order of the upstream's events, however it names its calls and wherever it
\* sends blanks: the text, every tool call once and under one index with its
\* arguments once, and the white space as well if the answer is copied.  A stream that
\* was cut or failed is never presented as complete, a body only when it is longer than
\* the gateway reads; and a call counts as a success exactly when its caller, if still
\* there, was told so (streamCodexChatResponse, streamGeminiResponse, JSONWithAuth).
CompleteAnswerIsWhole ==
  /\ caller.done => result = "ok"
  /\ result = "ok" /\ caller.present => caller.done
  /\ caller.done => upstream.end = "completed" \/ (upstream.end = "oversize" /\ ~Streaming)
  /\ caller.done /\ upstream.end = "completed" =>
       /\ caller.text = upstream.text
       /\ Collected = {<<{said[1]}, said[2]>> : said \in Said}
       /\ Cardinality({i \in Indexes : caller.part[i] # NoPart}) = Cardinality(Said)
       /\ upstream.adapter = "raw" => caller.spaced = upstream.spaced
       /\ Streaming => caller.finish = IF Said # {} THEN "tool_calls" ELSE upstream.reason
=============================================================================
