---------------------------- MODULE Conversation ----------------------------
(***************************************************************************)
(* A conversation with tools through the gateway. The client keeps the     *)
(* history as OpenAI messages and sends all of it with each request; every *)
(* request may go to another provider, whose adapter translates the whole  *)
(* history anew (_translate_request) and the answer back                   *)
(* (_translate_response). `spoken` is what really was said, and `history`  *)
(* how the client remembers it.                                            *)
(* Wording is abstract: the n-th message says the word <<n>>, its parts    *)
(* <<n, 1>>, <<n, 2>>, so that no two things said are alike.               *)
(***************************************************************************)
EXTENDS Integers, FiniteSets, SequencesExt

CONSTANTS
  UserTurns,   \* shapes of a user's message: [list, parts], see Shape
  ModelTurns,  \* shapes of an answer: sequences of "text" and function names
  Functions,   \* the names of the client's tools
  MaxMessages  \* bound on the messages of a conversation

\* A user's content is one string, or a list of texts, inline images and links
\* to images.
PartKinds == {"text", "image", "link"}
Shape(turn) ==
  /\ turn.list \in BOOLEAN
  /\ turn.parts \in Seq(PartKinds) /\ (~turn.list => turn.parts = <<"text">>)

ASSUME ConstantsAssumption ==
  /\ \A turn \in UserTurns : Shape(turn)
  /\ \A turn \in ModelTurns : turn \in Seq(Functions \cup {"text"})
  /\ Functions \cap PartKinds = {}

VARIABLES
  spoken,   \* what each party said, in order
  history,  \* the client's messages, one for each
  open      \* the tool calls that the client has yet to report on

vars == <<spoken, history, open>>

Init == spoken = <<>> /\ history = <<>> /\ open = {}

-----------------------------------------------------------------------------
(* What can be said. A call is "full" if its arguments are valid JSON.     *)

Say(kind, word) == [kind |-> kind, word |-> word]
Call(fn, id, args) == [kind |-> "call", fn |-> fn, id |-> id, args |-> args]
Result(fn, id, word) == [kind |-> "result", fn |-> fn, id |-> id, word |-> word]

IsCall(item) == item.kind = "call"
IsText(item) == item.kind = "text"
NotLink(item) == item.kind # "link"

\* The items of a sequence that pass a test: SelectSeq, as a definition that can
\* be unfolded.
Chosen(items, Test(_)) ==
  FlattenSeq([i \in DOMAIN items |-> IF Test(items[i]) THEN <<items[i]>> ELSE <<>>])

Calls(items) == Chosen(items, IsCall)
Texts(items) == Chosen(items, IsText)

\* ChatCompletionMessage: content and tool_calls are None when empty. A tool's
\* result, its id and its optional name are the content of its message.
Message(role, list, content, calls) ==
  [role |-> role, list |-> list, content |-> content, calls |-> calls]

-----------------------------------------------------------------------------
(* _translate_request of the Anthropic adapter.                            *)

\* Mutant: no image gets through.
TextOnly(m) == Texts(m.content)

\* A list loses its images that are not inline; a string stays as it is.
Converted(m) == IF m.list THEN Chosen(m.content, NotLink) ELSE m.content

\* Arguments that do not parse become {}.
Parsed(call) == [call EXCEPT !.args = IF @ = "full" THEN "full" ELSE "empty"]
ToolUses(m) == [i \in DOMAIN m.calls |-> Parsed(m.calls[i])]

\* Mutant: a message that calls tools loses its text.
CallsOrText(m) == IF m.calls # <<>> THEN ToolUses(m) ELSE m.content

\* An assistant's text, if any, then its calls.
ContentBlocks(m) == m.content \o ToolUses(m)

\* Mutant: every result opens a message of its own.
NeverMerges(messages) == FALSE

\* A tool_result goes by its id alone.
ToolResult(m) == <<[m.content[1] EXCEPT !.fn = ""]>>

\* A result joins the user message before it, if that one is a list.
Merges(messages) ==
  messages # <<>> /\ Last(messages).role = "user" /\ Last(messages).list

AddToAnthropic(messages, m) ==
  CASE m.role = "system" -> messages
    [] m.role = "user" -> Append(messages, [role |-> "user", list |-> m.list,
                                            body |-> Converted(m)])
    [] m.role = "assistant" -> Append(messages, [role |-> "assistant", list |-> TRUE,
                                                 body |-> ContentBlocks(m)])
    [] m.role = "tool" ->
         IF Merges(messages)
         THEN [messages EXCEPT ![Len(messages)].body = @ \o ToolResult(m)]
         ELSE Append(messages, [role |-> "user", list |-> TRUE, body |-> ToolResult(m)])

AnthropicMessages(h) ==
  LET sent[n \in 0..Len(h)] ==
        IF n = 0 THEN <<>> ELSE AddToAnthropic(sent[n - 1], h[n])
  IN  sent[Len(h)]

-----------------------------------------------------------------------------
(* _translate_request of the Gemini adapter.                               *)

Role(m) == IF m.role \in {"user", "tool"} THEN "user" ELSE "model"

\* A functionCall and a functionResponse have no id: they are tied by their name.
WithoutId(item) == [item EXCEPT !.id = <<>>]

\* A string is one part; a list loses the same images as in the other adapter.
ContentParts(m) == Converted(m)

\* Mutant: only the first of several calls is sent.
FirstCall(m) ==
  CASE m.role = "tool" -> <<WithoutId(m.content[1])>>
    [] m.calls # <<>> -> <<WithoutId(Parsed(m.calls[1]))>>
    [] OTHER -> ContentParts(m)

\* A message that calls tools sends its calls only.
Parts(m) ==
  CASE m.role = "tool" -> <<WithoutId(m.content[1])>>
    [] m.calls # <<>> -> [i \in DOMAIN m.calls |-> WithoutId(Parsed(m.calls[i]))]
    [] OTHER -> ContentParts(m)

NotSystem(m) == m.role # "system"

GeminiContents(h) ==
  LET said == Chosen(h, NotSystem)
  IN  [i \in DOMAIN said |-> [role |-> Role(said[i]), body |-> Parts(said[i])]]

\* Both adapters collect the system messages apart from the rest.
SystemPrompt(h) ==
  FlattenSeq([i \in DOMAIN h |-> IF h[i].role = "system" THEN h[i].content ELSE <<>>])

-----------------------------------------------------------------------------
(* The conversation.                                                       *)

Add(role, items, message) ==
  /\ Len(spoken) < MaxMessages
  /\ spoken' = Append(spoken, [role |-> role, items |-> items])
  /\ history' = Append(history, message)

Here == Len(spoken) + 1

\* A system message may come anywhere.
Instruct ==
  LET items == <<Say("text", <<Here>>)>>
  IN  /\ Add("system", items, Message("system", FALSE, items, <<>>))
      /\ UNCHANGED open

\* The user speaks when no tool is running.
Ask(turn) ==
  LET items == [i \in DOMAIN turn.parts |-> Say(turn.parts[i], <<Here, i>>)]
  IN  /\ open = {}
      /\ Add("user", items, Message("user", turn.list, items, <<>>))
      /\ UNCHANGED open

\* The streams of Gemini send every call under index 0: a client that puts one
\* together gets a single call, with the last id and name, and with all the
\* arguments run together, which is no JSON.
Merge(calls) == <<[Last(calls) EXCEPT !.args = "broken"]>>

\* A provider answers the history; what its adapter, or the client that puts a
\* stream together, makes of the answer is the next message. Arguments cut off
\* by the token limit are no JSON.
Answer(turn, args, merged) ==
  LET items == [i \in DOMAIN turn |->
                  IF turn[i] = "text" THEN Say("text", <<Here, i>>)
                  ELSE Call(turn[i], <<Here, i>>, args)]
      kept  == IF merged THEN Merge(Calls(items)) ELSE Calls(items)
  IN  /\ open = {}
      /\ spoken # <<>> /\ Last(spoken).role # "assistant"
      /\ merged => Len(Calls(items)) > 1
      /\ Add("assistant", items,
             Message("assistant", FALSE, Texts(items), kept))
      /\ open' = ToSet(kept)

\* A tool has run; several end in any order. `name` is optional in a message.
Report(call, named) ==
  LET said(fn) == <<Result(fn, call.id, <<Here>>)>>
  IN  /\ call \in open
      /\ Add("tool", said(call.fn),
             Message("tool", FALSE, said(IF named THEN call.fn ELSE ""), <<>>))
      /\ open' = open \ {call}

Next ==
  \/ Instruct
  \/ \E turn \in UserTurns : Ask(turn)
  \/ \E turn \in ModelTurns, args \in {"full", "broken"}, merged \in BOOLEAN :
       Answer(turn, args, merged)
  \/ \E call \in open, named \in BOOLEAN : Report(call, named)

Spec == Init /\ [][Next]_vars

-----------------------------------------------------------------------------
(* Properties.                                                             *)

By(role, items) == [i \in DOMAIN items |-> <<role, items[i]>>]

\* What a request tells its provider: the instructions, then who said what.
Heard(messages) ==
  By("system", SystemPrompt(history)) \o
  FlattenSeq([i \in DOMAIN messages |-> By(messages[i].role, messages[i].body)])

\* What was said, as the provider is to hear it: Retold(i) stands for the i-th
\* message, and instructions come first.
Transcript(Retold(_)) ==
  LET part(system, i) == IF (spoken[i].role = "system") = system THEN Retold(i) ELSE <<>>
  IN  FlattenSeq([i \in DOMAIN spoken |-> part(TRUE, i)]) \o
      FlattenSeq([i \in DOMAIN spoken |-> part(FALSE, i)])

\* Links to images are lost, texts come before calls, a broken call is empty,
\* and of calls that a stream merged into one only that one is left.
ToAnthropic(i) ==
  LET items == spoken[i].items
      whole == Len(history[i].calls) = Len(Calls(items))
      uses  == IF whole THEN Calls(items) ELSE Merge(Calls(items))
  IN  CASE spoken[i].role = "assistant" ->
             By("assistant", Texts(items) \o [j \in DOMAIN uses |-> Parsed(uses[j])])
        [] spoken[i].role = "tool" -> By("user", <<[items[1] EXCEPT !.fn = ""]>>)
        [] OTHER -> By(spoken[i].role, Chosen(items, NotLink))

(* Whatever providers answered before it, Anthropic is told all that was   *)
(* said, by whom and in order, with the losses named above and no others   *)
(* (anthropic.py:48-107).                                                  *)
AnthropicHearsAll == Heard(AnthropicMessages(history)) = Transcript(ToAnthropic)

\* The results that come right after the p-th message to Gemini.
ResultsAfter(contents, p) ==
  {q \in p + 1 .. Len(contents) :
     \A r \in p + 1 .. q : contents[r].body # <<>> /\ contents[r].body[1].kind = "result"}

\* Without ids, the k-th call of a tool is taken to be answered by the k-th
\* result with its name.
Answers(contents, p, q, j) ==
  LET fn == contents[p].body[j].fn
  IN  /\ contents[q].body[1].fn = fn
      /\ Cardinality({r \in ResultsAfter(contents, p) : r <= q /\ contents[r].body[1].fn = fn})
           = Cardinality({i \in 1..j : contents[p].body[i].fn = fn})

\* The results of all the calls of the n-th message are taken for what they are.
PairedByGemini(n) ==
  LET contents == GeminiContents(history)
      p == Len(Chosen(SubSeq(history, 1, n), NotSystem))
  IN  \A j \in DOMAIN history[n].calls :
        /\ j \in DOMAIN contents[p].body
        /\ \E q \in ResultsAfter(contents, p) :
             /\ Answers(contents, p, q, j)
             /\ spoken[contents[q].body[1].word[1]].items[1].id = history[n].calls[j].id

\* The message that reports on a call.
ReportOf(call) ==
  CHOOSE k \in DOMAIN history : history[k].role = "tool" /\ history[k].content[1].id = call.id

\* The client named all the results of the n-th message and sent those of one
\* tool in the order of its calls.
NamedInOrder(n) ==
  LET calls == history[n].calls
  IN  /\ \A j \in DOMAIN calls : history[ReportOf(calls[j])].content[1].fn # ""
      /\ \A i, j \in DOMAIN calls :
           i < j /\ calls[i].fn = calls[j].fn => ReportOf(calls[i]) < ReportOf(calls[j])

(* Gemini is told neither the id of a call nor that of a result            *)
(* (gemini.py:70, 84): it takes each result for that of the right call if  *)
(* and only if the client named the results, an optional field, and sent   *)
(* those of one tool in the order of the calls, whatever instructions and  *)
(* other results came in between.                                          *)
GeminiPairsResults ==
  open = {} =>
    \A n \in DOMAIN history : history[n].calls # <<>> =>
      (PairedByGemini(n) <=> NamedInOrder(n))

Ids(items) == {items[i].id : i \in DOMAIN items}

(* Anthropic refuses a request unless the message after each one with tool *)
(* calls opens with the results of exactly these: they are sent together,  *)
(* in whatever order the tools ended and whatever instructions came in     *)
(* between (anthropic.py:96).                                              *)
CallsAreAnswered ==
  open = {} =>
    LET sent == AnthropicMessages(history)
    IN  \A i \in DOMAIN sent :
          LET uses == Calls(sent[i].body) IN
          uses # <<>> =>
            /\ i < Len(sent) /\ sent[i + 1].role = "user"
            /\ Len(sent[i + 1].body) >= Len(uses)
            /\ Ids(SubSeq(sent[i + 1].body, 1, Len(uses))) = Ids(uses)

\* Nothing that this message said can be told to Anthropic or Gemini.
Mute(i) == \A j \in DOMAIN spoken[i].items : spoken[i].items[j].kind = "link"

(* Both refuse an empty message, and then the whole conversation is stuck, *)
(* since it is in every later request: it takes an answer that said        *)
(* nothing, or a user who sent nothing but links (anthropic.py:61, 165).   *)
EmptyOnlyIfMute ==
  \A messages \in {AnthropicMessages(history), GeminiContents(history)} :
    Cardinality({i \in DOMAIN messages : messages[i].body = <<>>})
      <= Cardinality({i \in DOMAIN spoken : Mute(i)})

=============================================================================
