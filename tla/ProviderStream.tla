--------------------------- MODULE ProviderStream ---------------------------
(***************************************************************************)
(* One streamed chat call, from the events of the upstream provider,       *)
(* through the adapter that translates them into OpenAI chunks, to the     *)
(* wrapper that passes the chunks on and, if the call was made with an API *)
(* key and not paid for ahead, meters it when they end.                    *)
(* The same answer, not streamed, is translated by another function; what  *)
(* a client assembles from the chunks should be what that one returns.     *)
(* Text and arguments are sequences of pieces, one token each.             *)
(***************************************************************************)
EXTENDS Integers, Sequences

CONSTANTS
  Providers,   \* the adapters in use, of "anthropic", "gemini", "openai"
  MaxBlocks,   \* how many content blocks an answer has at most
  MaxPieces,   \* and how many pieces a block
  None         \* an absent field

BlockTypes == {"text", "tool_use"}
StopReasons == {"end", "max_tokens", "tool_use", "safety"}
GeminiReasons == StopReasons \ {"tool_use"}

\* What record_usage is called with: whether the call succeeded, and its
\* completion_tokens.
Records == [ok : BOOLEAN, completion : Nat]

ASSUME ConstantsAssumption ==
  /\ Providers \subseteq {"anthropic", "gemini", "openai"}
  /\ MaxBlocks \in Nat
  /\ MaxPieces \in Nat
  /\ None \notin Nat \cup StopReasons \cup Records

VARIABLES
  keyed,     \* whether an API key was given, or an x402 payment
  provider,  \* whose adapter serves the call
  reports,   \* whether a "gemini" or "openai" upstream reports token counts
  pc,        \* "opening", "streaming", "stopped", "told" [DONE], "closed", "gone"
  blocks,    \* the content the upstream has produced: [type, body] blocks
  stop,      \* its stop reason, None before it is given
  tokens,    \* completion_tokens as the Gemini adapter has them
  garbled,   \* whether a data line could not be parsed, and was skipped
  out,       \* the chunks yielded so far
  metered    \* None, then what record_usage was last called with

callVars == <<keyed, provider, reports>>
answerVars == <<blocks, stop, tokens>>
vars == <<callVars, pc, answerVars, garbled, out, metered>>

Init ==
  /\ keyed \in BOOLEAN
  /\ provider \in Providers
  /\ reports \in BOOLEAN
  /\ pc = "opening"
  /\ blocks = <<>>
  /\ stop = None
  /\ tokens = 0
  /\ garbled = FALSE
  /\ out = <<>>
  /\ metered = None

-----------------------------------------------------------------------------
(* Chunks.                                                                 *)

Role == [kind |-> "role"]
Text(piece, finish) == [kind |-> "text", piece |-> piece, finish |-> finish]
Tool(index, id, args, finish) ==
  [kind |-> "tool", index |-> index, id |-> id, args |-> args, finish |-> finish]
Finish(reason) == [kind |-> "finish", finish |-> reason]
Usage(count) == [kind |-> "usage", count |-> count]
Error == [kind |-> "error"]

\* tool_calls_stream: the calls whose first chunk was yielded.
Opened(chunks) ==
  {chunks[i].index : i \in {j \in DOMAIN chunks :
                              chunks[j].kind = "tool" /\ chunks[j].id # None}}

Nothing == [text |-> <<>>, tools |-> <<>>, finish |-> None, usage |-> None]

\* The place of the tool call with this index, or the next free one.
PlaceOf(tools, index) ==
  IF \E i \in DOMAIN tools : tools[i].index = index
  THEN CHOOSE i \in DOMAIN tools : tools[i].index = index
  ELSE Len(tools) + 1

\* A tool chunk opens a call or adds to the one with its index.
AddTool(tools, chunk) ==
  LET i == PlaceOf(tools, chunk.index)
      old == IF i \in DOMAIN tools THEN tools[i]
             ELSE [index |-> chunk.index, id |-> None, args |-> <<>>]
      new == [index |-> chunk.index,
              id |-> IF chunk.id = None THEN old.id ELSE chunk.id,
              args |-> old.args \o chunk.args]
  IN [j \in DOMAIN tools \cup {i} |-> IF j = i THEN new ELSE tools[j]]

\* A finish reason on a chunk of content counts if it is there.
NewFinish(old, chunk) ==
  IF chunk.kind = "finish" \/ (chunk.kind \in {"text", "tool"} /\ chunk.finish # None)
  THEN chunk.finish ELSE old

Absorb(a, chunk) ==
  [text |-> IF chunk.kind = "text" THEN Append(a.text, chunk.piece) ELSE a.text,
   tools |-> IF chunk.kind = "tool" THEN AddTool(a.tools, chunk) ELSE a.tools,
   finish |-> NewFinish(a.finish, chunk),
   usage |-> IF chunk.kind = "usage" THEN chunk.count ELSE a.usage]

\* What the wrapper accumulates, and an OpenAI client makes, of the chunks.
Assembled(chunks) ==
  LET a[n \in 0..Len(chunks)] ==
        IF n = 0 THEN Nothing ELSE Absorb(a[n - 1], chunks[n])
  IN a[Len(chunks)]

-----------------------------------------------------------------------------
(* The answer as a whole.                                                  *)

\* The pieces of all blocks of a type, and the tool calls, in order.
Bodies(bs, type) ==
  LET cat[n \in 0..Len(bs)] ==
        IF n = 0 THEN <<>>
        ELSE IF bs[n].type = type THEN cat[n - 1] \o bs[n].body ELSE cat[n - 1]
  IN cat[Len(bs)]

IsTool(block) == block.type = "tool_use"

ToolsOf(bs) ==
  LET tools[n \in 0..Len(bs)] ==
        IF n = 0 THEN <<>>
        ELSE IF IsTool(bs[n]) THEN Append(tools[n - 1], bs[n]) ELSE tools[n - 1]
  IN tools[Len(bs)]

Tools == ToolsOf(blocks)

\* The tokens of some blocks, and those that the upstream has produced.
TokensOf(bs) == Len(Bodies(bs, "text")) + Len(Bodies(bs, "tool_use"))
Produced == TokensOf(blocks)

\* The stop reason of a stream: Anthropic's is translated, OpenAI's passed on.
FinishOf(reason) ==
  IF provider = "openai" THEN reason
  ELSE CASE reason = "max_tokens" -> "length"
         [] reason = "tool_use" -> "tool_calls"
         [] OTHER -> "stop"

\* The finish reason of the whole answer, in each adapter's words.
WholeFinish ==
  CASE provider = "openai" -> stop
    [] provider = "gemini" /\ Tools # <<>> -> "tool_calls"
    [] provider = "gemini" /\ Tools = <<>> /\ stop = "safety" -> "content_filter"
    [] OTHER -> CASE stop = "max_tokens" -> "length"
                  [] stop = "tool_use" -> "tool_calls"
                  [] OTHER -> "stop"

\* json.dumps of a call's input: Anthropic's, when there is none, is "{}".
Braces == <<0, 0>>
Dumped(body) == IF provider = "anthropic" /\ body = <<>> THEN <<Braces>> ELSE body

\* What _translate_response makes of it.
Whole ==
  [text |-> Bodies(blocks, "text"),
   tools |-> [i \in DOMAIN Tools |-> Dumped(Tools[i].body)],
   finish |-> WholeFinish]

-----------------------------------------------------------------------------
(* The upstream and its adapter: one action per event.                     *)

\* The event arrives and yields these chunks, or its line does not parse.
Yield(chunks) ==
  \/ out' = out \o chunks /\ UNCHANGED garbled
  \/ garbled' = TRUE /\ UNCHANGED out

\* The upstream answers 200. Gemini's role chunk owes nothing to an event.
Begin ==
  /\ pc = "opening"
  /\ pc' = "streaming"
  /\ IF provider = "gemini"
     THEN out' = <<Role>> /\ UNCHANGED garbled
     ELSE Yield(<<Role>>)
  /\ UNCHANGED <<callVars, answerVars, metered>>

\* The index of block n: Anthropic's is its place, OpenAI's counts the calls.
IndexOf(n) ==
  IF provider = "openai" THEN Len(ToolsOf(SubSeq(blocks, 1, n - 1))) ELSE n - 1

\* content_block_start, or an OpenAI chunk that opens a call.
StartBlock(type) ==
  LET n == Len(blocks) + 1 IN
    /\ pc = "streaming"
    /\ provider # "gemini"
    /\ n <= MaxBlocks
    /\ blocks' = Append(blocks, [type |-> type, body |-> <<>>])
    /\ Yield(IF type = "tool_use" THEN <<Tool(IndexOf(n), n, <<>>, None)>> ELSE <<>>)
    /\ UNCHANGED <<callVars, pc, stop, tokens, metered>>

\* Mutant: arguments are passed on whether or not their call was.
ArgsUnasked(index, piece) == <<Tool(index, None, <<piece>>, None)>>

\* Anthropic: arguments of a call that was not opened are dropped.
Args(index, piece) ==
  IF provider = "openai" \/ index \in Opened(out)
  THEN <<Tool(index, None, <<piece>>, None)>> ELSE <<>>

\* Mutant: an argument is said to belong to the first block.
PieceChunkAtZero(n, piece) ==
  IF blocks[n].type = "text" THEN <<Text(piece, None)>> ELSE Args(0, piece)

\* text_delta and input_json_delta.
PieceChunk(n, piece) ==
  IF blocks[n].type = "text" THEN <<Text(piece, None)>> ELSE Args(IndexOf(n), piece)

\* content_block_delta: the last block goes on.
Delta ==
  LET n == Len(blocks)
      piece == <<n, Len(blocks[n].body) + 1>>
  IN
    /\ pc = "streaming"
    /\ provider # "gemini"
    /\ n > 0
    /\ Len(blocks[n].body) < MaxPieces
    /\ blocks' = [blocks EXCEPT ![n].body = Append(@, piece)]
    /\ Yield(PieceChunk(n, piece))
    /\ UNCHANGED <<callVars, pc, stop, tokens, metered>>

\* message_delta, or OpenAI's last choice and, if it reports, its usage.
Stop(reason) ==
  /\ pc = "streaming"
  /\ provider # "gemini"
  /\ stop' = reason
  /\ pc' = "stopped"
  /\ Yield(<<Finish(FinishOf(reason))>> \o
           (IF provider = "anthropic" \/ reports THEN <<Usage(Produced)>> ELSE <<>>))
  /\ UNCHANGED <<callVars, blocks, tokens, metered>>

\* Gemini's reason on a streamed text part; SAFETY has none.
GeminiFinish(reason) ==
  CASE reason = "end" -> "stop" [] reason = "max_tokens" -> "length" [] OTHER -> None

\* A whole part of Gemini's: a text, or a function call with its arguments.
PartChunk(type, piece, reason) ==
  IF type = "text" THEN Text(piece, GeminiFinish(reason))
  ELSE Tool(0, piece[1], <<piece>>, "tool_calls")

\* A Gemini candidate: some parts, perhaps a finish reason, perhaps usage.
Candidate(parts, reason) ==
  LET b == Len(blocks)
      piece(i) == <<b + i, 1>>
  IN
    /\ pc = "streaming"
    /\ provider = "gemini"
    /\ b + Len(parts) <= MaxBlocks
    /\ blocks' = blocks \o
         [i \in DOMAIN parts |-> [type |-> parts[i], body |-> <<piece(i)>>]]
    /\ stop' = reason
    /\ pc' = IF reason = None THEN pc ELSE "stopped"
    /\ \/ /\ out' = out \o
               [i \in DOMAIN parts |-> PartChunk(parts[i], piece(i), reason)]
          /\ tokens' = IF reports THEN Produced + Len(parts) ELSE tokens
          /\ UNCHANGED garbled
       \/ garbled' = TRUE /\ UNCHANGED <<out, tokens>>
    /\ UNCHANGED <<callVars, metered>>

-----------------------------------------------------------------------------
(* The wrapper's ends.                                                     *)

\* Mutant: the local count is taken even if the provider reported one.
CountedLocally(chunks) == Len(Assembled(chunks).text)

\* provider_reported_usage if there is one, else the text is counted.
CompletionTokens(chunks) ==
  LET a == Assembled(chunks) IN IF a.usage # None THEN a.usage ELSE Len(a.text)

\* The wrapper of a call paid for ahead meters nothing.
Meter(record) == metered' = IF keyed THEN record ELSE None

\* The upstream closes the stream, finished or not. The Gemini adapter adds a
\* usage chunk of what it knows; then comes [DONE].
Close ==
  /\ pc \in {"streaming", "stopped"}
  /\ pc' = "told"
  /\ out' = out \o (IF provider = "gemini" THEN <<Usage(tokens)>> ELSE <<>>)
  /\ UNCHANGED <<callVars, answerVars, garbled, metered>>

\* The client has taken [DONE], and asks for more.
Record ==
  /\ pc = "told"
  /\ pc' = "closed"
  /\ Meter([ok |-> TRUE, completion |-> CompletionTokens(out)])
  /\ UNCHANGED <<callVars, answerVars, garbled, out>>

\* A status that is not 200, a connection or a metering that fails: an exception,
\* which the wrapper meters as a failure and tells its caller in a chunk.
Fail ==
  /\ pc \notin {"closed", "gone"}
  /\ pc' = "closed"
  /\ out' = Append(out, Error)
  /\ Meter([ok |-> FALSE, completion |-> 0])
  /\ UNCHANGED <<callVars, answerVars, garbled>>

\* The client is gone: GeneratorExit at a yield, or CancelledError at an await. No
\* `except Exception` sees either, and nothing is metered.
HangUp ==
  /\ pc \notin {"closed", "gone"}
  /\ pc' = "gone"
  /\ UNCHANGED <<callVars, answerVars, garbled, out, metered>>

PartLists == {<<>>} \cup {<<t>> : t \in BlockTypes} \cup (BlockTypes \X BlockTypes)

Next ==
  \/ Begin
  \/ \E type \in BlockTypes : StartBlock(type)
  \/ Delta
  \/ \E reason \in StopReasons : Stop(reason)
  \/ \E parts \in PartLists, reason \in GeminiReasons \cup {None} : Candidate(parts, reason)
  \/ Close
  \/ Record
  \/ Fail
  \/ HangUp

Spec == Init /\ [][Next]_vars

-----------------------------------------------------------------------------
(* Properties.                                                             *)

(* The state has its type.                                                 *)
TypeOK ==
  /\ keyed \in BOOLEAN
  /\ provider \in Providers
  /\ reports \in BOOLEAN
  /\ pc \in {"opening", "streaming", "stopped", "told", "closed", "gone"}
  /\ \A n \in DOMAIN blocks : blocks[n].type \in BlockTypes
  /\ stop \in StopReasons \cup {None}
  /\ tokens \in Nat
  /\ garbled \in BOOLEAN
  /\ metered \in Records \cup {None}

\* Gemini's calls all go out under index 0, and become one.
Merged == provider = "gemini" /\ Len(Tools) > 1

\* Nothing is streamed for Anthropic's arguments where the whole answer has "{}".
Unwritten == provider = "anthropic" /\ \E i \in DOMAIN Tools : Tools[i].body = <<>>

(* What a client has assembled is, at every moment, the translation of     *)
(* what the provider has produced, as the non-streaming function would     *)
(* translate it; for the tool calls except exactly in these two cases. Of  *)
(* Gemini's finish reason, which rides on text parts and knows no SAFETY,  *)
(* nothing is said (anthropic.py:170, 184, 340; gemini.py:149, 307, 339).  *)
StreamFollowsAnswer ==
  ~garbled =>
    LET a == Assembled(out) IN
      /\ a.text = Whole.text
      /\ [i \in DOMAIN a.tools |-> a.tools[i].args] = Whole.tools <=> ~Merged /\ ~Unwritten
      /\ stop # None /\ provider # "gemini" => a.finish = Whole.finish

(* Whatever lines do not parse, no client of Anthropic's adapter is sent   *)
(* arguments of a call it was not told of (anthropic.py:367).              *)
ToolArgsFollowStart ==
  provider = "anthropic" =>
    \A i \in DOMAIN out :
      (out[i].kind = "tool" /\ out[i].id = None) =>
        out[i].index \in Opened(SubSeq(out, 1, i - 1))

\* The tokens that the upstream reported, or those of the text if it reported
\* none; but Gemini's adapter reports a zero for an upstream that reports nothing.
Owed ==
  CASE provider = "gemini" -> IF reports THEN Produced ELSE 0
    [] provider # "gemini" /\ stop # None /\ (provider = "anthropic" \/ reports) -> Produced
    [] OTHER -> Len(Bodies(blocks, "text"))

(* A streamed call that is metered as a success is metered for what it     *)
(* owes, whatever chunks that was told in; Gemini's zero keeps the wrapper *)
(* from counting (completions.py:65; gemini.py:355). A call that the       *)
(* client leaves is not metered at all (completions.py:59, 89).            *)
MeteredAsProduced ==
  (metered # None /\ metered.ok /\ ~garbled) => metered.completion = Owed

=============================================================================
