----------------------------- MODULE ChatStream -----------------------------
(***************************************************************************)
(* The callbacks that turn an upstream's streaming answer into the client's *)
(* format, chunk by chunk, and the usage they bill at the end:              *)
(*   OpenAI upstream     relay/channel/openai/relay-openai.go, helper.go    *)
(*   Responses upstream  relay/channel/openai/chat_via_responses.go         *)
(*   Claude upstream     relay/channel/claude/relay-claude.go               *)
(*   Gemini upstream     relay/channel/gemini/relay-gemini.go               *)
(* and the converters to Claude and Gemini clients of service/convert.go.   *)
(*                                                                          *)
(* A text is a number of pieces; one delta carries one piece.  A chunk of   *)
(* the chat format is a record: choices (it has any), reasoning, text,      *)
(* tools (a sequence of [idx, name, args]), fin (its finish reason, "" for  *)
(* none) and use (the completion tokens it reports, Nil for none).          *)
(***************************************************************************)
EXTENDS Naturals, Integers, Sequences, SequencesExt

CONSTANTS
    MaxChunks,   \* bound: chunks of one answer
    MaxTools     \* bound: tool calls of one answer

Nil == -1

VARIABLES
    up,        \* the upstream's format
    fmt,       \* info.RelayFormat
    think,     \* ChannelSetting.ThinkingToContent
    gen,       \* what the upstream has sent so far
    chunks,    \* chunks received
    last,      \* OaiStreamHandler: lastStreamData, <<>> or <<chunk>>
    acc,       \* text collected for the estimate, and the usage reported
    conv,      \* info.ClaudeConvertInfo, SendResponseCount, ThinkingContentInfo
    resp,      \* the locals of OaiResponsesToChatStreamHandler
    sent,      \* events written to the client, in order
    phase,     \* "open", "ended", "failed"
    billed     \* completion tokens of the usage returned

csvars == <<up, fmt, think, gen, chunks, last, acc, conv, resp, sent, phase, billed>>

Chunk(r, t, ts, f, u) ==
    [choices |-> TRUE, reasoning |-> r, text |-> t, tools |-> ts, fin |-> f, use |-> u]

(* GenerateStartEmptyResponse, GenerateStopResponse, GenerateFinalUsageResponse *)
GenerateStartEmptyResponse == Chunk(0, 0, <<>>, "", Nil)
GenerateStopResponse(f) == Chunk(0, 0, <<>>, f, Nil)
GenerateFinalUsageResponse(u) == [Chunk(0, 0, <<>>, "", u) EXCEPT !.choices = FALSE]

Ev(t, i, k) == [ev |-> t, idx |-> i, kind |-> k]
MessageStart == Ev("message_start", 0, "")
MessageStop == Ev("message_stop", 0, "")
BlockStart(i, k) == Ev("content_block_start", i, k)
BlockDelta(i, k) == Ev("content_block_delta", i, k)
generateStopBlock(i) == Ev("content_block_stop", i, "")

----------------------------------------------------------------------------
(* Conversion to a Claude client.                                           *)

stopOpenBlocks(s) ==
    CASE s.type \in {"text", "thinking"} -> <<generateStopBlock(s.index)>>
      [] s.type = "tools" -> [i \in 1..(s.maxOff + 1) |-> generateStopBlock(s.base + i - 1)]
      [] OTHER -> <<>>

\* The closed blocks are not skipped.
StopWithoutAdvance(s) == [s EXCEPT !.base = 0, !.maxOff = 0, !.type = "none"]

stopOpenBlocksAndAdvance(s) ==
    CASE s.type = "none" -> s
      [] s.type = "tools" -> [s EXCEPT !.index = s.base + s.maxOff + 1, !.base = 0,
                                       !.maxOff = 0, !.type = "none"]
      [] OTHER -> [s EXCEPT !.index = s.index + 1, !.type = "none"]

(* message_delta with the usage, if one is known, and message_stop. *)
CloseMessage(u) ==
    (IF u # Nil THEN <<Ev("message_delta", u, "")>> ELSE <<>>) \o <<MessageStop>>

Known(ch, s) == IF ch.use # Nil THEN ch.use ELSE s.usage

(* The first chunk, SendResponseCount = 1: of several tool calls only the    *)
(* first one opens a block.                                                 *)
FirstToClaude(ch, s) ==
    LET tool == ch.choices /\ ch.tools # <<>>
        s1   == IF tool THEN [s EXCEPT !.type = "tools", !.base = 0, !.maxOff = 0] ELSE s
        o1   == <<MessageStart>>
                \o (IF tool THEN <<BlockStart(0, "tools")>> ELSE <<>>)
                \o (IF tool /\ ch.tools[1].args > 0 THEN <<BlockDelta(0, "tools")>> ELSE <<>>)
        kind == IF ch.choices /\ ch.reasoning > 0 THEN "thinking"
                ELSE IF ch.choices /\ ch.text > 0 THEN "text" ELSE "none"
        s2   == IF kind = "none" THEN s1
                ELSE [(IF s1.type # kind THEN stopOpenBlocksAndAdvance(s1) ELSE s1)
                        EXCEPT !.type = kind]
        o2   == IF kind = "none" THEN <<>>
                ELSE (IF s1.type # kind THEN stopOpenBlocks(s1) ELSE <<>>)
                     \o <<BlockStart(s2.index, kind), BlockDelta(s2.index, kind)>>
        fin  == ch.choices /\ ch.fin # ""
    IN [out |-> o1 \o o2 \o (IF fin THEN stopOpenBlocks(s2) \o CloseMessage(Known(ch, s))
                             ELSE <<>>),
        s   |-> [s2 EXCEPT !.finish = IF fin THEN ch.fin ELSE @, !.done = fin]]

(* Tool calls of a later chunk. *)
ToolsToClaude(ch, s) ==
    LET fresh == s.type # "tools"
        s1    == IF fresh THEN LET a == stopOpenBlocksAndAdvance(s)
                               IN [a EXCEPT !.base = a.index, !.maxOff = 0, !.type = "tools"]
                 ELSE s
        one(acc1, tc) ==
            [out |-> acc1.out
                     \o (IF tc.name THEN <<BlockStart(s1.base + tc.idx, "tools")>> ELSE <<>>)
                     \o (IF tc.args > 0 THEN <<BlockDelta(s1.base + tc.idx, "tools")>> ELSE <<>>),
             max |-> IF tc.idx > acc1.max THEN tc.idx ELSE acc1.max]
        r     == FoldLeft(one, [out |-> IF fresh THEN stopOpenBlocks(s) ELSE <<>>,
                                max |-> s1.maxOff], ch.tools)
    IN [out |-> r.out, s |-> [s1 EXCEPT !.maxOff = r.max, !.index = s1.base + r.max]]

(* Reasoning, else text, of a later chunk. *)
ContentToClaude(ch, s) ==
    LET kind == IF ch.reasoning > 0 THEN "thinking" ELSE IF ch.text > 0 THEN "text" ELSE "none"
        open == kind # "none" /\ s.type # kind
        s1   == IF open THEN stopOpenBlocksAndAdvance(s) ELSE s
    IN IF kind = "none" THEN [out |-> <<>>, s |-> s]
       ELSE [out |-> (IF open THEN stopOpenBlocks(s) \o <<BlockStart(s1.index, kind)>> ELSE <<>>)
                     \o <<BlockDelta(s1.index, kind)>>,
             s   |-> [s1 EXCEPT !.type = kind]]

(* StreamResponseOpenAI2Claude.  A finish reason that comes without a usage *)
(* in the same chunk returns at once.                                       *)
StreamResponseOpenAI2Claude(ch, s) ==
    IF s.done THEN [out |-> <<>>, s |-> s]
    ELSE IF s.count = 1 THEN FirstToClaude(ch, s)
    ELSE IF ~ch.choices
    THEN IF Known(ch, s) = Nil THEN [out |-> <<>>, s |-> s]
         ELSE [out |-> stopOpenBlocks(s) \o CloseMessage(Known(ch, s)),
               s |-> [s EXCEPT !.done = TRUE]]
    ELSE IF ch.fin # "" /\ ch.use = Nil
    THEN [out |-> <<>>, s |-> [s EXCEPT !.finish = ch.fin]]
    ELSE LET r == IF ch.tools # <<>> THEN ToolsToClaude(ch, s) ELSE ContentToClaude(ch, s)
         IN IF ch.fin = "" THEN r
            ELSE [out |-> r.out \o stopOpenBlocks(r.s) \o CloseMessage(Known(ch, r.s)),
                  s   |-> [r.s EXCEPT !.finish = ch.fin, !.done = TRUE]]

(* StreamResponseOpenAI2Gemini: an empty chunk without a finish is skipped. *)
StreamResponseOpenAI2Gemini(ch) ==
    IF ch.choices /\ (ch.text > 0 \/ ch.tools # <<>> \/ ch.fin # "")
    THEN <<Ev("candidate", 0, IF ch.tools # <<>> THEN "tools"
                              ELSE IF ch.text > 0 THEN "text" ELSE "finish")>>
    ELSE <<>>

(* sendStreamData: reasoning becomes text between think tags when asked. *)
sendStreamData(ch, s) ==
    LET rest == <<Ev("chunk", ch.use, IF ~ch.choices THEN "usage" ELSE IF ch.fin # "" THEN "finish"
                                  ELSE IF ch.tools # <<>> THEN "tools"
                                  ELSE IF ch.reasoning > 0
                                       THEN IF think THEN "text-of-thought" ELSE "thinking"
                                  ELSE IF ch.text > 0 THEN "text" ELSE "empty")>>
    IN IF ~think \/ ~ch.choices THEN [out |-> rest, s |-> s]
       ELSE IF s.firstThink /\ ch.reasoning > 0
       THEN [out |-> <<Ev("chunk", Nil, "<think>")>>,
             s |-> [s EXCEPT !.firstThink = FALSE, !.sentThink = TRUE]]
       ELSE IF ch.text > 0 /\ s.sentThink /\ ~s.closedThink
       THEN [out |-> <<Ev("chunk", Nil, "</think>")>> \o rest,
             s |-> [s EXCEPT !.closedThink = TRUE]]
       ELSE [out |-> rest, s |-> s]

(* handleClaudeFormat: a usage in the chunk is kept for the closing. *)
handleClaudeFormat(ch, s) ==
    StreamResponseOpenAI2Claude(ch, [s EXCEPT !.usage = IF ch.use # Nil THEN ch.use ELSE @])

(* handleGeminiFormat *)
handleGeminiFormat(ch, s) == [out |-> StreamResponseOpenAI2Gemini(ch), s |-> s]

(* HandleStreamFormat *)
HandleStreamFormat(ch, s0) ==
    LET s == [s0 EXCEPT !.count = @ + 1]
    IN CASE fmt = "openai" -> sendStreamData(ch, s)
         [] fmt = "claude" -> handleClaudeFormat(ch, s)
         [] fmt = "gemini" -> handleGeminiFormat(ch, s)

(* HandleFinalResponse: SendResponseCount is not advanced here. *)
HandleFinalResponse(ch, s, use, reported) ==
    CASE fmt = "openai" ->
            [out |-> (IF ~reported THEN <<Ev("chunk", use, "usage")>> ELSE <<>>)
                     \o <<Ev("[DONE]", 0, "")>>, s |-> s]
      [] fmt = "claude" ->
            LET r == StreamResponseOpenAI2Claude(ch, [s EXCEPT !.usage = use])
            IN [out |-> r.out, s |-> [r.s EXCEPT !.done = TRUE]]
      [] fmt = "gemini" -> [out |-> StreamResponseOpenAI2Gemini(ch), s |-> s]

----------------------------------------------------------------------------
InitConv == [count |-> 0, done |-> FALSE, type |-> "none", index |-> 0, base |-> 0,
             maxOff |-> 0, finish |-> "", usage |-> Nil,
             firstThink |-> TRUE, sentThink |-> FALSE, closedThink |-> FALSE]

InitStream ==
    /\ \E p \in {<<"openai", "openai">>, <<"openai", "claude">>, <<"openai", "gemini">>,
                 <<"responses", "openai">>, <<"responses", "claude">>,
                 <<"claude", "openai">>, <<"claude", "claude">>,
                 <<"gemini", "openai">>, <<"gemini", "claude">>} : up = p[1] /\ fmt = p[2]
    /\ think \in BOOLEAN /\ (think => fmt = "openai" /\ up \in {"openai", "gemini"})
    /\ gen = [pieces |-> 0, tools |-> 0, blocks |-> 0, open |-> "none", fin |-> FALSE]
    /\ chunks = 0 /\ last = <<>>
    /\ acc = [text |-> 0, tools |-> 0, use |-> Nil, done |-> FALSE]
    /\ conv = InitConv
    /\ resp = [start |-> FALSE, stop |-> FALSE, tool |-> FALSE, text |-> 0, args |-> <<>>]
    /\ sent = <<>> /\ phase = "open" /\ billed = 0

More == phase = "open" /\ chunks < MaxChunks /\ chunks' = chunks + 1

(* What an OpenAI-compatible upstream sends: reasoning and text, before and *)
(* after its tool calls, which come together, one per chunk, each opened by *)
(* its name and followed by its arguments; then a finish reason, then perhaps a          *)
(* usage-only chunk; the finish may carry the usage itself.                 *)
OpenAIChunks ==
    IF gen.fin THEN {GenerateFinalUsageResponse(gen.pieces + 1)}
    ELSE {GenerateStopResponse("stop"), Chunk(0, 0, <<>>, "stop", gen.pieces + 1),
          Chunk(1, 0, <<>>, "", Nil), Chunk(0, 1, <<>>, "", Nil)}
         \cup (IF gen.open # "tools" THEN {}
               ELSE {Chunk(0, 0, <<[idx |-> gen.tools - 1, name |-> FALSE, args |-> 1]>>, "", Nil)})
         \cup (IF gen.tools < MaxTools /\ (gen.tools = 0 \/ gen.open = "tools")
               THEN {Chunk(0, 0, <<[idx |-> gen.tools, name |-> TRUE, args |-> 0]>>, "", Nil)}
               ELSE {})

(* ProcessStreamResponse: the text a chunk adds to the estimate. *)
ProcessStreamResponse(ch, a) ==
    [a EXCEPT !.text = @ + ch.reasoning + ch.text
                         + (IF ch.tools = <<>> THEN 0 ELSE ch.tools[1].args),
              !.tools = IF ch.tools # <<>> THEN 1 ELSE @]

Sends(ch) == gen' = [gen EXCEPT !.pieces = @ + ch.reasoning + ch.text
                                    + (IF ch.tools = <<>> THEN 0 ELSE ch.tools[1].args),
                                !.tools = @ + (IF ch.tools # <<>> /\ ch.tools[1].name THEN 1 ELSE 0),
                                !.open = IF ch.tools # <<>> THEN "tools" ELSE "none",
                                !.fin = ch.fin # ""]

(* The callback of OaiStreamHandler: a chunk is written when the next comes. *)
OaiStreamHandler ==
    /\ up = "openai" /\ More
    /\ \E ch \in OpenAIChunks \cup (IF chunks = 0 THEN {GenerateStartEmptyResponse} ELSE {}) :
        /\ Sends(ch)
        /\ last' = <<ch>>
        /\ acc' = ProcessStreamResponse(ch, acc)
        /\ IF last = <<>> THEN UNCHANGED <<conv, sent>>
           ELSE LET r == HandleStreamFormat(last[1], conv)
                IN conv' = r.s /\ sent' = sent \o r.out
    /\ UNCHANGED <<up, fmt, think, resp, phase, billed>>

(* handleLastResponse: the last chunk is held back from an OpenAI client    *)
(* when it brings the usage and nothing else.                               *)
handleLastResponse(ch) == ch.use = Nil \/ ch.text > 0 \/ ch.reasoning > 0

(* The end of the stream, handleLastResponse, processTokens and the final   *)
(* events.  The reported usage counts only when the last chunk carries it.  *)
OaiStreamEnd ==
    /\ up = "openai" /\ phase = "open" /\ last # <<>>
    /\ LET ch    == last[1]
           use   == IF ch.use # Nil THEN ch.use ELSE acc.text + 7 * acc.tools
           s1    == IF fmt = "openai" /\ handleLastResponse(ch)
                    THEN sendStreamData(ch, conv) ELSE [out |-> <<>>, s |-> conv]
           r     == HandleFinalResponse(ch, s1.s, use, ch.use # Nil)
       IN billed' = use /\ sent' = sent \o s1.out \o r.out /\ conv' = r.s
    /\ phase' = "ended"
    /\ UNCHANGED <<up, fmt, think, gen, chunks, last, acc, resp>>

----------------------------------------------------------------------------
(* Responses upstream: the chunks of the chat format are written at once.   *)

SendAll(chs) ==
    LET one(a, ch) == LET r == HandleStreamFormat(ch, a.s) IN [out |-> a.out \o r.out, s |-> r.s]
        r == FoldLeft(one, [out |-> <<>>, s |-> conv], chs)
    IN conv' = r.s /\ sent' = sent \o r.out

sendStartIfNeeded == IF resp.start THEN <<>> ELSE <<GenerateStartEmptyResponse>>

(* response.reasoning_summary_text.delta and response.output_text.delta;    *)
(* the model's calls come after its reasoning and its text.                 *)
ResponsesText ==
    /\ up = "responses" /\ More /\ ~gen.fin /\ resp.args = <<>>
    /\ \E reasoning \in BOOLEAN :
        LET ch == IF reasoning THEN Chunk(1, 0, <<>>, "", Nil) ELSE Chunk(0, 1, <<>>, "", Nil)
        IN /\ SendAll(sendStartIfNeeded \o <<ch>>)
           /\ resp' = [resp EXCEPT !.start = TRUE, !.text = @ + ch.text]
           /\ Sends(ch)
    /\ acc' = [acc EXCEPT !.text = @ + 1]
    /\ UNCHANGED <<up, fmt, think, last, phase, billed>>

(* sendToolCallDelta: nothing once text was sent. *)
sendToolCallDelta(i, name, args) ==
    IF resp.text > 0 THEN <<>>
    ELSE sendStartIfNeeded
         \o <<Chunk(0, 0, <<[idx |-> i, name |-> name, args |-> args]>>, "", Nil)>>

(* response.output_item.added for a new call, the argument deltas of a call, *)
(* and response.output_item.done, which repeats the whole arguments.         *)
ResponsesToolCall ==
    /\ up = "responses" /\ More /\ ~gen.fin
    /\ \E i \in 1..MaxTools, step \in {"added", "delta", "done"} :
        /\ step = "added" <=> i = Len(resp.args) + 1
        /\ i <= Len(resp.args) + 1
        /\ LET prev == IF step = "added" THEN 0 ELSE resp.args[i]
               d    == IF step = "delta" THEN 1 ELSE 0   \* done: the prefix is taken off
               chs  == sendToolCallDelta(i - 1, step = "added", d)
           IN /\ SendAll(chs)
              /\ resp' = [resp EXCEPT
                    !.args = IF step = "added" THEN Append(@, 0) ELSE [@ EXCEPT ![i] = prev + d],
                    !.start = @ \/ chs # <<>>, !.tool = @ \/ chs # <<>>]
              /\ acc' = [acc EXCEPT !.text = @ + (IF chs # <<>> THEN d ELSE 0)]
              /\ gen' = [gen EXCEPT !.pieces = @ + d]
    /\ UNCHANGED <<up, fmt, think, last, phase, billed>>

ResponsesStop(use) ==
    sendStartIfNeeded
    \o <<GenerateStopResponse(IF resp.tool /\ resp.text = 0 THEN "tool_calls" ELSE "stop")>>

(* response.completed, with or without a usage *)
ResponsesCompleted ==
    /\ up = "responses" /\ More /\ ~gen.fin
    /\ \E u \in {Nil, gen.pieces + 1} : acc' = [acc EXCEPT !.use = u]
    /\ SendAll(ResponsesStop(acc'.use))
    /\ resp' = [resp EXCEPT !.start = TRUE, !.stop = TRUE]
    /\ gen' = [gen EXCEPT !.fin = TRUE]
    /\ UNCHANGED <<up, fmt, think, last, phase, billed>>

(* response.failed and response.error: sr.Stop, and the error is returned. *)
ResponsesFailed ==
    /\ up = "responses" /\ More
    /\ phase' = "failed"
    /\ UNCHANGED <<up, fmt, think, gen, last, acc, conv, resp, sent, billed>>

(* After the scanner: the usage, the start and the stop if they are missing. *)
ResponsesEnd ==
    /\ up = "responses" /\ phase = "open"
    /\ billed' = (IF acc.use # Nil THEN acc.use ELSE acc.text)
    /\ LET tail == IF resp.stop THEN <<>> ELSE ResponsesStop(billed')
           one(a, ch) == LET r == HandleStreamFormat(ch, a.s) IN [out |-> a.out \o r.out, s |-> r.s]
           r == FoldLeft(one, [out |-> <<>>, s |-> conv], tail)
       IN /\ conv' = r.s
          /\ sent' = sent \o r.out
                     \o (IF fmt = "openai" THEN <<Ev("chunk", billed', "usage"), Ev("[DONE]", 0, "")>>
                         ELSE <<>>)
    /\ phase' = "ended"
    /\ UNCHANGED <<up, fmt, think, gen, chunks, last, acc, resp>>

----------------------------------------------------------------------------
(* Claude upstream.  acc.use is Usage.CompletionTokens, acc.done is Done.   *)

(* StreamResponseClaude2OpenAI: block i opens tool call i - 1, at least 0. *)
StreamResponseClaude2OpenAI(ev) ==
    CASE ev.ev = "message_start" -> <<Ev("chunk", 0, "empty")>>
      [] ev.ev = "content_block_start" /\ ev.kind = "tools" ->
            <<Ev("chunk", IF ev.idx = 0 THEN 0 ELSE ev.idx - 1, "tools")>>
      [] ev.ev = "content_block_start" -> <<Ev("chunk", 0, "empty")>>
      [] ev.ev = "content_block_delta" -> <<Ev("chunk", 0, ev.kind)>>
      [] ev.ev = "message_delta" -> <<Ev("chunk", 0, "finish")>>
      [] OTHER -> <<>>

(* FormatClaudeResponseInfo *)
FormatClaudeResponseInfo(ev) ==
    CASE ev.ev = "message_start" -> [acc EXCEPT !.use = ev.idx]
      [] ev.ev = "content_block_delta" ->
            [acc EXCEPT !.text = @ + (IF ev.kind \in {"text", "thinking"} THEN 1 ELSE 0)]
      [] ev.ev = "message_delta" ->
            [acc EXCEPT !.use = IF ev.idx > 0 THEN ev.idx ELSE @, !.done = TRUE]
      [] OTHER -> acc

(* What a Claude upstream sends. *)
ClaudeEvents ==
    IF chunks = 0 THEN {Ev("message_start", 1, "")}
    ELSE IF gen.open = "stopped" THEN {}
    ELSE IF gen.fin THEN {MessageStop}
    ELSE IF gen.open # "none"
    THEN {BlockDelta(gen.blocks, gen.open), generateStopBlock(gen.blocks)}
    ELSE {BlockStart(gen.blocks, k) : k \in {"text", "thinking", "tools"}}
         \cup {Ev("message_delta", gen.pieces + 1, "")}

(* HandleStreamResponseData: an event is passed on or converted. *)
HandleStreamResponseData ==
    /\ up = "claude" /\ More
    /\ \E ev \in ClaudeEvents :
        /\ acc' = FormatClaudeResponseInfo(ev)
        /\ sent' = sent \o (IF fmt = "claude" THEN <<ev>> ELSE StreamResponseClaude2OpenAI(ev))
        /\ gen' = [gen EXCEPT
              !.open = CASE ev.ev = "content_block_start" -> ev.kind
                         [] ev.ev = "content_block_stop" -> "none"
                         [] ev.ev = "message_stop" -> "stopped" [] OTHER -> @,
              !.blocks = IF ev.ev = "content_block_stop" THEN @ + 1 ELSE @,
              !.pieces = IF ev.ev = "content_block_delta" /\ ev.kind # "tools" THEN @ + 1 ELSE @,
              !.fin = @ \/ ev.ev = "message_delta"]
    /\ UNCHANGED <<up, fmt, think, last, conv, resp, phase, billed>>

(* An error event: sr.Stop, and the error is returned. *)
ClaudeError ==
    /\ up = "claude" /\ More
    /\ phase' = "failed"
    /\ UNCHANGED <<up, fmt, think, gen, last, acc, conv, resp, sent, billed>>

\* Only a usage of zero is estimated.
FinalKeepsFirstUsage ==
    /\ up = "claude" /\ phase = "open"
    /\ billed' = (IF acc.use \in {Nil, 0} THEN acc.text ELSE acc.use)
    /\ sent' = sent \o (IF fmt = "openai" THEN <<Ev("chunk", billed', "usage"), Ev("[DONE]", 0, "")>>
                        ELSE <<>>)
    /\ phase' = "ended"
    /\ UNCHANGED <<up, fmt, think, gen, chunks, last, acc, conv, resp>>

(* HandleStreamFinalResponse: what was not reported is estimated. *)
HandleStreamFinalResponse ==
    /\ up = "claude" /\ phase = "open"
    /\ LET u == IF acc.use = Nil THEN 0 ELSE acc.use
       IN billed' = IF u = 0 \/ (~acc.done /\ acc.text > u) THEN acc.text ELSE u
    /\ sent' = sent \o (IF fmt = "openai" THEN <<Ev("chunk", billed', "usage"), Ev("[DONE]", 0, "")>>
                        ELSE <<>>)
    /\ phase' = "ended"
    /\ UNCHANGED <<up, fmt, think, gen, chunks, last, acc, conv, resp>>

----------------------------------------------------------------------------
(* Gemini upstream: one candidate per chunk, of text, thought or a function *)
(* call; the metadata counts everything sent so far, and an upstream that   *)
(* reports it does so in every later chunk.                                 *)

GeminiCall(n, a) == <<[idx |-> gen.tools, name |-> n, args |-> a]>>

(* streamResponseGeminiChat2OpenAI: one part of the candidate; STOP is      *)
(* taken out and reported apart, a function call brings its finish reason.  *)
streamResponseGeminiChat2OpenAI(kind) ==
    Chunk(IF kind = "thinking" THEN 1 ELSE 0, IF kind = "text" THEN 1 ELSE 0,
          IF kind = "tools" THEN GeminiCall(TRUE, 1) ELSE <<>>,
          IF kind = "tools" THEN "tool_calls" ELSE "", Nil)

(* GeminiChatStreamHandler's callback.  The first chunk is preceded by an   *)
(* empty one, which takes over the names of its tool calls; STOP becomes a  *)
(* chunk of its own.                                                        *)
GeminiChatStreamHandler ==
    /\ up = "gemini" /\ More /\ ~gen.fin
    /\ \E kind \in {"text", "thinking", "tools", "empty"}, stop, meta \in BOOLEAN :
        /\ IF kind = "tools" THEN gen.tools < MaxTools ELSE kind = "empty" \/ gen.tools = 0
        /\ acc.use # Nil => meta
        /\ LET body == streamResponseGeminiChat2OpenAI(kind)
               first == conv.count = 0
               pre  == IF ~first THEN <<>>
                       ELSE <<[GenerateStartEmptyResponse EXCEPT
                                !.tools = IF kind = "tools" THEN GeminiCall(TRUE, 0) ELSE <<>>]>>
               main == IF first /\ kind = "tools"
                       THEN [body EXCEPT !.tools = GeminiCall(FALSE, 1), !.fin = ""] ELSE body
               tools == (kind = "tools" /\ first) \/ acc.tools = 1
           IN /\ SendAll(pre \o <<main>> \o
                    (IF stop THEN <<GenerateStopResponse(IF tools THEN "tool_calls" ELSE "stop")>>
                     ELSE <<>>))
              /\ acc' = [acc EXCEPT !.text = @ + body.text + body.reasoning,
                                    !.tools = IF tools THEN 1 ELSE 0,
                                    !.use = IF meta THEN gen.pieces + 2 ELSE @]
        /\ gen' = [gen EXCEPT !.pieces = @ + (IF kind \in {"text", "thinking"} THEN 1 ELSE 0),
                              !.tools = @ + (IF kind = "tools" THEN 1 ELSE 0), !.fin = stop]
    /\ UNCHANGED <<up, fmt, think, last, resp, phase, billed>>

(* The end of geminiStreamHandler and handleFinalStream.  A chunk that does *)
(* not parse ends the stream the same way (sr.Stop without an error).       *)
GeminiStreamEnd ==
    /\ up = "gemini" /\ phase = "open"
    /\ billed' = (IF acc.use # Nil THEN acc.use ELSE acc.text)
    /\ LET r == HandleFinalResponse(GenerateFinalUsageResponse(billed'), conv, billed', FALSE)
       IN sent' = sent \o r.out /\ conv' = r.s
    /\ phase' = "ended"
    /\ UNCHANGED <<up, fmt, think, gen, chunks, last, acc, resp>>

NextStream ==
    \/ OaiStreamHandler \/ OaiStreamEnd
    \/ ResponsesText \/ ResponsesToolCall \/ ResponsesCompleted \/ ResponsesFailed \/ ResponsesEnd
    \/ HandleStreamResponseData \/ ClaudeError \/ HandleStreamFinalResponse
    \/ GeminiChatStreamHandler \/ GeminiStreamEnd

----------------------------------------------------------------------------
(* content_block_start -> content_block_delta* -> content_block_stop, per   *)
(* index, between one message_start and one message_stop.                   *)
MachineFollowed ==
    \A n \in 1..Len(sent) :
        /\ sent[n].ev \in {"content_block_delta", "content_block_stop"} =>
             \E m \in 1..(n - 1) :
                /\ sent[m].ev = "content_block_start" /\ sent[m].idx = sent[n].idx
                /\ sent[n].ev = "content_block_delta" => sent[m].kind = sent[n].kind
                /\ \A k \in (m + 1)..(n - 1) :
                    ~(sent[k].ev = "content_block_stop" /\ sent[k].idx = sent[n].idx)
        /\ sent[n].ev = "content_block_start" =>
             ~\E m \in 1..(n - 1) : sent[m].ev = "content_block_start" /\ sent[m].idx = sent[n].idx
        /\ sent[n].ev = "message_start" <=> n = 1
        /\ sent[n].ev = "message_stop" => n = Len(sent)

(* A Claude client never sees a delta or a stop of a block that is not      *)
(* open, nor a delta of another type than the block's ("Mismatched content  *)
(* block type"), nor an index used twice, nor anything after the message's  *)
(* end, for every answer of an OpenAI upstream of at least three chunks     *)
(* and every other answer that is not empty: the last OpenAI chunk is       *)
(* converted without SendResponseCount being advanced, so that in a shorter *)
(* one it is taken for the first.                                           *)
BlocksFollowTheMachine ==
    fmt = "claude" /\ chunks >= (IF up = "openai" THEN 3 ELSE 1) => MachineFollowed

(* Whatever text or reasoning the client was given is paid for: the billed  *)
(* completion covers it, however the stream ended and whether or not the    *)
(* upstream reported its usage.                                             *)
DeliveredIsBilled ==
    phase = "ended" => billed >= Len(SelectSeq(sent, LAMBDA e :
        \/ e.ev = "content_block_delta" /\ e.kind \in {"text", "thinking"}
        \/ e.ev = "chunk" /\ e.kind \in {"text", "thinking", "text-of-thought", "<think>"}
        \/ e.ev = "candidate" /\ e.kind = "text"))
=============================================================================
