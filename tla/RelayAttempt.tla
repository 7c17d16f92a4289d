--------------------------- MODULE RelayAttempt ---------------------------
(***************************************************************************)
(* One request through Relay (controller/relay.go): it is tried on one       *)
(* channel after another, each time by the helper of its kind, which          *)
(* converts the body with the channel's adaptor, sends it, and lets the       *)
(* adaptor's handler write the answer to the client.  ONE RelayInfo serves    *)
(* all attempts: InitChannelMeta replaces the channel's fields, while         *)
(* IsStream, FinalRequestRelayFormat and RequestConversionChain keep what an  *)
(* earlier attempt left in them.                                              *)
(***************************************************************************)
EXTENDS RelayAdaptors

CONSTANT MaxTries    \* common.RetryTimes + 1

VARIABLES
    req,      \* [kind, stream]: what the client asked for
    info,     \* [isStream, final, last]: fields of RelayInfo that survive an attempt
    at,       \* [ch, pass, via, sent]: the channel tried, and the format of the body sent
    pc,       \* "select", "sent", "ended"
    tries,    \* attempts so far
    wrote,    \* attempts that wrote bytes to the client
    told,     \* "none", "ok", "error", "panic": how Relay returned
    bill      \* "held", "settled", "returned": the pre-consumed quota

ravars == <<req, info, at, pc, tries, wrote, told, bill>>

-----------------------------------------------------------------------------

Adaptor(convert, Read(_, _)) ==
    [convert |-> convert, read |-> [k \in Kinds, s \in BOOLEAN |-> Read(k, s)]]

GetAdaptor ==
    [openai |-> Adaptor(openai_Convert, openai_DoResponse),
     claude |-> Adaptor(claude_Convert, claude_DoResponse),
     gemini |-> Adaptor(gemini_Convert("plain"), LAMBDA k, s : gemini_DoResponse(k, s, "plain")),
     gemini_imagen |-> Adaptor(gemini_Convert("imagen"), LAMBDA k, s : gemini_DoResponse(k, s, "imagen")),
     gemini_embed |-> Adaptor(gemini_Convert("embedding"), LAMBDA k, s : gemini_DoResponse(k, s, "embedding")),
     deepseek |-> Adaptor(deepseek_Convert, deepseek_DoResponse),
     moonshot |-> Adaptor(moonshot_Convert, moonshot_DoResponse),
     zhipu_4v |-> Adaptor(zhipu_4v_Convert, zhipu_4v_DoResponse),
     minimax |-> Adaptor(minimax_Convert, minimax_DoResponse),
     ali |-> Adaptor(ali_Convert("plain"), LAMBDA k, s : ali_DoResponse(k, s, "plain")),
     ali_messages |-> Adaptor(ali_Convert("messages"), LAMBDA k, s : ali_DoResponse(k, s, "messages")),
     volcengine |-> Adaptor(volcengine_Convert("default"), LAMBDA k, s : volcengine_DoResponse(k, s, "default")),
     volcengine_plan |-> Adaptor(volcengine_Convert("plan"), LAMBDA k, s : volcengine_DoResponse(k, s, "plan")),
     submodel |-> Adaptor(submodel_Convert, submodel_DoResponse),
     mistral |-> Adaptor(mistral_Convert, mistral_DoResponse),
     jina |-> Adaptor(jina_Convert, jina_DoResponse),
     perplexity |-> Adaptor(perplexity_Convert, openai_DoResponse),
     baidu_v2 |-> Adaptor(baidu_v2_Convert, openai_DoResponse),
     siliconflow |-> Adaptor(siliconflow_Convert, siliconflow_DoResponse),
     codex |-> Adaptor(codex_Convert, codex_DoResponse),
     xai |-> Adaptor(xai_Convert, xai_DoResponse),
     cloudflare |-> Adaptor(cloudflare_Convert, cloudflare_DoResponse),
     jimeng |-> Adaptor(jimeng_Convert, jimeng_DoResponse),
     zhipu |-> Adaptor(zhipu_Convert, zhipu_DoResponse),
     cohere |-> Adaptor(cohere_Convert, cohere_DoResponse),
     tencent |-> Adaptor(tencent_Convert, tencent_DoResponse),
     xunfei |-> Adaptor(xunfei_Convert, xunfei_DoResponse),
     dify |-> Adaptor(dify_Convert, dify_DoResponse),
     baidu |-> Adaptor(baidu_Convert, baidu_DoResponse),
     coze |-> Adaptor(coze_Convert, coze_DoResponse),
     palm |-> Adaptor(palm_Convert, palm_DoResponse),
     mokaai |-> Adaptor(mokaai_Convert, mokaai_DoResponse),
     ollama |-> Adaptor(ollama_Convert, ollama_DoResponse),
     replicate |-> Adaptor(replicate_Convert, replicate_DoResponse),
     vertex |-> Adaptor(vertex_Convert("plain"), LAMBDA k, s : vertex_DoResponse(k, s, "plain")),
     vertex_claude |-> Adaptor(vertex_Convert("claude"), LAMBDA k, s : vertex_DoResponse(k, s, "claude")),
     vertex_oss |-> Adaptor(vertex_Convert("oss"), LAMBDA k, s : vertex_DoResponse(k, s, "oss")),
     vertex_imagen |-> Adaptor(vertex_Convert("imagen"), LAMBDA k, s : vertex_DoResponse(k, s, "imagen")),
     aws |-> Adaptor(aws_Convert("claude"), LAMBDA k, s : aws_DoResponse(k, s, "claude")),
     aws_nova |-> Adaptor(aws_Convert("nova"), LAMBDA k, s : aws_DoResponse(k, s, "nova")),
     aws_nova_key |-> Adaptor(aws_Convert("nova_key"), LAMBDA k, s : aws_DoResponse(k, s, "nova_key"))]

Channels == DOMAIN GetAdaptor

(* The upstream streams because the URL or the API says so, which follows   *)
(* info.IsStream; otherwise the field of the body says so, which is the      *)
(* client's; some APIs never stream.                                         *)
ByFlag == {"gemini", "vertex", "vertex_claude", "zhipu", "aws", "aws_nova", "xunfei"}
Never == {"palm", "nova", "mspeech", "gimage", "null"}

Streams(ch, format) ==
    CASE format \in Never -> FALSE
      [] format = "vsocket" -> TRUE
      [] OTHER -> IF ch \in ByFlag THEN info.isStream ELSE req.stream

(* The formats GuessRelayFormatFromRequest recognises in a converted body. *)
Guessed(ch, format) ==
    CASE format \in {"openai", "claude", "gemini", "responses", "embed", "rerank", "image"}
            /\ ~(format = "claude" /\ ch \in {"vertex", "vertex_claude", "vertex_oss", "vertex_imagen"}) -> format
      [] OTHER -> info.last

GetFinalRequestRelayFormat == IF info.final # "" THEN info.final ELSE info.last

RelayFormat(k) ==
    CASE k \in {"chat", "completions"} -> "openai" [] k = "claude" -> "claude"
      [] k \in {"gemini", "gembed"} -> "gemini" [] k \in {"responses", "compact"} -> "responses"
      [] k \in {"image", "edit"} -> "image" [] k \in {"speech", "stt"} -> "speech"
      [] k = "embedding" -> "embed" [] k = "rerank" -> "rerank"

-----------------------------------------------------------------------------
(* GenRelayInfo, after the request was validated and its quota held. *)
InitRelay ==
    /\ \E k \in Kinds, s \in BOOLEAN :
          /\ s => k \in StreamKinds
          /\ req = [kind |-> k, stream |-> s]
          /\ info = [isStream |-> s, final |-> "", last |-> RelayFormat(k)]
    /\ at = [ch |-> "none", pass |-> FALSE, via |-> FALSE, sent |-> "none"]
    /\ pc = "select" /\ tries = 0 /\ wrote = 0 /\ told = "none" /\ bill = "held"

(* The attempt ended with an error.  An error of the channel itself is       *)
(* always tried again; one that is marked, or that carries a status 2xx, or  *)
(* a status outside the configured ranges, is not.                           *)
shouldRetry(class) == class \in {"channel", "retry"}

(* As Fail, but the refund is left to the last try. *)
Fail_RefundLast(class) ==
    IF shouldRetry(class) /\ tries' < MaxTries
    THEN pc' = "select" /\ UNCHANGED <<told, bill>>
    ELSE pc' = "ended" /\ told' = "error" /\ bill' = IF tries' = MaxTries THEN "returned" ELSE bill

(* The loop of Relay: the next channel, or the deferred refund and the error. *)
Fail(class) ==
    IF shouldRetry(class) /\ tries' < MaxTries
    THEN pc' = "select" /\ UNCHANGED <<told, bill>>
    ELSE pc' = "ended" /\ told' = "error" /\ bill' = "returned"

(* The helpers' settlement (PostTextConsumeQuota, PostAudioConsumeQuota). *)
Settle == pc' = "ended" /\ told' = "ok" /\ bill' = "settled"

(* A panic passes the deferred functions of Relay with newAPIError nil. *)
Panic == pc' = "ended" /\ told' = "panic" /\ UNCHANGED bill

(* The conversion of the helper of this kind, or the client's own body. *)
Body(ch, pass, via) ==
    CASE pass -> RelayFormat(req.kind)
      [] via -> GetAdaptor[ch].convert["responses"]
      [] OTHER -> GetAdaptor[ch].convert[req.kind]

(* The helpers.  passes: the client's body may go upstream unchanged;       *)
(* refusal: how an error of the conversion is classed; header: the content   *)
(* type of the answer is copied into info.IsStream, before the status is     *)
(* looked at.                                                                *)
Helper(passes, refusal, header) == [passes |-> passes, refusal |-> refusal, header |-> header]

TextHelper == Helper(TRUE, "skip", TRUE)
ClaudeHelper == Helper(TRUE, "skip", TRUE)
GeminiHelper == Helper(TRUE, "skip", TRUE)
GeminiEmbeddingHelper == Helper(FALSE, "skip", FALSE)
ResponsesHelper == Helper(TRUE, "skip", FALSE)
ImageHelper == Helper(TRUE, "retry", TRUE)
AudioHelper == Helper(FALSE, "skip", FALSE)
EmbeddingHelper == Helper(FALSE, "skip", FALSE)
RerankHelper == Helper(TRUE, "skip", FALSE)

relayHandler(k) ==
    CASE k \in {"chat", "completions"} -> TextHelper
      [] k = "claude" -> ClaudeHelper
      [] k = "gemini" -> GeminiHelper
      [] k = "gembed" -> GeminiEmbeddingHelper
      [] k \in {"responses", "compact"} -> ResponsesHelper
      [] k \in {"image", "edit"} -> ImageHelper
      [] k \in {"speech", "stt"} -> AudioHelper
      [] k = "embedding" -> EmbeddingHelper
      [] k = "rerank" -> RerankHelper

(* The policy may send chat and Claude requests to the Responses API. *)
ShouldChatCompletionsUseResponses(k, pass) == k \in {"chat", "claude"} /\ ~pass

(* One helper up to DoRequest. *)
Attempt(ch, pass, via) ==
    /\ pc = "select"
    /\ pass => relayHandler(req.kind).passes
    /\ via => ShouldChatCompletionsUseResponses(req.kind, pass)
    /\ tries' = tries + 1
    /\ LET body == Body(ch, pass, via)
           compactElsewhere == req.kind = "compact" /\ ch \notin {"openai", "codex"}
       IN  /\ at' = [ch |-> ch, pass |-> pass, via |-> via, sent |-> body]
           /\ info' = [info EXCEPT
                 !.last = IF pass THEN @ ELSE Guessed(ch, body),
                 !.isStream = @ \/ (body \in {"vsocket", "vspeech"} /\ ~compactElsewhere)]
           /\ CASE compactElsewhere -> Fail("skip")
                [] ~compactElsewhere /\ body = "refuse" ->
                      Fail(relayHandler(req.kind).refusal)
                [] ~compactElsewhere /\ body = "nourl" -> Fail("retry")
                [] ~compactElsewhere /\ body = "panic" -> Panic
                [] OTHER -> pc' = "sent" /\ UNCHANGED <<told, bill>>
    /\ UNCHANGED <<req, wrote>>

(* A model mapping or an override of the channel is wrong: an error of the    *)
(* channel, tried again although it is marked.                               *)
ChannelError ==
    /\ pc = "select" /\ tries' = tries + 1 /\ Fail("channel")
    /\ UNCHANGED <<req, info, at, wrote>>

(* DoRequest fails, or the status is not 200: an error, whose content type   *)
(* has already been copied into info.IsStream.                               *)
Refused(class, eventStream) ==
    /\ pc = "sent"
    /\ eventStream => relayHandler(req.kind).header
    /\ info' = [info EXCEPT !.isStream = @ \/ eventStream]
    /\ UNCHANGED <<req, at, tries, wrote>>
    /\ Fail(class)

(* The handler that DoResponse, or chatCompletionsViaResponses, chooses. *)
Reader(stream) ==
    CASE at.via -> IF stream THEN OaiResponsesToChatStreamHandler ELSE OaiResponsesToChatHandler
      [] OTHER -> GetAdaptor[at.ch].read[req.kind, stream]

(* What the chosen handler makes of the answer.  A body in a format it does  *)
(* not know is junk to it; a stream handler finds no event in a plain body.  *)
Outcome(a, stream) ==
    LET r == Reader(stream)
        streamed == Streams(at.ch, at.sent)
    IN  CASE at.sent \notin r.reads -> r.on["junk"]
          [] at.sent \in r.reads /\ r.streams /\ ~streamed -> r.on["bare"]
          [] at.sent \in r.reads /\ ~r.streams /\ streamed -> r.on["junk"]
          [] OTHER -> r.on[a]

(* Claude's DoResponse records the format for the settlement. *)
SetsFinal(stream) == ~at.via /\ Reader(stream) \in {ClaudeStreamHandler, ClaudeHandler}
                     /\ at.ch \notin {"aws", "aws_nova"}

(* Status 200: the handler writes to the client, the helper settles. *)
Answer(a) ==
    /\ pc = "sent"
    /\ a = "turn" => Streams(at.ch, at.sent)
    /\ LET stream == info.isStream \/ (relayHandler(req.kind).header /\ Streams(at.ch, at.sent))
           o == Outcome(a, stream)
       IN  /\ info' = [info EXCEPT !.isStream = stream,
                                   !.final = IF SetsFinal(stream) THEN "claude" ELSE @]
           /\ wrote' = IF o \in Served \cup {"late", "lost"} THEN wrote + 1 ELSE wrote
           /\ UNCHANGED <<req, at, tries>>
           /\ CASE o \in Served \cup {"empty"} -> Settle
                [] o \in {"panic", "lost"} -> Panic
                [] o = "status" -> Fail("status")
                [] OTHER -> Fail("retry")

NextRelay ==
    \/ \E ch \in Channels, pass, via \in BOOLEAN : Attempt(ch, pass, via)
    \/ ChannelError
    \/ \E class \in {"retry", "skip"}, es \in BOOLEAN : Refused(class, es)
    \/ \E a \in Answers : Answer(a)

-----------------------------------------------------------------------------
(* Pairs whose answer the code cannot read even on a first attempt: what the *)
(* adaptor sends for this kind does not fit the model behind the channel.    *)
Unread(ch, k) ==
    \/ k = "gembed"
    \/ ch \in {"vertex", "vertex_oss", "vertex_imagen"} /\ k = "claude"
    \/ ch \in {"vertex_claude", "vertex_oss"} /\ k = "gemini"
    \/ ch = "gemini" /\ k = "embedding"
    \/ ch = "gemini_imagen" /\ k # "image"
    \/ ch = "gemini_embed" /\ k # "embedding"
    \/ ch = "vertex_imagen" /\ (k # "image" \/ info.isStream)
    \/ ch \in {"zhipu_4v", "jimeng"} /\ k = "edit"
    \/ ch = "aws_nova_key"
    \/ ch = "volcengine_plan" /\ k = "speech"
    \/ ch = "cloudflare" /\ k \in {"completions", "rerank", "speech"}

(* The handler that DoResponse picks reads the format that was sent, and     *)
(* reads a stream exactly when the upstream was asked for one: the dispatch  *)
(* of every adaptor's Convert methods and that of its DoResponse, written    *)
(* apart from each other, agree for every kind of request and channel, also  *)
(* after attempts on other channels.  Not promised: a body passed through,   *)
(* the pairs of Unread, a null body, and the stream where an earlier attempt *)
(* left IsStream different from what the client asked.                       *)
ReaderMatchesRequest ==
    pc = "sent" /\ ~at.pass /\ at.sent # "null" /\ (at.via \/ ~Unread(at.ch, req.kind)) =>
        LET r == Reader(info.isStream)
        IN  /\ at.sent \in r.reads
            /\ info.isStream = req.stream => r.streams = Streams(at.ch, at.sent)

(* However many channels were tried, the held quota ends where the client    *)
(* was told it would: settled once after a success, returned after an error; *)
(* it stays held only when a handler panicked.  A client that was told "ok"  *)
(* got bytes, unless the stream handler of the Responses API found nothing   *)
(* to write; and the answer to a body converted to Claude's format is        *)
(* settled as Claude's, whose prompt tokens leave the cached ones out       *)
(* (but for the pairs of Unread).                                            *)
PaidAsTold ==
    pc = "ended" =>
        /\ bill = (CASE told = "ok" -> "settled" [] told = "error" -> "returned" [] told = "panic" -> "held")
        /\ told = "ok" => wrote > 0 \/ req.kind = "responses"
        /\ told = "ok" /\ at.sent = "claude" /\ ~at.pass /\ ~Unread(at.ch, req.kind) =>
              GetFinalRequestRelayFormat = "claude"
=============================================================================
