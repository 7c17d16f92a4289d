--------------------------- MODULE RelayAdaptors ---------------------------
(***************************************************************************)
(* The provider adaptors under relay/channel: what each of them sends        *)
(* upstream for each kind of client request, how it asks for a stream, and   *)
(* which handler reads the answer.  A request is abstracted to the FORMAT of *)
(* its body; an answer to what matters for the client and the bill:          *)
(*   full  content and usage          junk  a body that cannot be parsed     *)
(*   bare  content, no usage          turn  content, then an error event     *)
(*   fail  an error object, no content      (streams only)                   *)
(*   cut   the body breaks off                                               *)
(* A handler turns an answer into one outcome:                               *)
(*   upstream, estimated, zero  written to the client, with the upstream's   *)
(*                              usage, with the gateway's estimate, with 0   *)
(*   empty    success reported although nothing was written                  *)
(*   error    an error before anything was written                           *)
(*   status   an error carrying the upstream's status 200                    *)
(*   late     an error after bytes were written                              *)
(*   panic    a panic before anything was written; lost: after               *)
(***************************************************************************)
EXTENDS Naturals

Kinds == {"chat", "completions", "claude", "gemini", "gembed", "responses", "compact",
          "image", "edit", "speech", "stt", "embedding", "rerank"}

StreamKinds == {"chat", "completions", "claude", "gemini", "responses", "speech"}

Answers == {"full", "bare", "fail", "junk", "turn", "cut"}

Served == {"upstream", "estimated", "zero"}

Outcomes == Served \cup {"empty", "error", "status", "late", "panic", "lost"}

(* The handlers that read an event stream, and the ones that read one body. *)
Stream(reads, full, bare, fail, junk, turn, cut) ==
    [reads |-> reads, streams |-> TRUE,
     on |-> [a \in Answers |->
                CASE a = "full" -> full [] a = "bare" -> bare [] a = "fail" -> fail
                  [] a = "junk" -> junk [] a = "turn" -> turn [] a = "cut" -> cut]]

Plain(reads, full, bare, fail, junk, cut) ==
    [reads |-> reads, streams |-> FALSE,
     on |-> [a \in Answers |->
                CASE a = "full" -> full [] a = "bare" -> bare [] a = "fail" -> fail
                  [] a = "junk" -> junk [] a \in {"turn", "cut"} -> cut]]

(* No handler: DoResponse returns no usage and no error, and the helper's   *)
(* type assertion on the usage panics.                                       *)
NoReader == [reads |-> {}, streams |-> FALSE, on |-> [a \in Answers |-> "panic"]]

(* What the eight Convert* methods of one adaptor return: a format, or      *)
(*   refuse  an error (no retry, except for images), nourl  an error of      *)
(*   GetRequestURL or the header set-up, panic  panic("implement me"),        *)
(*   null    (nil, nil), which is sent as the body null.                      *)
Table(chat, claude, gemini, responses, image, audio, embedding, rerank) ==
    [k \in Kinds |->
        CASE k \in {"chat", "completions"} -> chat
          [] k = "claude" -> claude
          [] k = "gemini" -> gemini
          [] k = "gembed" -> "gembed"
          [] k \in {"responses", "compact"} -> responses
          [] k \in {"image", "edit"} -> image
          [] k \in {"speech", "stt"} -> audio
          [] k = "embedding" -> embedding
          [] k = "rerank" -> rerank]

-----------------------------------------------------------------------------
(* OpenAI and the channels that share its adaptor. *)

openai_Convert ==
    Table("openai", "openai", "openai", "responses", "image", "speech", "embed", "rerank")

OaiStreamHandler ==
    Stream({"openai"}, "upstream", "estimated", "estimated", "estimated", "estimated", "estimated")
OpenaiHandler ==
    Plain({"openai", "embed"}, "upstream", "estimated", "status", "error", "error")
OpenaiHandlerWithUsage == Plain({"image"}, "upstream", "zero", "zero", "error", "error")
OaiResponsesHandler == Plain({"responses"}, "upstream", "zero", "status", "error", "error")
OaiResponsesStreamHandler ==
    Stream({"responses"}, "upstream", "estimated", "zero", "empty", "estimated", "estimated")
OaiResponsesCompactionHandler ==
    Plain({"responses"}, "upstream", "zero", "status", "error", "error")
OaiResponsesToChatHandler ==
    Plain({"responses"}, "upstream", "estimated", "status", "error", "error")
OaiResponsesToChatStreamHandler ==
    Stream({"responses"}, "upstream", "estimated", "error", "estimated", "late", "estimated")
OpenaiTTSHandler(stream) ==
    IF stream
    THEN Stream({"speech"}, "upstream", "estimated", "estimated", "estimated", "estimated", "estimated")
    ELSE Plain({"speech"}, "estimated", "estimated", "estimated", "estimated", "estimated")
OpenaiSTTHandler == Plain({"speech"}, "upstream", "estimated", "estimated", "estimated", "error")
common_RerankHandler == Plain({"rerank"}, "upstream", "zero", "zero", "error", "error")

openai_DoResponse(k, stream) ==
    CASE k = "speech" -> OpenaiTTSHandler(stream)
      [] k = "stt" -> OpenaiSTTHandler
      [] k \in {"image", "edit"} -> OpenaiHandlerWithUsage
      [] k = "rerank" -> common_RerankHandler
      [] k = "responses" -> IF stream THEN OaiResponsesStreamHandler ELSE OaiResponsesHandler
      [] k = "compact" -> OaiResponsesCompactionHandler
      [] OTHER -> IF stream THEN OaiStreamHandler ELSE OpenaiHandler

-----------------------------------------------------------------------------
(* Anthropic. *)

claude_Convert ==
    Table("claude", "claude", "refuse", "refuse", "refuse", "refuse", "refuse", "null")

ClaudeStreamHandler ==
    Stream({"claude"}, "upstream", "estimated", "error", "error", "late", "estimated")
ClaudeHandler == Plain({"claude"}, "upstream", "zero", "error", "error", "error")

claude_DoResponse(k, stream) == IF stream THEN ClaudeStreamHandler ELSE ClaudeHandler

-----------------------------------------------------------------------------
(* Gemini; v is the family of the upstream model. *)

gemini_Convert(v) ==
    Table("gemini", "gemini", "gemini", "refuse",
          IF v = "imagen" THEN "gimage" ELSE "refuse", "refuse", "gembed", "null")

GeminiTextGenerationStreamHandler ==
    Stream({"gemini"}, "upstream", "estimated", "zero", "estimated", "estimated", "estimated")
GeminiTextGenerationHandler ==
    Plain({"gemini"}, "upstream", "estimated", "estimated", "error", "error")
NativeGeminiEmbeddingHandler ==
    Plain({"gembed"}, "estimated", "estimated", "estimated", "error", "error")
GeminiEmbeddingHandler ==
    Plain({"gembed"}, "estimated", "estimated", "estimated", "error", "error")
GeminiImageHandler == Plain({"gimage"}, "estimated", "estimated", "error", "error", "error")
GeminiChatStreamHandler ==
    Stream({"gemini"}, "upstream", "estimated", "zero", "estimated", "estimated", "estimated")
\* without candidates it writes an error to the client and returns a usage
GeminiChatHandler == Plain({"gemini"}, "upstream", "estimated", "estimated", "error", "error")

gemini_DoResponse(k, stream, v) ==
    CASE k = "gembed" -> NativeGeminiEmbeddingHandler
      [] k = "gemini" ->
            IF stream THEN GeminiTextGenerationStreamHandler ELSE GeminiTextGenerationHandler
      [] k \notin {"gembed", "gemini"} /\ v = "imagen" -> GeminiImageHandler
      [] k \notin {"gembed", "gemini"} /\ v = "embedding" -> GeminiEmbeddingHandler
      [] OTHER -> IF stream THEN GeminiChatStreamHandler ELSE GeminiChatHandler

-----------------------------------------------------------------------------
(* Channels whose clients may also speak Claude's format. *)

deepseek_Convert ==
    Table("openai", "claude", "refuse", "refuse", "refuse", "refuse", "refuse", "null")
\* As deepseek_DoResponse, but a Claude client's answer is read like any other.
deepseek_DoResponse_NoClaude(k, stream) == openai_DoResponse(k, stream)

deepseek_DoResponse(k, stream) ==
    IF k = "claude" THEN claude_DoResponse(k, stream) ELSE openai_DoResponse(k, stream)

moonshot_Convert ==
    Table("openai", "claude", "refuse", "refuse", "image", "refuse", "embed", "rerank")
moonshot_DoResponse(k, stream) ==
    IF k = "claude" THEN claude_DoResponse(k, stream) ELSE openai_DoResponse(k, stream)

zhipu_4v_Convert ==
    Table("openai", "claude", "refuse", "refuse", "zimage", "refuse", "embed", "null")
zhipu4vImageHandler == Plain({"zimage"}, "zero", "zero", "error", "error", "error")
zhipu_4v_DoResponse(k, stream) ==
    CASE k = "claude" -> claude_DoResponse(k, stream)
      [] k = "image" -> zhipu4vImageHandler
      [] OTHER -> openai_DoResponse(k, stream)

minimax_Convert ==
    [Table("openai", "claude", "refuse", "refuse", "mimage", "mspeech", "nourl", "nourl")
     EXCEPT !["edit"] = "refuse", !["stt"] = "refuse", !["completions"] = "nourl", !["gembed"] = "nourl"]
minimax_handleTTSResponse == Plain({"mspeech"}, "estimated", "error", "error", "error", "error")
miniMaxImageHandler == Plain({"mimage"}, "zero", "zero", "status", "error", "error")
minimax_DoResponse(k, stream) ==
    CASE k = "speech" -> minimax_handleTTSResponse
      [] k = "image" -> miniMaxImageHandler
      [] k = "claude" -> claude_DoResponse(k, stream)
      [] OTHER -> openai_DoResponse(k, stream)

(* v: the model takes Anthropic messages (supportsAliAnthropicMessages). *)
ali_Convert(v) ==
    Table("openai", IF v = "messages" THEN "claude" ELSE "openai", "refuse", "responses",
          "aimage", "refuse", "embed", "arerank")
\* aliImageHandler waits for the task of an asynchronous model (asyncTaskWait)
aliImageHandler == Plain({"aimage"}, "zero", "zero", "status", "error", "error")
ali_RerankHandler == Plain({"arerank"}, "upstream", "zero", "status", "error", "error")
ali_DoResponse(k, stream, v) ==
    CASE k = "claude" /\ v = "messages" -> claude_DoResponse(k, stream)
      [] k \in {"image", "edit"} -> aliImageHandler
      [] k = "rerank" -> ali_RerankHandler
      [] OTHER -> openai_DoResponse(k, stream)

(* v: the base URL is that of a special plan (ChannelSpecialBases), the     *)
(* default one, or another one.                                              *)
volcengine_Convert(v) ==
    [Table("openai", IF v = "plan" THEN "claude" ELSE "openai", "refuse", "responses", "image",
           IF v = "default" THEN "vsocket" ELSE "vspeech", "embed", "null")
     EXCEPT !["stt"] = "refuse", !["completions"] = "nourl", !["gembed"] = "nourl"]
volcengine_handleTTSResponse == Plain({"vspeech"}, "estimated", "error", "error", "error", "error")
handleTTSWebSocketResponse ==
    Stream({"vsocket"}, "estimated", "estimated", "error", "error", "late", "late")
volcengine_DoResponse(k, stream, v) ==
    CASE k = "claude" /\ v = "plan" -> claude_DoResponse(k, stream)
      [] k = "speech" -> IF stream THEN handleTTSWebSocketResponse ELSE volcengine_handleTTSResponse
      [] OTHER -> openai_DoResponse(k, stream)
-----------------------------------------------------------------------------
(* Channels that answer in OpenAI's format. *)

submodel_Convert ==
    Table("openai", "refuse", "refuse", "refuse", "refuse", "refuse", "refuse", "refuse")
submodel_DoResponse(k, stream) == IF stream THEN OaiStreamHandler ELSE OpenaiHandler

mistral_Convert ==
    Table("openai", "panic", "refuse", "refuse", "refuse", "refuse", "refuse", "null")
mistral_DoResponse(k, stream) == IF stream THEN OaiStreamHandler ELSE OpenaiHandler

jina_Convert ==
    [Table("nourl", "panic", "refuse", "refuse", "refuse", "refuse", "embed", "rerank")
     EXCEPT !["gembed"] = "nourl"]
jina_DoResponse(k, stream) ==
    CASE k = "rerank" -> common_RerankHandler
      [] k = "embedding" -> OpenaiHandler
      [] OTHER -> NoReader

perplexity_Convert ==
    Table("openai", "openai", "refuse", "responses", "refuse", "refuse", "refuse", "null")

\* GetRequestURL knows no URL for the relay mode of a Claude request
baidu_v2_Convert ==
    [Table("openai", "nourl", "refuse", "refuse", "refuse", "refuse", "refuse", "refuse")
     EXCEPT !["completions"] = "nourl", !["gembed"] = "nourl"]

siliconflow_Convert ==
    Table("openai", "openai", "refuse", "refuse", "image", "speech", "embed", "rerank")
siliconflowRerankHandler == Plain({"rerank"}, "upstream", "zero", "zero", "error", "error")
siliconflow_DoResponse(k, stream) ==
    IF k = "rerank" THEN siliconflowRerankHandler ELSE openai_DoResponse(k, stream)

codex_Convert ==
    [Table("refuse", "refuse", "refuse", "responses", "refuse", "refuse", "refuse", "refuse")
     EXCEPT !["gembed"] = "nourl"]
codex_DoResponse(k, stream) ==
    CASE k = "compact" -> OaiResponsesCompactionHandler
      [] k = "responses" -> IF stream THEN OaiResponsesStreamHandler ELSE OaiResponsesHandler
      [] OTHER -> [NoReader EXCEPT !.on = [a \in Answers |-> "error"]]

xai_Convert ==
    Table("openai", "refuse", "refuse", "responses", "image", "refuse", "refuse", "null")
xAIStreamHandler ==
    Stream({"openai"}, "upstream", "estimated", "estimated", "estimated", "estimated", "estimated")
\* the usage of the answer is dereferenced after the answer was written
xAIHandler == Plain({"openai"}, "upstream", "lost", "lost", "error", "error")
xai_DoResponse(k, stream) ==
    CASE k \in {"image", "edit"} -> OpenaiHandlerWithUsage
      [] k = "responses" -> IF stream THEN OaiResponsesStreamHandler ELSE OaiResponsesHandler
      [] OTHER -> IF stream THEN xAIStreamHandler ELSE xAIHandler

cloudflare_Convert ==
    [Table("openai", "panic", "refuse", "responses", "refuse", "speech", "embed", "rerank")
     EXCEPT !["completions"] = "cfprompt"]
cfStreamHandler ==
    Stream({"openai"}, "estimated", "estimated", "estimated", "estimated", "estimated", "estimated")
cfHandler == Plain({"openai", "embed"}, "estimated", "estimated", "estimated", "error", "error")
cfSTTHandler == Plain({"speech"}, "estimated", "estimated", "estimated", "error", "error")
cloudflare_DoResponse(k, stream) ==
    CASE k \in {"chat", "embedding"} -> IF stream THEN cfStreamHandler ELSE cfHandler
      [] k = "responses" -> IF stream THEN OaiResponsesStreamHandler ELSE OaiResponsesHandler
      [] k = "stt" -> cfSTTHandler
      [] OTHER -> NoReader

jimeng_Convert ==
    Table("openai", "refuse", "refuse", "refuse", "jimeng", "refuse", "refuse", "refuse")
jimengImageHandler == Plain({"jimeng"}, "zero", "zero", "status", "error", "error")
jimeng_DoResponse(k, stream) ==
    CASE k = "image" -> jimengImageHandler
      [] OTHER -> IF stream THEN OaiStreamHandler ELSE OpenaiHandler

-----------------------------------------------------------------------------
(* Channels with a format of their own. *)

zhipu_Convert ==
    Table("zhipu", "panic", "refuse", "refuse", "refuse", "refuse", "refuse", "null")
\* the usage is a nil pointer until the meta event arrives
zhipuStreamHandler == Stream({"zhipu"}, "upstream", "lost", "lost", "lost", "lost", "lost")
zhipuHandler == Plain({"zhipu"}, "upstream", "zero", "error", "error", "error")
zhipu_DoResponse(k, stream) == IF stream THEN zhipuStreamHandler ELSE zhipuHandler

cohere_Convert ==
    Table("cohere", "panic", "refuse", "refuse", "refuse", "refuse", "refuse", "crerank")
cohereStreamHandler ==
    Stream({"cohere"}, "upstream", "estimated", "estimated", "estimated", "estimated", "estimated")
cohereHandler == Plain({"cohere"}, "upstream", "zero", "zero", "error", "error")
cohereRerankHandler == Plain({"crerank"}, "upstream", "estimated", "estimated", "error", "error")
cohere_DoResponse(k, stream) ==
    CASE k = "rerank" -> cohereRerankHandler
      [] OTHER -> IF stream THEN cohereStreamHandler ELSE cohereHandler

tencent_Convert ==
    Table("tencent", "panic", "refuse", "refuse", "refuse", "refuse", "refuse", "null")
tencentStreamHandler ==
    Stream({"tencent"}, "estimated", "estimated", "estimated", "estimated", "estimated", "estimated")
tencentHandler == Plain({"tencent"}, "upstream", "zero", "status", "error", "error")
tencent_DoResponse(k, stream) == IF stream THEN tencentStreamHandler ELSE tencentHandler

(* The request is sent by the handlers, over a websocket. *)
xunfei_Convert ==
    Table("xunfei", "panic", "refuse", "refuse", "refuse", "refuse", "refuse", "null")
xunfeiStreamHandler == Stream({"xunfei"}, "upstream", "zero", "zero", "zero", "zero", "zero")
xunfeiHandler == Plain({"xunfei"}, "upstream", "zero", "zero", "zero", "zero")
xunfei_DoResponse(k, stream) ==
    CASE k \notin {"chat", "completions"} -> [NoReader EXCEPT !.on = [a \in Answers |-> "error"]]
      [] OTHER -> IF stream THEN xunfeiStreamHandler ELSE xunfeiHandler

dify_Convert ==
    Table("dify", "panic", "refuse", "refuse", "refuse", "refuse", "refuse", "null")
difyStreamHandler ==
    Stream({"dify"}, "upstream", "estimated", "estimated", "estimated", "estimated", "estimated")
difyHandler == Plain({"dify"}, "upstream", "zero", "zero", "error", "error")
dify_DoResponse(k, stream) == IF stream THEN difyStreamHandler ELSE difyHandler

baidu_Convert ==
    Table("baidu", "panic", "refuse", "refuse", "refuse", "refuse", "bembed", "null")
baiduStreamHandler == Stream({"baidu"}, "upstream", "zero", "zero", "zero", "zero", "zero")
baiduHandler == Plain({"baidu"}, "upstream", "zero", "error", "error", "error")
baiduEmbeddingHandler == Plain({"bembed"}, "upstream", "zero", "error", "error", "error")
baidu_DoResponse(k, stream) ==
    CASE stream -> baiduStreamHandler
      [] ~stream /\ k = "embedding" -> baiduEmbeddingHandler
      [] OTHER -> baiduHandler

coze_Convert ==
    Table("coze", "refuse", "refuse", "refuse", "refuse", "refuse", "refuse", "refuse")
cozeChatHandler == Plain({"coze"}, "upstream", "zero", "error", "error", "error")
cozeChatStreamHandler ==
    Stream({"coze"}, "upstream", "estimated", "estimated", "estimated", "estimated", "late")
coze_DoResponse(k, stream) == IF stream THEN cozeChatStreamHandler ELSE cozeChatHandler

\* PaLM is never asked for a stream: the stream handler writes one from a body
palm_Convert ==
    Table("palm", "panic", "refuse", "refuse", "refuse", "refuse", "refuse", "null")
palmStreamHandler == Plain({"palm"}, "estimated", "estimated", "estimated", "estimated", "estimated")
palmHandler == Plain({"palm"}, "estimated", "estimated", "error", "error", "error")
palm_DoResponse(k, stream) == IF stream THEN palmStreamHandler ELSE palmHandler

mokaai_Convert ==
    Table("refuse", "panic", "refuse", "refuse", "refuse", "refuse", "embed", "null")
mokaEmbeddingHandler == Plain({"embed"}, "upstream", "zero", "zero", "error", "error")
mokaai_DoResponse(k, stream) == IF k = "embedding" THEN mokaEmbeddingHandler ELSE NoReader

ollama_Convert ==
    Table("ollama", "ollama", "refuse", "refuse", "refuse", "refuse", "oembed", "null")
\* the first chunk is written before the first line is parsed
ollamaStreamHandler == Stream({"ollama"}, "upstream", "zero", "zero", "late", "late", "zero")
ollamaChatHandler == Plain({"ollama"}, "upstream", "zero", "zero", "error", "error")
ollamaEmbeddingHandler == Plain({"oembed"}, "upstream", "zero", "error", "error", "error")
ollama_DoResponse(k, stream) ==
    CASE k = "embedding" -> ollamaEmbeddingHandler
      [] OTHER -> IF stream THEN ollamaStreamHandler ELSE ollamaChatHandler

replicate_Convert ==
    Table("refuse", "refuse", "refuse", "refuse", "replicate", "refuse", "refuse", "refuse")
replicate_DoResponse(k, stream) == Plain({"replicate"}, "zero", "zero", "error", "error", "error")

(* v: the kind of model (Init of vertex/adaptor.go). *)
vertex_Convert(v) ==
    Table(CASE v = "claude" -> "claude" [] v = "oss" -> "openai"
            [] v = "imagen" -> "gimage" [] OTHER -> "gemini",
          "claude", "gemini", "refuse",
          IF v = "imagen" THEN "gimage" ELSE "refuse", "refuse", "refuse", "null")
vertex_DoResponse(k, stream, v) ==
    CASE v = "claude" -> claude_DoResponse(k, stream)
      [] v = "oss" -> IF stream THEN OaiStreamHandler ELSE OpenaiHandler
      [] v \in {"plain", "imagen"} /\ k \in {"gemini", "gembed"} ->
            IF stream THEN GeminiTextGenerationStreamHandler ELSE GeminiTextGenerationHandler
      [] v = "imagen" /\ k \notin {"gemini", "gembed"} /\ ~stream -> GeminiImageHandler
      [] OTHER -> IF stream THEN GeminiChatStreamHandler ELSE GeminiChatHandler

(* v: a Nova model, a Nova model with an API key, or a Claude model. *)
aws_Convert(v) ==
    Table(IF v \in {"nova", "nova_key"} THEN "nova" ELSE "claude",
          "claude", "refuse", "refuse", "refuse", "refuse", "refuse", "null")
awsStreamHandler == Stream({"claude"}, "upstream", "estimated", "error", "error", "late", "estimated")
awsHandler == Plain({"claude"}, "upstream", "zero", "error", "error", "error")
handleNovaRequest == Plain({"nova"}, "upstream", "zero", "panic", "error", "error")
aws_DoResponse(k, stream, v) ==
    CASE v = "nova_key" -> claude_DoResponse(k, stream)
      [] v = "nova" /\ k \in {"chat", "completions"} -> handleNovaRequest
      [] OTHER -> IF stream THEN awsStreamHandler ELSE awsHandler
=============================================================================
