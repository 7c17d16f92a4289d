----------------------------- MODULE TaskSubmit -----------------------------
(***************************************************************************)
(* The submission of an asynchronous task: RelayTask (controller/relay)    *)
(* tries channels in turn, RelayTaskSubmit (relay/relay_task) prices and   *)
(* sends one attempt, and the ten adaptors under relay/channel/task say    *)
(* what a request becomes, how an answer is read and what a status of the  *)
(* provider means to the poll.                                             *)
(*                                                                         *)
(* One user submits one task.  A channel stands for its platform.  The     *)
(* ratios a price is multiplied by are rationals <<numerator,              *)
(* denominator>>; the quota is cut to an integer after each of them.       *)
(***************************************************************************)
EXTENDS Integers, Sequences, FiniteSets, SequencesExt

CONSTANTS
    Routes,       \* the platforms of the channels of the model, a set of sets: one is chosen
    TaskRequests, \* the requests the client may make
    BasePrice,    \* the quota of the model for one call
    Funds,        \* the quota of the user
    RetryTimes,   \* common.RetryTimes
    MaxPolls      \* bound: rounds of the poll

VARIABLES
    sub,      \* the submission: RelayInfo and the loop of RelayTask
    purse,    \* the user's quota
    provider, \* what the provider has: the path and the seconds it was asked for, its status
    taskRow,      \* the row of the task, or NoRow
    route,    \* the channels of the model
    polls

tsvars == <<sub, purse, provider, taskRow, route, polls>>

\* A request: the model's name, the prompt, the count of images and whether they are
\* inline data, the single image, the durations under their three names (0: absent,
\* -1: not a number), the size, a video in the metadata, metadata that does not decode,
\* the task a remix starts from.
Plain == [model |-> "sora-2-pro", prompt |-> TRUE, images |-> 0, inline |-> FALSE, image |-> FALSE,
          seconds |-> 0, duration |-> 0, meta |-> 0, size |-> "", video |-> FALSE, badmeta |-> FALSE,
          remix |-> FALSE]

\* The task a remix starts from: its channel, the seconds and the ratios it was billed.
Origin == [platform |-> "sora", seconds |-> 3, ratios |-> [seconds |-> <<3, 1>>, size |-> <<1, 1>>]]

NoRow == [platform |-> "", action |-> "", quota |-> 0, id |-> "", status |-> ""]
NoProvider == [platform |-> "", path |-> "", seconds |-> 0, image |-> FALSE, status |-> ""]
NoRatios == [x \in {} |-> <<1, 1>>]

\* GenRelayInfo
InitSubmit ==
    /\ route \in Routes
    /\ sub = [pc |-> "new", req |-> Plain, on |-> "", retry |-> 0, action |-> "", locked |-> "",
              ratios |-> NoRatios, quota |-> 0, held |-> -1, sent |-> NoProvider,
              err |-> [status |-> 0, local |-> FALSE], id |-> ""]
    /\ purse = Funds /\ provider = NoProvider /\ taskRow = NoRow /\ polls = 0

-----------------------------------------------------------------------------
(* What every adaptor shares.                                              *)

\* What an adaptor makes of a request: whether it validates, whether its body can be
\* built, the action, the path, whether the body has an image, the seconds it asks for.
Body(valid, built, action, path, image, seconds) ==
    [valid |-> valid, built |-> built, action |-> action, path |-> path, image |-> image,
     seconds |-> seconds]

\* DefaultInt, and the first of several that is set
First(a, b) == IF a > 0 THEN a ELSE b

\* TaskSubmitReq.HasImage: after validation the single image counts as the list.
HasImage(r) == r.images > 0 \/ r.image

\* ValidateBasicTaskRequest
BasicValid(r) == r.prompt

\* ValidateMultipartDirect
DirectValid(r) ==
    /\ r.prompt /\ r.model # ""
    /\ r.model = "sora-2-pro" => r.size \in {"", "720x1280", "1792x1024"}

DirectAction(r) == IF r.images > 0 THEN "generate" ELSE "textGenerate"

\* An answer of the provider is what a client may get from it; an error has a status code
\* and is local or not.  TaskErrorWrapper, TaskErrorWrapperLocal.
Err(status, local) == [status |-> status, local |-> local]
OK == Err(0, FALSE)

-----------------------------------------------------------------------------
(* The adaptors: XBody is BuildRequestBody with the URL and the validation,*)
(* XRatios is EstimateBilling, XAnswer reads the answer to the submission, *)
(* XResult the answer to the poll.                                         *)

\* sizeToResolution and ProcessAliOtherRatios, for the sizes of the requests
AliResolution(model, size) ==
    IF model = "wan2.5-t2v-preview" /\ size = "1920*1080"
    THEN [seconds |-> <<1, 1>>, resolution |-> <<10, 3>>] ELSE [seconds |-> <<1, 1>>]

\* convertToAliRequest: t2v models take sizes with a star alone, and have a default.
AliBody(r) ==
    LET t2v == r.model = "wan2.5-t2v-preview"
        star == r.size = "1920*1080"
    IN  Body(DirectValid(r),
             /\ ~ (t2v /\ r.size # "" /\ ~ star)
             /\ r.duration > 0 \/ r.seconds # -1
             /\ ~ r.badmeta,
             DirectAction(r), "video-synthesis", r.images > 0,
             First(r.meta, First(r.duration, First(r.seconds, 5))))

\* What is sent is what is billed; a request that cannot be converted has no ratios.
AliRatios(r) ==
    LET size == IF r.model = "wan2.5-t2v-preview" /\ r.size = "" THEN "1920*1080" ELSE r.size
    IN  IF AliBody(r).built
        THEN [AliResolution(r.model, size) EXCEPT !["seconds"] = <<AliBody(r).seconds, 1>>]
        ELSE NoRatios

\* The code of a refusal is the 200 of the answer.
AliAnswer(a) == CASE a = "refused" -> Err(200, FALSE) [] a = "noid" -> Err(500, FALSE) [] OTHER -> OK

AliResult(s) ==
    CASE s = "running" -> "IN_PROGRESS" [] s = "done" -> "SUCCESS" [] s = "failed" -> "FAILURE"
      [] OTHER -> "QUEUED"

\* BuildRequestBody with convertToRequestPayload
JimengBody(r) ==
    Body(BasicValid(r), ~ r.badmeta, "generate", "CVSync2AsyncSubmitTask", HasImage(r),
         IF r.meta > 0 THEN r.meta ELSE IF r.duration = 10 THEN 10 ELSE 5)

JimengAnswer(a) == IF a = "refused" THEN Err(500, FALSE) ELSE OK

\* A status other than in_queue and done is no status.
JimengResult(s) ==
    CASE s = "queued" -> "QUEUED" [] s = "done" -> "SUCCESS" [] s = "error" -> "FAILURE" [] OTHER -> ""

\* BuildRequestURL and, with the action of the row, FetchTask
KlingPath(action) == IF action = "generate" THEN "image2video" ELSE "text2video"

\* The list of images is not read.  DoRequest takes the action BuildRequestBody has set
\* into the context before the URL is made of it.
KlingBody(r) ==
    LET action == IF r.image THEN "generate" ELSE "textGenerate"
    IN  Body(BasicValid(r), ~ r.badmeta, action, KlingPath(action), r.image,
             First(r.meta, First(r.duration, 5)))

KlingAnswer(a) == IF a = "refused" THEN Err(400, TRUE) ELSE OK

KlingResult(s) ==
    CASE s = "queued" -> "SUBMITTED" [] s = "running" -> "IN_PROGRESS" [] s = "done" -> "SUCCESS"
      [] s = "failed" -> "FAILURE" [] OTHER -> "unparsed"

\* Two images are the first and the last frame, more are references.
ViduAction(r) ==
    LET n == IF r.images = 0 /\ r.image THEN 1 ELSE r.images
    IN  CASE n = 0 -> "textGenerate" [] n = 1 -> "generate"
          [] n = 2 -> "firstTailGenerate" [] OTHER -> "referenceGenerate"

ViduPath(action) ==
    CASE action = "generate" -> "img2video" [] action = "firstTailGenerate" -> "start-end2video"
      [] action = "referenceGenerate" -> "reference2video" [] OTHER -> "text2video"

ViduBody(r) ==
    Body(BasicValid(r), ~ r.badmeta, ViduAction(r), ViduPath(ViduAction(r)), HasImage(r),
         First(r.meta, First(r.duration, 5)))

ViduAnswer(a) == IF a = "refused" THEN Err(400, TRUE) ELSE OK

ViduResult(s) ==
    CASE s = "queued" -> "SUBMITTED" [] s = "running" -> "IN_PROGRESS" [] s = "done" -> "SUCCESS"
      [] s = "failed" -> "FAILURE" [] OTHER -> "unparsed"

\* The seconds override the metadata; the duration is not read.
DoubaoBody(r) ==
    Body(BasicValid(r), ~ r.badmeta, "generate", "tasks", HasImage(r), First(r.seconds, First(r.meta, 5)))

\* hasVideoInMetadata, GetVideoInputRatio: a discount
DoubaoRatios(r) ==
    IF r.video /\ r.model = "doubao-seedance-2-0-260128" THEN [video_input |-> <<28, 46>>] ELSE NoRatios

DoubaoAnswer(a) == IF a \in {"refused", "noid"} THEN Err(500, FALSE) ELSE OK

DoubaoResult(s) ==
    CASE s = "queued" -> "QUEUED" [] s = "done" -> "SUCCESS" [] s = "failed" -> "FAILURE"
      [] OTHER -> "IN_PROGRESS"

HailuoBody(r) ==
    Body(BasicValid(r), ~ r.badmeta, "generate", "video_generation", FALSE,
         First(r.meta, First(r.duration, 6)))

HailuoAnswer(a) == IF a = "refused" THEN Err(400, FALSE) ELSE OK

\* The failure of an error answer is overwritten when its status is none of the known.
HailuoResult(s) ==
    CASE s = "done" -> "SUCCESS" [] s = "failed" -> "FAILURE" [] OTHER -> "IN_PROGRESS"

\* ResolveVeoDuration, ResolveVeoResolution, VeoResolutionRatio
VeoRatios(r) ==
    [seconds |-> <<First(r.meta, First(r.duration, First(r.seconds, 8))), 1>>,
     resolution |-> IF r.size = "3840x2160" /\ r.model = "veo-3.1-generate-preview"
                    THEN <<3, 2>> ELSE <<1, 1>>]

\* The seconds are billed and not sent: without metadata and duration the provider makes
\* its 8.  An image that is no inline data is left out.
GeminiBody(r) ==
    Body(BasicValid(r), ~ r.badmeta, IF HasImage(r) /\ r.inline THEN "generate" ELSE "textGenerate",
         "predictLongRunning", HasImage(r) /\ r.inline, First(r.meta, First(r.duration, 8)))

GeminiAnswer(a) == IF a \in {"refused", "noid"} THEN Err(500, FALSE) ELSE OK

GeminiResult(s) ==
    CASE s = "done" -> "SUCCESS" [] s \in {"failed", "error"} -> "FAILURE" [] OTHER -> "IN_PROGRESS"

\* The same over the credentials of a service account
VertexBody(r) == GeminiBody(r)

VertexAnswer(a) == IF a \in {"refused", "noid"} THEN Err(500, FALSE) ELSE OK

VertexResult(s) ==
    CASE s = "done" -> "SUCCESS" [] s \in {"failed", "error"} -> "FAILURE" [] OTHER -> "IN_PROGRESS"

\* The body of the client with the model replaced; a remix goes to the path of its task.
SoraBody(r) ==
    IF r.remix THEN Body(r.prompt, TRUE, "remixGenerate", "remix", FALSE, Origin.seconds)
    ELSE Body(DirectValid(r), TRUE, DirectAction(r), "videos", r.images > 0,
              First(r.seconds, First(r.duration, 4)))

SoraRatios(r) ==
    IF r.remix THEN NoRatios
    ELSE [seconds |-> <<First(r.seconds, First(r.duration, 4)), 1>>,
          size |-> IF r.size = "1792x1024" THEN <<5, 3>> ELSE <<1, 1>>]

SoraAnswer(a) == IF a \in {"refused", "noid"} THEN Err(500, FALSE) ELSE OK

SoraResult(s) ==
    CASE s = "queued" -> "QUEUED" [] s = "running" -> "IN_PROGRESS" [] s = "done" -> "SUCCESS"
      [] s = "failed" -> "FAILURE" [] OTHER -> ""

\* actionValidate and BuildRequestURL, for lyrics; the poll of Suno asks for many tasks at
\* once and does not come here.
SunoBody(r) == Body(r.prompt, TRUE, "LYRICS", "suno/submit/LYRICS", FALSE, 0)

SunoAnswer(a) == IF a = "refused" THEN Err(500, FALSE) ELSE OK

\* GetTaskAdaptor
AdaptorBody(p, r) ==
    CASE p = "ali" -> AliBody(r) [] p = "jimeng" -> JimengBody(r) [] p = "kling" -> KlingBody(r)
      [] p = "vidu" -> ViduBody(r) [] p = "doubao" -> DoubaoBody(r) [] p = "hailuo" -> HailuoBody(r)
      [] p = "gemini" -> GeminiBody(r) [] p = "vertex" -> VertexBody(r) [] p = "sora" -> SoraBody(r)
      [] p = "suno" -> SunoBody(r)

\* Adaptors without an estimate embed BaseBilling.
EstimateBilling(p, r) ==
    CASE p = "ali" -> AliRatios(r) [] p = "doubao" -> DoubaoRatios(r) [] p = "sora" -> SoraRatios(r)
      [] p \in {"gemini", "vertex"} -> VeoRatios(r) [] OTHER -> NoRatios

DoResponse(p, a) ==
    IF a = "unreadable" THEN Err(500, FALSE)
    ELSE CASE p = "ali" -> AliAnswer(a) [] p = "jimeng" -> JimengAnswer(a) [] p = "kling" -> KlingAnswer(a)
           [] p = "vidu" -> ViduAnswer(a) [] p = "doubao" -> DoubaoAnswer(a)
           [] p = "hailuo" -> HailuoAnswer(a) [] p = "gemini" -> GeminiAnswer(a)
           [] p = "vertex" -> VertexAnswer(a) [] p = "sora" -> SoraAnswer(a)
           [] p = "suno" -> SunoAnswer(a)

ParseTaskResult(p, s) ==
    CASE p = "ali" -> AliResult(s) [] p = "jimeng" -> JimengResult(s) [] p = "kling" -> KlingResult(s)
      [] p = "vidu" -> ViduResult(s) [] p = "doubao" -> DoubaoResult(s) [] p = "hailuo" -> HailuoResult(s)
      [] p = "gemini" -> GeminiResult(s) [] p = "vertex" -> VertexResult(s) [] p = "sora" -> SoraResult(s)
      [] p = "suno" -> "unparsed"

\* FetchTask: the path that is asked, for the adaptors whose path depends on the action.
FetchPath(p, action, path) == IF p = "kling" THEN KlingPath(action) ELSE path

-----------------------------------------------------------------------------
(* RelayTask and RelayTaskSubmit.                                          *)

\* ResolveOriginTask: a remix is bound to the channel of its task and presets its ratios.
Arrive ==
    /\ sub.pc = "new"
    /\ \E r \in TaskRequests :
          sub' = [sub EXCEPT !.pc = "select", !.req = r,
                             !.locked = IF r.remix THEN Origin.platform ELSE "",
                             !.ratios = IF r.remix THEN Origin.ratios ELSE NoRatios]
    /\ UNCHANGED <<purse, provider, taskRow, route, polls>>

\* getChannel, or the locked channel; without one the submission ends in a local error.
Select ==
    /\ sub.pc = "select"
    /\ \/ \E p \in IF sub.locked # "" THEN {sub.locked} ELSE route :
             sub' = [sub EXCEPT !.pc = "price", !.on = p]
       \/ sub.locked = "" /\ sub' = [sub EXCEPT !.pc = "failed", !.err = Err(500, TRUE)]
    /\ UNCHANGED <<purse, provider, taskRow, route, polls>>

\* The ratios of the attempt before are still there.
PriceRatios_Kept(p, r) ==
    LET e == EstimateBilling(p, r)
    IN  [k \in DOMAIN sub.ratios \cup DOMAIN e |-> IF k \in DOMAIN e THEN e[k] ELSE sub.ratios[k]]

\* ModelPriceHelperPerCall builds the price anew, then the estimate is added: AddOtherRatio
\* leaves out what is not positive.
PriceRatios(p, r) ==
    LET e == EstimateBilling(p, r) IN [k \in {k \in DOMAIN e : e[k][1] > 0} |-> e[k]]

\* The quota is multiplied in the order the map is iterated in: any.
Quotas(ratios) ==
    LET vs == {k \in DOMAIN ratios : ratios[k][1] # ratios[k][2]}
    IN  {FoldLeft(LAMBDA q, k : (q * ratios[k][1]) \div ratios[k][2], BasePrice, s) : s \in SetToSeqs(vs)}

Fail(e) == [sub EXCEPT !.pc = "judge", !.err = e]

\* Validation, price, pre-consumption on the first attempt that comes so far, body.
Attempt ==
    LET b == AdaptorBody(sub.on, sub.req)
        rs == PriceRatios(sub.on, sub.req)
    IN  /\ sub.pc = "price"
        /\ IF ~ b.valid THEN sub' = Fail(Err(400, TRUE)) /\ UNCHANGED purse
           ELSE \E q \in Quotas(rs) :
                LET priced == [sub EXCEPT !.ratios = rs, !.quota = q, !.action = b.action]
                IN  IF sub.held = -1 /\ q > purse
                    THEN sub' = [priced EXCEPT !.pc = "judge", !.err = Err(403, FALSE)] /\ UNCHANGED purse
                    ELSE /\ purse' = IF sub.held = -1 THEN purse - q ELSE purse
                         /\ sub' = [priced EXCEPT
                              !.held = IF sub.held = -1 THEN q ELSE @,
                              !.pc = IF b.built THEN "sent" ELSE "judge",
                              !.err = IF b.built THEN @ ELSE Err(500, FALSE),
                              !.sent = IF b.built THEN [NoProvider EXCEPT !.platform = sub.on, !.path = b.path,
                                                          !.seconds = b.seconds, !.image = b.image] ELSE @]
        /\ UNCHANGED <<provider, taskRow, route, polls>>

\* DoRequest, a status other than 200, DoResponse.
Answer ==
    /\ sub.pc = "sent"
    /\ \/ \E s \in {400, 429, 500} : sub' = Fail(Err(s, FALSE)) /\ UNCHANGED provider
       \/ \E a \in {"ok", "refused", "noid", "unreadable"} :
             LET e == DoResponse(sub.on, a)
             IN  /\ sub' = IF e = OK THEN [sub EXCEPT !.pc = "settle", !.id = IF a = "ok" THEN "t" ELSE ""]
                           ELSE Fail(e)
                 /\ provider' = IF a = "ok" THEN [sub.sent EXCEPT !.status = "queued"] ELSE provider
    /\ UNCHANGED <<purse, taskRow, route, polls>>

\* Whether the error lets the next channel be tried.
ShouldRetryTask(e) ==
    \/ e.status \in {429, 307} \/ e.status \div 100 = 5
    \/ e.status \notin {400, 408} /\ ~ e.local /\ e.status \div 100 # 2

\* shouldRetryTaskRelay, and the loop
Judge ==
    /\ sub.pc = "judge"
    /\ sub' = IF RetryTimes - sub.retry > 0 /\ ShouldRetryTask(sub.err)
              THEN [sub EXCEPT !.pc = "select", !.retry = @ + 1] ELSE [sub EXCEPT !.pc = "failed"]
    /\ UNCHANGED <<purse, provider, taskRow, route, polls>>

\* The deferred Billing.Refund
GiveBack ==
    /\ sub.pc = "failed"
    /\ purse' = IF sub.held = -1 THEN purse ELSE purse + sub.held
    /\ sub' = [sub EXCEPT !.pc = "end", !.held = -1]
    /\ UNCHANGED <<provider, taskRow, route, polls>>

\* SettleBilling: the delta between the attempt that was taken and the first one.
SubmitDelta(quota, held) == quota - held

\* SettleBilling, InitTask, Insert; a failing insertion is logged.
SettleAndInsert ==
    /\ sub.pc = "settle"
    /\ purse' = purse - SubmitDelta(sub.quota, sub.held)
    /\ sub' = [sub EXCEPT !.pc = "end"]
    /\ taskRow' = [platform |-> sub.on, action |-> sub.action, quota |-> sub.quota, id |-> sub.id,
               status |-> "NOT_START"]
    /\ UNCHANGED <<provider, route, polls>>

-----------------------------------------------------------------------------
(* The provider and the poll.                                              *)

ProviderMoves ==
    /\ provider.status \in {"queued", "running", "unknown"}
    /\ \E s \in {"running", "done", "failed", "unknown"} : s # provider.status /\ provider' = [provider EXCEPT !.status = s]
    /\ UNCHANGED <<sub, purse, taskRow, route, polls>>

\* A task the provider does not know, because the row has no number of it, is an error.
Status == IF taskRow.id = "" THEN "error" ELSE provider.status

\* updateVideoSingleTask: an answer that does not parse is left for the next round, one
\* without a status fails the task, a failure gives the quota of the row back.
Poll ==
    LET s == ParseTaskResult(taskRow.platform, Status)
    IN  /\ taskRow.status \notin {"", "SUCCESS", "FAILURE"} /\ polls < MaxPolls /\ polls' = polls + 1
        /\ IF s = "unparsed" THEN UNCHANGED <<taskRow, purse>>
           ELSE /\ taskRow' = [taskRow EXCEPT !.status = IF s = "" THEN "FAILURE" ELSE s]
                /\ purse' = IF s \in {"", "FAILURE"} THEN purse + taskRow.quota ELSE purse
        /\ UNCHANGED <<sub, provider, route>>

NextSubmit ==
    Arrive \/ Select \/ Attempt \/ Answer \/ Judge \/ GiveBack \/ SettleAndInsert \/ ProviderMoves \/ Poll

SpecSubmit == InitSubmit /\ [][NextSubmit]_tsvars

-----------------------------------------------------------------------------
(* Properties.                                                             *)

\* What a task of these seconds costs where the provider is paid by the second.
PerSecond == {"ali", "sora", "gemini", "vertex"}
Rated(p, r, seconds) ==
    [EstimateBilling(p, r) EXCEPT !["seconds"] = <<seconds, 1>>]

\* However many channels of however many platforms were tried before, the user has paid
\* for what the channel that took the task was asked for - the seconds in its body, not
\* those of an earlier attempt - and nothing when the submission or the task failed.
\* Left out are remixes, and Veo requests that name their seconds in "seconds" alone,
\* which are billed and not sent.
PricedAsSent ==
    (sub.pc = "end" /\ ~ sub.req.remix) =>
        IF taskRow = NoRow \/ taskRow.status = "FAILURE" THEN purse = Funds
        ELSE \/ Funds - purse \in
                   IF taskRow.platform \in PerSecond
                   THEN Quotas(Rated(taskRow.platform, sub.req, sub.sent.seconds))
                   ELSE Quotas(EstimateBilling(taskRow.platform, sub.req))
             \/ taskRow.platform \in {"gemini", "vertex"} /\ sub.req.meta = 0 /\ sub.req.duration = 0

\* A task is asked for at the path it was sent to, whose kind is that of the body: an
\* action left over from the validation, or from an attempt on another platform, would
\* look for an image task among the text tasks.
RoutedAsBuilt ==
    (taskRow # NoRow /\ provider # NoProvider) =>
        /\ FetchPath(taskRow.platform, taskRow.action, provider.path) = provider.path
        /\ taskRow.platform = "kling" => (provider.path = "image2video" <=> provider.image)
        /\ taskRow.platform = "vidu" => (provider.path = "text2video" <=> ~ provider.image)

(* Whatever channels, and kinds of channels, a submission went through, the  *)
(* user has paid for what the accepting one was asked, and the task is looked *)
(* for where that channel put it.                                             *)
TaskPaysAsServed == PricedAsSent /\ RoutedAsBuilt

=============================================================================
