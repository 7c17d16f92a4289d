----------------------------- MODULE UsagePrice -----------------------------
(***************************************************************************)
(* What one answer of a Claude upstream costs, from the tokens it reports to *)
(* the quota that PostTextConsumeQuota settles, and what it costs on a        *)
(* second gateway that reaches the first one as its upstream.  The same       *)
(* tokens are counted in two ways: Anthropic's prompt tokens leave cached     *)
(* tokens out, OpenAI's include them.                                         *)
(* Prices are whole numbers of 1/Unit quota per token.                        *)
(***************************************************************************)
EXTENDS Integers, FiniteSets

CONSTANTS Tokens,       \* the token counts of an answer that are tried
          Prices        \* the price settings that are tried

VARIABLES stage,    \* "price", "answer", "start", "ended", "settled", "forwarded"
          price,    \* PriceData, the setting it came from and the estimate of prompt tokens
          tok,      \* the tokens the upstream really spent
          usage,    \* claudeInfo.Usage
          done,     \* claudeInfo.Done
          final,    \* GetFinalRequestRelayFormat when the answer is settled
          quota,    \* what the first gateway settled
          told,     \* the usage the second gateway reads
          next      \* what the second gateway settled

uvars == <<stage, price, tok, usage, done, final, quota, told, next>>

Unit == 20
NoUsage == [prompt |-> 0, completion |-> 0, cached |-> 0, creation |-> 0, w5 |-> 0, w1 |-> 0,
            semantic |-> "", source |-> ""]

-----------------------------------------------------------------------------
(* Prices. *)

\* A user group's own ratio for the group in use goes before the group's ratio.
HandleGroupRatio(s) == IF s.special >= 0 THEN s.special ELSE s.group

\* The quota to hold, and whether the model is free: then no session is opened.
ModelPriceHelper(s, promptTokens) ==
    LET group == HandleGroupRatio(s)
        free == \/ group = 0
                \/ IF s.usePrice THEN s.modelPrice = 0 ELSE s.modelRatio = 0
    IN  [usePrice |-> s.usePrice, modelPrice |-> s.modelPrice, 
         modelRatio |-> IF s.usePrice THEN 0 ELSE s.modelRatio,
         group |-> group, completion |-> 100, cache |-> 2, w5 |-> 25,
         w1 |-> (25 * 8) \div 5,                  \* claudeCacheCreation1hMultiplier = 6 / 3.75
         free |-> free,
         hold |-> CASE free -> 0
                    [] ~free /\ s.usePrice -> s.modelPrice * group
                    [] OTHER -> (promptTokens + s.maxTokens) * s.modelRatio * group]

\* decimal.Round(0): half away from zero.
Round(n) == IF n >= 0 THEN (2 * n + Unit) \div (2 * Unit) ELSE -((2 * (-n) + Unit) \div (2 * Unit))

usageSemanticFromUsage_ByFormat(u, f) == IF f = "claude" THEN "anthropic" ELSE "openai"

usageSemanticFromUsage(u, f) ==
    IF u.semantic # "" THEN u.semantic ELSE IF f = "claude" THEN "anthropic" ELSE "openai"

isLegacyClaudeDerivedOpenAIUsage(u, f) ==
    f # "claude" /\ u.source = "" /\ u.semantic = "" /\ (u.w5 > 0 \/ u.w1 > 0)

Nonneg(n) == IF n < 0 THEN 0 ELSE n

\* Left out: the charges for built-in tools, images and audio, which are added, or taken out
\* of the prompt tokens, without regard to how the upstream counts.
\* Cache writes: one price, or split by lifetime with the rest at the plain price.
CacheCreationQuota(p, u, exclusive) ==
    IF exclusive THEN Nonneg(u.creation - u.w5 - u.w1) * p.w5 + u.w5 * p.w5 + u.w1 * p.w1
    ELSE u.creation * p.w5

calculateTextQuotaSummary(p, u, f, openRouter) ==
    LET exclusive == usageSemanticFromUsage(u, f) = "anthropic" \/ isLegacyClaudeDerivedOpenAIUsage(u, f)
        reduced == openRouter /\ usageSemanticFromUsage(u, f) = "anthropic"
        prompt == IF reduced THEN u.prompt - u.cached - u.creation ELSE u.prompt
        base == IF exclusive THEN prompt ELSE prompt - u.cached - u.creation
        ratio == p.modelRatio * p.group
        sum == ratio * (base * Unit + u.cached * p.cache + CacheCreationQuota(p, u, exclusive)
                        + u.completion * p.completion)
        charged == CASE p.usePrice -> p.modelPrice * p.group
                     [] ~p.usePrice /\ ratio # 0 /\ sum <= 0 -> 1
                     [] OTHER -> Round(sum)
    IN  CASE u.prompt + u.completion = 0 -> 0
          [] u.prompt + u.completion # 0 /\ ratio # 0 /\ charged = 0 -> 1
          [] OTHER -> charged

-----------------------------------------------------------------------------
(* The answer of the upstream. *)

InitUsage ==
    /\ \E s \in Prices : price = [s |-> s]
    /\ tok \in Tokens
    /\ final \in {"claude", "openai"}     \* an earlier attempt may have left it
    /\ stage = "price" /\ usage = NoUsage /\ done = FALSE
    /\ quota = 0 /\ told = NoUsage /\ next = 0

Priced ==
    /\ stage = "price"
    /\ stage' = "answer" /\ price' = ModelPriceHelper(price.s, tok.input)
    /\ UNCHANGED <<tok, usage, done, final, quota, told, next>>

\* A whole answer.
HandleClaudeResponseData ==
    /\ stage = "answer"
    /\ usage' = [prompt |-> tok.input, completion |-> tok.output, cached |-> tok.read,
                 creation |-> tok.w5 + tok.w1, w5 |-> tok.w5, w1 |-> tok.w1,
                 semantic |-> "anthropic", source |-> ""]
    /\ done' = TRUE /\ stage' = "ended"
    /\ UNCHANGED <<price, tok, final, quota, told, next>>

\* A stream.  message_start sets every field; the output count is only begun.
\* Some upstreams leave the input counts out of it, some do not split the writes.
MessageStart(counts, split) ==
    /\ stage = "answer"
    /\ LET n(x) == IF counts THEN x ELSE 0 IN
       usage' = [prompt |-> n(tok.input), completion |-> 1, cached |-> n(tok.read),
                 creation |-> n(tok.w5 + tok.w1),
                 w5 |-> IF split THEN n(tok.w5) ELSE 0, w1 |-> IF split THEN n(tok.w1) ELSE 0,
                 semantic |-> "anthropic", source |-> ""]
    /\ stage' = "start"
    /\ UNCHANGED <<price, tok, done, final, quota, told, next>>

\* message_delta replaces the counts it reports, and only those.
MessageDelta(counts, split) ==
    /\ stage = "start" /\ ~done
    /\ LET new(x, old) == IF counts /\ x > 0 THEN x ELSE old IN
       usage' = [usage EXCEPT !.prompt = new(tok.input, @), !.cached = new(tok.read, @),
                              !.creation = new(tok.w5 + tok.w1, @),
                              !.w5 = IF split THEN new(tok.w5, @) ELSE @,
                              !.w1 = IF split THEN new(tok.w1, @) ELSE @,
                              !.completion = IF tok.output > 0 THEN tok.output ELSE @]
    /\ done' = TRUE
    /\ UNCHANGED <<stage, price, tok, final, quota, told, next>>

\* The stream is over: what is missing, and only that, is estimated.
HandleStreamFinalResponse(estimate) ==
    /\ stage = "start"
    /\ usage' = IF usage.completion = 0 \/ ~done
                THEN [usage EXCEPT !.completion = IF @ = 0 \/ (~done /\ estimate > @) THEN estimate ELSE @,
                                   !.prompt = IF @ = 0 THEN tok.input ELSE @]
                ELSE usage
    /\ stage' = "ended"
    /\ UNCHANGED <<price, tok, done, final, quota, told, next>>

PostTextConsumeQuota ==
    /\ stage = "ended"
    /\ quota' = calculateTextQuotaSummary(price, usage, final, FALSE)
    /\ stage' = "settled"
    /\ UNCHANGED <<price, tok, usage, done, final, told, next>>

-----------------------------------------------------------------------------
(* The client of the first gateway is a second one. *)

\* The writes that no lifetime is known for count as short-lived.
NormalizeCacheCreationSplit(total, w5, w1) == <<w5 + Nonneg(total - w5 - w1), w1>>

cacheCreationTokensForOpenAIUsage(u) == IF u.w5 + u.w1 = 0 \/ u.creation > u.w5 + u.w1 THEN u.creation ELSE u.w5 + u.w1

buildOpenAIStyleUsageFromClaudeUsage(u) ==
    LET split == NormalizeCacheCreationSplit(u.creation, u.w5, u.w1) IN
    [u EXCEPT !.w5 = split[1], !.w1 = split[2],
              !.prompt = u.prompt + u.cached + cacheCreationTokensForOpenAIUsage(u),
              !.semantic = "openai", !.source = "anthropic"]

\* The patched message_delta carries every count, so that Claude's handler there reads the same.
buildMessageDeltaPatchUsage(u) ==
    LET split == NormalizeCacheCreationSplit(u.creation, u.w5, u.w1) IN
    [u EXCEPT !.w5 = split[1], !.w1 = split[2]]

\* via: the channel type of the second gateway.  A plain OpenAI client library in between
\* drops the fields OpenAI does not have ("stripped").
Forward(via) ==
    /\ stage = "settled" /\ ~price.free
    /\ LET open == buildOpenAIStyleUsageFromClaudeUsage(usage)
           bare == [open EXCEPT !.w5 = 0, !.w1 = 0, !.semantic = "", !.source = ""]
       IN  /\ told' = CASE via = "claude" -> buildMessageDeltaPatchUsage(usage)
                        [] via = "openai" -> open
                        [] via \in {"stripped", "openrouter"} -> bare
           /\ next' = calculateTextQuotaSummary(price, told',
                         IF via \in {"claude", "openrouter"} THEN "claude" ELSE "openai", via = "openrouter")
    /\ stage' = "forwarded"
    /\ UNCHANGED <<price, tok, usage, done, final, quota>>

NextUsage ==
    \/ Priced
    \/ HandleClaudeResponseData
    \/ \E counts, split \in BOOLEAN : MessageStart(counts, split) \/ MessageDelta(counts, split)
    \/ \E estimate \in 0..3 : HandleStreamFinalResponse(estimate)
    \/ PostTextConsumeQuota
    \/ \E via \in {"claude", "openai", "stripped", "openrouter"} : Forward(via)

-----------------------------------------------------------------------------
\* The price of the tokens spent, straight from the settings.
Worth ==
    LET p == price
        ratio == p.modelRatio * p.group
        sum == ratio * (tok.input * Unit + tok.read * p.cache + tok.w5 * p.w5 + tok.w1 * p.w1
                        + tok.output * p.completion)
    IN  CASE p.usePrice -> p.modelPrice * p.group
          [] OTHER -> IF ratio # 0 /\ Round(sum) = 0 THEN 1 ELSE Round(sum)

\* The upstream reported every count at least once.
Reported ==
    /\ done /\ usage.prompt = tok.input /\ usage.cached = tok.read /\ usage.creation = tok.w5 + tok.w1

(* The same answer costs the same: read whole or as a stream, whatever       *)
(* format an earlier attempt left in RelayInfo, and again on a second        *)
(* gateway, whichever way it counts cached tokens.  Long-lived cache writes  *)
(* are cheaper than they should be where their split was lost on the way,    *)
(* never dearer.  A free model is not charged, and nothing else is free.     *)
PriceKept ==
    /\ stage \in {"settled", "forwarded"} /\ Reported =>
          /\ quota <= Worth
          /\ usage.w1 = tok.w1 => quota = Worth
          /\ price.free => quota = 0
          /\ ~price.free => quota > 0
    /\ stage = "forwarded" =>
          /\ next <= quota
          /\ usage.w1 = 0 => next = quota
=============================================================================
