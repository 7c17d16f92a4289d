---------------------------- MODULE MCSettlement ----------------------------
(* What requests pay, in five parts, one of which a behaviour is about:       *)
(* "session" is the billing session of the requests of one user               *)
(* (BillingSession), "usage" the price of a text answer (UsagePrice),         *)
(* "realtime" a websocket session (Realtime), "tables" and "settings" the     *)
(* options that prices are read from, in two processes (OptionStore): two     *)
(* price tables, and a price table beside a registered setting.               *)
EXTENDS MCBillingSession, Realtime

CONSTANTS Tokens, Prices, Nodes, Admins, MaxUpdates, MaxFaults

VARIABLES part,
          stage, price, tok, usage, done, final, charged, told, next,
          db, optionMap, setting, req, sync, updates, faults

usageVars == <<stage, price, tok, usage, done, final, charged, told, next>>
optionVars == <<db, optionMap, setting, req, sync, updates, faults>>

\* Input, output and cached tokens small and large against the price of one token.
MCTokens == [input : {0, 2, 7}, output : {1, 3}, read : {0, 5}, w5 : {0, 4}, w1 : {0, 3}]
MCPrices == [usePrice : BOOLEAN, modelPrice : {0, 3}, modelRatio : {0, 1, 3}, group : {0, 1},
             special : {-1, 0, 2}, maxTokens : {4}]

Us == INSTANCE UsagePrice WITH quota <- charged
Tb == INSTANCE OptionStore WITH Rows <- <<"ModelRatio", "ImageRatio">>
St == INSTANCE OptionStore WITH Rows <- <<"ModelRatio", "payment_setting.amount_discount">>

MCInit ==
    /\ part \in {"session", "usage", "realtime", "tables", "settings"}
    /\ Init /\ Us!InitUsage /\ InitRealtime
    /\ IF part = "settings" THEN St!InitOptions ELSE Tb!InitOptions
    /\ part # "session" => ~subActive
    /\ part # "usage" => /\ final = "claude" /\ tok = CHOOSE k \in Tokens : TRUE
                         /\ price = [s |-> CHOOSE p \in Prices : TRUE]
    /\ part # "realtime" => ~usePrice
    /\ part # "realtime" \/ usePrice => purse = CHOOSE q \in Quotas : TRUE

\* Processes and administrators are interchangeable until the first update: let it be
\* the first administrator's, on the first process.
FirstByFirst ==
    updates' = 1 /\ updates = 0 =>
        \A a \in Admins : req'[a].pc # "idle" =>
            a = (CHOOSE x \in Admins : TRUE) /\ req'[a].node = CHOOSE x \in Nodes : TRUE

MCNext ==
    \/ part = "session" /\ Next /\ UNCHANGED <<part, usageVars, rtvars, optionVars>>
    \/ part = "usage" /\ Us!NextUsage /\ UNCHANGED <<part, vars, rtvars, optionVars>>
    \/ part = "realtime" /\ NextRealtime /\ UNCHANGED <<part, vars, usageVars, optionVars>>
    \/ /\ part = "tables" /\ Tb!NextOptions /\ FirstByFirst
       /\ UNCHANGED <<part, vars, usageVars, rtvars>>
    \/ /\ part = "settings" /\ St!NextOptions /\ FirstByFirst
       /\ UNCHANGED <<part, vars, usageVars, rtvars>>

allVars == <<part, vars, usageVars, rtvars, optionVars>>
InRealtime == part = "realtime" /\ UNCHANGED <<part, vars, usageVars, optionVars>>
InTables == part = "tables" /\ UNCHANGED <<part, vars, usageVars, rtvars>>
InSettings == part = "settings" /\ UNCHANGED <<part, vars, usageVars, rtvars>>

\* An administrator's request in progress, and a process's round of SyncOptions.
Served(a) ==
    \/ InTables /\ (Tb!Apply(a) \/ \E ok \in BOOLEAN : Tb!Save(a, ok))
    \/ InSettings /\ (St!Apply(a) \/ \E ok \in BOOLEAN : St!Save(a, ok))
Synced(n) ==
    \/ InTables /\ (Tb!SyncRead(n) \/ Tb!SyncRow(n))
    \/ InSettings /\ (St!SyncRead(n) \/ St!SyncRow(n))

\* Goroutines run (for sessions: BillingSession's Fairness), and a read of a closed
\* websocket returns; nobody need send or close.  Requests for options are served and the
\* loops of SyncOptions go on.
MCSpec ==
    /\ MCInit /\ [][MCNext]_allVars /\ Fairness
    /\ WF_allVars(Handler /\ InRealtime)
    /\ WF_allVars((ClientWork \/ (~open /\ ClientReader)) /\ InRealtime)
    /\ WF_allVars((TargetWork \/ (~open /\ TargetReader)) /\ InRealtime)
    /\ \A a \in Admins : WF_allVars(Served(a))
    /\ \A n \in Nodes : WF_allVars(Synced(n))

\* See UsagePrice: the same answer costs the same, however it is read and counted.
PriceKept == Us!PriceKept

(* Each part comes to rest: every billing session is decided and refunded,    *)
(* its retries included; a realtime session that one side has left ends for   *)
(* everybody; and every process comes to use the options the table holds.     *)
SettlesDown ==
    <>[](CASE part = "session" -> Decided
           [] part = "realtime" -> Left => Over
           [] part = "tables" -> Tb!InForce
           [] part = "settings" -> St!InForce
           [] OTHER -> TRUE)
=============================================================================
