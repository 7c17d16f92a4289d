----------------------------- MODULE MCAccounts -----------------------------
(* The parts of access to the system, one of them in a behaviour: the rows  *)
(* of users and their copies, the proofs of identity of one account, the    *)
(* sign-in through other services, and a rate limiter.                      *)
EXTENDS UserAccess, OAuthBinding, SignIn

CONSTANTS
    Extra,                  \* users that only take part without Redis
    Threads, Max, Duration, MaxSeconds

VARIABLES
    part,
    kind, clock, list, tokens, last, count, until, th, log

limitVars == <<kind, clock, list, tokens, last, count, until, th, log>>

Limit == INSTANCE RateLimit WITH now <- clock, MaxTime <- MaxSeconds

Parts == {"rows", "guess", "stepup", "builtin", "custom", "limit"}

MCInit ==
    /\ part \in Parts /\ Init /\ InitSign /\ OAuthInit /\ Limit!Init
    /\ part # "rows" => ~ redis
    /\ part # "limit" => kind = "memory"

\* Bounds: with Redis there is one user next to root, who is not changed; without Redis
\* nothing is relayed.
RowsBound ==
    IF redis THEN /\ \A x \in Extra : user'[x] = None
                  /\ edit'[Root] = edit[Root] /\ calls' <= 2
    ELSE UNCHANGED <<req, token>> /\ access' = {}

\* One part guesses codes from two browsers, the other verifies in one.
OneDevice == CHOOSE b \in Devices : TRUE
SignBound ==
    IF part = "guess"
    THEN mailed' = Unset /\ now' <= 1 /\ \A b \in Devices : sess'[b].ceremony = Unset /\ sess'[b].verified = Unset
    ELSE guesses' = 0 /\ \A b \in Devices \ {OneDevice} : sess'[b] = sess[b]

OAuthBound ==
    IF part = "builtin" THEN admin' = 0
    ELSE \A b \in Browsers : callback'[b].prov # Builtin

MCNext ==
    \/ /\ part = "rows" /\ Next /\ RowsBound
       /\ UNCHANGED <<part, signVars, oauthVars, limitVars>>
    \/ /\ part \in {"guess", "stepup"} /\ NextSign /\ SignBound
       /\ UNCHANGED <<part, vars, oauthVars, limitVars>>
    \/ /\ part \in {"builtin", "custom"} /\ OAuthNext /\ OAuthBound
       /\ UNCHANGED <<part, vars, signVars, limitVars>>
    \/ /\ part = "limit" /\ Limit!Next
       /\ UNCHANGED <<part, vars, signVars, oauthVars>>

MCSpec ==
    MCInit /\ [][MCNext]_<<part, vars, signVars, oauthVars, limitVars>> /\ Fairness

\* See RateLimit: no limiter admits more than its window allows.
AdmittedBound == Limit!AdmittedBound
=============================================================================
