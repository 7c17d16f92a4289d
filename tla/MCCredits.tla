------------------------------ MODULE MCCredits ------------------------------
(* How quota is credited and stored, in three parts, one of which a         *)
(* behaviour is about: "store" is the quota column with its batch maps and  *)
(* its Redis copy (QuotaStore), "orders" the payment of orders (TopUp),     *)
(* "grants" redemption codes, check-ins and invitation quota (Redemption).  *)
EXTENDS QuotaStore, TopUp, Redemption

VARIABLE part

\* A debit and a credit.
SmallDeltas == {-1, 2}

MCInit ==
    /\ part \in {"store", "orders", "grants"}
    /\ Init /\ OrderInit /\ GrantInit
    /\ part # "store" => cache = Absent /\ callNode = [c \in Calls |-> CHOOSE n \in Nodes : TRUE]
    /\ part # "grants" => ~ sqlite

MCNext ==
    \/ part = "store" /\ Next /\ UNCHANGED <<part, topUpVars, grantVars>>
    \/ part = "orders" /\ OrderNext /\ UNCHANGED <<part, vars, grantVars>>
    \/ part = "grants" /\ GrantNext /\ UNCHANGED <<part, vars, topUpVars>>

\* Outside their part the fair actions of a component are not enabled.
MCSpec ==
    MCInit /\ [][MCNext]_<<part, vars, topUpVars, grantVars>> /\ Fairness /\ OrderFairness
=============================================================================
