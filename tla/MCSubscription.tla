--------------------------- MODULE MCSubscription ---------------------------
(* Small instances of Subscription for TLC.                                 *)
EXTENDS Subscription, TLC

CONSTANTS pro, day, o1, o2, free, vip

\* pro upgrades the user and resets every two units from its start; day resets on
\* even times, does not upgrade and may be bought once.
MCUpgrade == (pro :> vip) @@ (day :> NoGroup)
MCDuration == (pro :> 3) @@ (day :> 3)
MCPeriod == (pro :> 2) @@ (day :> 2)
MCTotal == (pro :> 3) @@ (day :> 2)
MCMaxPurchase == (pro :> 0) @@ (day :> 1)
MCOrderPlan == [o \in {o1} |-> pro]

\* Both orders are for the upgrading plan.
ProTwice == [o \in {o1, o2} |-> pro]

=============================================================================
