-------------------------- MODULE MCBillingSession --------------------------
(* Small instances of BillingSession for TLC.                               *)
EXTENDS BillingSession, TLC

CONSTANTS r1, r2

\* r1 takes the default preference, r2 is a task that prefers the wallet.
TwoPref == (r1 :> "subscription_first") @@ (r2 :> "wallet_first")
TwoKind == (r1 :> "relay") @@ (r2 :> "task")

\* In the refund run both use the subscription.
SubPref == [r \in {r1, r2} |-> "subscription_only"]
RelayKind == [r \in Requests |-> "relay"]

=============================================================================
