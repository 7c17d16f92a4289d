---------------------------- MODULE MCTaskBilling ----------------------------
(* Small instances of TaskBilling for TLC.                                  *)
EXTENDS TaskBilling

CONSTANTS song, veo

\* Every task pre-consumed 2; veo turns out to cost 3, the song what was estimated.
MCQuota == [t \in Tasks |-> 2]
MCActual == [t \in Tasks |-> IF t = veo THEN 3 ELSE 0]

=============================================================================
