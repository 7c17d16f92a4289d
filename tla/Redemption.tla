----------------------------- MODULE Redemption -----------------------------
(***************************************************************************)
(* Grants to the wallet of one user that no payment provider takes part    *)
(* in: redemption codes (model/redemption.go), the daily check-in          *)
(* (model/checkin.go) and the transfer of invitation quota                 *)
(* (TransferAffQuotaToQuota).                                              *)
(*                                                                         *)
(* Redeem and TransferAffQuotaToQuota read the row they change with FOR    *)
(* UPDATE and hold it until they commit.  The administrator's              *)
(* UpdateRedemption reads a code, changes the copy and writes it back,     *)
(* status included, without a lock.  On SQLite the check-in is two         *)
(* statements, and takes the first one back itself when the second fails.  *)
(***************************************************************************)
EXTENDS Integers, FiniteSets, Sums

CONSTANTS
    Codes, Value,       \* redemption codes and what one is worth
    Callers,            \* concurrent requests of the user
    Award,              \* quota of a check-in
    InitAff, MinTransfer,
    MaxTime,            \* bound on the clock, in days
    MaxEdits,           \* bound on the administrator's calls
    MaxFails,           \* bound on failing statements
    Nothing             \* no row, no holder of a lock

\* Finitely many codes; amounts are not negative.
ASSUME GrantAssumption ==
    /\ IsFiniteSet(Codes) /\ Value \in Nat /\ Award \in Nat /\ InitAff \in Nat
    /\ MaxTime \in Nat \ {0} /\ Nothing \notin Callers

VARIABLES
    sqlite,     \* common.UsingSQLite
    now,
    code,       \* [Codes]: row of a code, or Nothing
    codeLock,   \* [Codes]: caller whose transaction holds the row, or Nothing
    quota, aff, \* columns of the user's row
    userLock,   \* caller whose transaction holds the user's row, or Nothing
    checkins,   \* rows of the table: days
    call,       \* [Callers]: the request running
    edit,       \* the copy UpdateRedemption works on, or Nothing
    edits, fails,
    redeemed,   \* history, [Codes]: number of redemptions
    revived,    \* history: codes whose status was written back from an old copy
    awards,     \* history: [days]: number of awards
    moved       \* history: invitation quota transferred

history == <<redeemed, revived, awards, moved>>
userRow == <<quota, aff, userLock>>
grantVars == <<sqlite, now, code, codeLock, userRow, checkins, call, edit, edits, fails, history>>

Days == 1 .. MaxTime
NoCall == [pc |-> "idle", code |-> Nothing, day |-> 0, amount |-> 0, read |-> 0]

GrantInit ==
    /\ sqlite \in BOOLEAN /\ now = 1 /\ code = [c \in Codes |-> Nothing] /\ codeLock = [c \in Codes |-> Nothing]
    /\ quota = 0 /\ aff = InitAff /\ userLock = Nothing
    /\ checkins = {} /\ call = [x \in Callers |-> NoCall]
    /\ edit = Nothing /\ edits = 0 /\ fails = 0
    /\ redeemed = [c \in Codes |-> 0] /\ revived = {}
    /\ awards = [d \in Days |-> 0] /\ moved = 0

Tick == now < MaxTime /\ now' = now + 1
        /\ UNCHANGED <<sqlite, code, codeLock, userRow, checkins, call, edit, edits, fails, history>>

\* A lock on the user's row makes other writers of that row wait.
UserFree == userLock = Nothing

-----------------------------------------------------------------------------
(* Codes.                                                                  *)

\* AddRedemption: an expiry is 0 (never) or not in the past.
AddRedemption(c, expiry) ==
    /\ code[c] = Nothing /\ redeemed[c] = 0 /\ (expiry = 0 \/ expiry >= now)
    /\ code' = [code EXCEPT ![c] = [status |-> "enabled", expiry |-> expiry]]
    /\ UNCHANGED <<sqlite, now, codeLock, userRow, checkins, call, edit, edits, fails, history>>

Redeemable(c) ==
    /\ code[c].status = "enabled"
    /\ code[c].expiry = 0 \/ code[c].expiry >= now

\* Redeem: the code is read with its row locked.
RedeemBegin(x, c) ==
    /\ call[x].pc = "idle" /\ code[c] # Nothing /\ codeLock[c] = Nothing
    /\ Redeemable(c)
    /\ codeLock' = [codeLock EXCEPT ![c] = x]
    /\ call' = [call EXCEPT ![x] = [NoCall EXCEPT !.pc = "redeem", !.code = c]]
    /\ UNCHANGED <<sqlite, now, code, userRow, checkins, edit, edits, fails, history>>

\* The quota and the status of the code, in one transaction.
RedeemCommit(x) ==
    LET c == call[x].code
    IN  /\ call[x].pc = "redeem" /\ UserFree
        /\ quota' = quota + Value
        /\ code' = [code EXCEPT ![c].status = "used"]
        /\ codeLock' = [codeLock EXCEPT ![c] = Nothing]
        /\ redeemed' = [redeemed EXCEPT ![c] = @ + 1]
        /\ call' = [call EXCEPT ![x] = NoCall]
        /\ UNCHANGED <<sqlite, now, aff, userLock, checkins, edit, edits, fails, revived, awards, moved>>

\* UpdateRedemption reads the code.
EditRead(c) ==
    /\ edit = Nothing /\ edits < MaxEdits /\ code[c] # Nothing
    /\ edit' = [code |-> c, row |-> code[c]] /\ edits' = edits + 1
    /\ UNCHANGED <<sqlite, now, code, codeLock, userRow, checkins, call, fails, history>>

\* ... and writes the copy back: with a new status (status_only), or with a new name,
\* quota and expiry and the status that was read.
EditWrite ==
    /\ edit # Nothing /\ code[edit.code] # Nothing /\ codeLock[edit.code] = Nothing
    /\ \/ \E s \in {"enabled", "disabled"} :
            code' = [code EXCEPT ![edit.code] = [edit.row EXCEPT !.status = s]]
       \/ \E e \in {0} \cup now .. MaxTime :
            code' = [code EXCEPT ![edit.code] = [edit.row EXCEPT !.expiry = e]]
    /\ revived' = IF code[edit.code].status = "used" THEN revived \cup {edit.code} ELSE revived
    /\ edit' = Nothing
    /\ UNCHANGED <<sqlite, now, codeLock, userRow, checkins, call, edits, fails, redeemed, awards, moved>>

\* The code was deleted between the two: the update matches no row.
EditGone ==
    /\ edit # Nothing /\ code[edit.code] = Nothing /\ edit' = Nothing
    /\ UNCHANGED <<sqlite, now, code, codeLock, userRow, checkins, call, edits, fails, history>>

Delete(S) ==
    /\ edits < MaxEdits /\ edits' = edits + 1
    /\ S # {} /\ \A c \in S : codeLock[c] = Nothing
    /\ code' = [c \in Codes |-> IF c \in S THEN Nothing ELSE code[c]]
    /\ UNCHANGED <<sqlite, now, codeLock, userRow, checkins, call, edit, fails, history>>

DeleteRedemption == \E c \in Codes : code[c] # Nothing /\ Delete({c})

DeleteInvalidRedemptions ==
    Delete({c \in Codes : /\ code[c] # Nothing
                          /\ code[c].status # "enabled" \/ code[c].expiry \in 1 .. (now - 1)})

-----------------------------------------------------------------------------
(* Check-in.                                                               *)

\* HasCheckedInToday; the day of the new row is read from the clock afterwards.
CheckinRead(x) ==
    /\ call[x].pc = "idle" /\ now \notin checkins
    /\ call' = [call EXCEPT ![x] = [NoCall EXCEPT !.pc = "checkin"]]
    /\ UNCHANGED <<sqlite, now, code, codeLock, userRow, checkins, edit, edits, fails, history>>

\* The award of day d reaches the wallet.
Grant(x, d) ==
    /\ UserFree /\ quota' = quota + Award
    /\ awards' = [awards EXCEPT ![d] = @ + 1]
    /\ call' = [call EXCEPT ![x] = NoCall]
    /\ UNCHANGED <<sqlite, now, code, codeLock, aff, userLock, edit, edits, fails, redeemed, revived, moved>>

\* The row and the award in one transaction; the unique index refuses a second row.
userCheckinWithTransaction(x) ==
    /\ ~ sqlite /\ call[x].pc = "checkin" /\ now \notin checkins
    /\ checkins' = checkins \cup {now}
    /\ Grant(x, now)

\* The unique index is missing.
CheckinCreate_NoIndex(x) ==
    /\ sqlite /\ call[x].pc = "checkin"
    /\ checkins' = checkins \cup {now}
    /\ call' = [call EXCEPT ![x].pc = "award", ![x].day = now]
    /\ UNCHANGED <<sqlite, now, code, codeLock, userRow, edit, edits, fails, history>>

\* The row alone.
CheckinCreate(x) ==
    /\ sqlite /\ call[x].pc = "checkin" /\ now \notin checkins
    /\ checkins' = checkins \cup {now}
    /\ call' = [call EXCEPT ![x].pc = "award", ![x].day = now]
    /\ UNCHANGED <<sqlite, now, code, codeLock, userRow, edit, edits, fails, history>>

CheckinAward(x) == call[x].pc = "award" /\ Grant(x, call[x].day) /\ UNCHANGED checkins

\* The award fails and the row is deleted again.
CheckinUndo(x) ==
    /\ call[x].pc = "award" /\ fails < MaxFails /\ fails' = fails + 1
    /\ checkins' = checkins \ {call[x].day}
    /\ call' = [call EXCEPT ![x] = NoCall]
    /\ UNCHANGED <<sqlite, now, code, codeLock, userRow, edit, edits, history>>

\* The insert is refused by the index.
CheckinRefused(x) ==
    /\ call[x].pc = "checkin" /\ now \in checkins
    /\ call' = [call EXCEPT ![x] = NoCall]
    /\ UNCHANGED <<sqlite, now, code, codeLock, userRow, checkins, edit, edits, fails, history>>

-----------------------------------------------------------------------------
(* Invitation quota.                                                       *)

\* The user's row is read and held.
TransferBegin(x, a) ==
    /\ call[x].pc = "idle" /\ a >= MinTransfer /\ UserFree /\ aff >= a
    /\ userLock' = x
    /\ call' = [call EXCEPT ![x] = [NoCall EXCEPT !.pc = "transfer", !.amount = a,
                                                  !.read = quota]]
    /\ UNCHANGED <<sqlite, now, code, codeLock, quota, aff, checkins, edit, edits, fails, history>>

\* The whole row is saved, the quota that was read included.
TransferCommit(x) ==
    LET a == call[x].amount
    IN  /\ call[x].pc = "transfer"
        /\ quota' = call[x].read + a /\ aff' = aff - a /\ moved' = moved + a
        /\ userLock' = Nothing /\ call' = [call EXCEPT ![x] = NoCall]
        /\ UNCHANGED <<sqlite, now, code, codeLock, checkins, edit, edits, fails,
                       redeemed, revived, awards>>

-----------------------------------------------------------------------------
AdminStep ==
    \/ \E c \in Codes : EditRead(c) \/ \E e \in {0} \cup Days : AddRedemption(c, e)
    \/ EditWrite \/ EditGone \/ DeleteRedemption \/ DeleteInvalidRedemptions

UserStep(x) ==
    \/ \E c \in Codes : RedeemBegin(x, c)
    \/ RedeemCommit(x)
    \/ CheckinRead(x) \/ userCheckinWithTransaction(x) \/ CheckinCreate(x)
    \/ CheckinAward(x) \/ CheckinUndo(x) \/ CheckinRefused(x)
    \/ \E a \in 1 .. InitAff : TransferBegin(x, a)
    \/ TransferCommit(x)

GrantNext == Tick \/ AdminStep \/ \E x \in Callers : UserStep(x)

GrantSpec == GrantInit /\ [][GrantNext]_grantVars

-----------------------------------------------------------------------------
(* Properties.                                                             *)

\* However redemptions, check-ins, transfers and their failures overlap, the wallet
\* holds the sum of what was granted, a day is awarded at most once, and a code is
\* redeemed at most once unless an administrator's edit wrote its status back.
GrantsAdd ==
    /\ quota = Value * SumOf(redeemed, Codes) + Award * SumOf(awards, Days) + moved
    /\ aff = InitAff - moved /\ aff >= 0
    /\ \A d \in Days : awards[d] <= 1
    /\ \A c \in Codes \ revived : redeemed[c] <= 1
=============================================================================
