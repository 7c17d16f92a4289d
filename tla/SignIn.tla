------------------------------- MODULE SignIn -------------------------------
(***************************************************************************)
(* One account and the ways to prove who one is: password, TOTP and backup *)
(* codes with their failure counter and lock, passkeys, the step-up        *)
(* verification that opens the routes behind SecureVerificationRequired,   *)
(* and the mailed codes that reset the password.                           *)
(*                                                                         *)
(* A browser sends one request at a time; its session is a cookie.  The    *)
(* TOTP handlers read the TwoFA row, check the code against the copy and   *)
(* save the whole copy, so requests of two browsers interleave between.    *)
(* DB.Save inserts the row again when it is gone (gorm 2).                 *)
(***************************************************************************)
EXTENDS Integers, FiniteSets

CONSTANTS
    Devices,        \* the browsers that are used
    MaxFailAttempts, LockoutDuration,
    PasskeyReadyTimeout, SecureVerificationTimeout,
    CodeValid,      \* VerificationValidMinutes
    MaxTime,        \* bound on the clock
    MaxSetups,      \* bound on the TwoFA rows that are created
    MaxGuesses,     \* bound on wrong codes
    Unset

ASSUME SignInAssumption ==
    /\ MaxFailAttempts \in Nat \ {0} /\ LockoutDuration \in Nat \ {0}
    /\ PasskeyReadyTimeout \in Nat \ {0} /\ SecureVerificationTimeout \in Nat
    /\ IsFiniteSet(Devices) /\ Devices # {} /\ Unset \notin Int /\ Unset \notin Devices
    /\ Unset \notin [id : Nat, on : BOOLEAN, fails : Nat, lock : Int \cup {Unset}]

VARIABLES
    now,
    twofa,      \* the TwoFA row: [id, on, fails, lock], or Unset
    setups,     \* number of rows created; the id of the last one
    backup,     \* an unused backup code is left
    passkey,    \* the account has a passkey
    sess,       \* [Devices]: the values in the session
    run,        \* [Devices]: the request under way: [pc, copy, for]
    mailed,     \* the reset code in verificationMap: time of registration, or Unset
    guesses,    \* history: wrong codes examined since the last reset of the counter
    proof       \* [Devices]: history: time of the last second factor shown

signVars == <<now, twofa, setups, backup, passkey, sess, run, mailed, guesses, proof>>

NoSession == [user |-> FALSE, pending |-> FALSE, ready |-> Unset, verified |-> Unset,
              ceremony |-> Unset]
Idle == [pc |-> "idle", copy |-> Unset, for |-> "none"]

InitSign ==
    /\ now = 0 /\ twofa = Unset /\ setups = 0 /\ backup = FALSE /\ passkey = FALSE
    /\ sess = [b \in Devices |-> NoSession]
    /\ run = [b \in Devices |-> Idle]
    /\ mailed = Unset /\ guesses = 0 /\ proof = [b \in Devices |-> Unset]

IsTwoFAEnabled == twofa # Unset /\ twofa.on
IsLocked(row) == row.lock # Unset /\ now < row.lock
Free(b) == run[b].pc = "idle"
SignedIn(b) == Free(b) /\ sess[b].user

-----------------------------------------------------------------------------
(* Password and session.                                                   *)

\* setupLogin sets the keys of the account and keeps what else the session holds.
setupSession(b) == sess' = [sess EXCEPT ![b].user = TRUE, ![b].pending = FALSE]

Login(b) ==
    /\ Free(b) /\ ~ sess[b].user
    /\ IF IsTwoFAEnabled THEN sess' = [sess EXCEPT ![b].pending = TRUE] ELSE setupSession(b)
    /\ UNCHANGED <<now, twofa, setups, backup, passkey, run, mailed, guesses, proof>>

EndSession(b) ==
    /\ SignedIn(b) /\ sess' = [sess EXCEPT ![b] = NoSession]
    /\ UNCHANGED <<now, twofa, setups, backup, passkey, run, mailed, guesses, proof>>

-----------------------------------------------------------------------------
(* The TwoFA row.                                                          *)

\* A row that is not enabled is replaced; Create refuses a second one.
Setup2FA(b) ==
    /\ SignedIn(b) /\ ~ IsTwoFAEnabled /\ setups < MaxSetups
    /\ setups' = setups + 1
    /\ twofa' = [id |-> setups + 1, on |-> FALSE, fails |-> 0, lock |-> Unset]
    /\ backup' = TRUE
    /\ UNCHANGED <<now, passkey, sess, run, mailed, guesses, proof>>

Enable2FA(b) ==
    /\ SignedIn(b) /\ twofa # Unset /\ ~ twofa.on
    /\ twofa' = [twofa EXCEPT !.on = TRUE, !.fails = 0, !.lock = Unset]
    /\ guesses' = 0
    /\ UNCHANGED <<now, setups, backup, passkey, sess, run, mailed, proof>>

\* DisableTwoFA deletes the row and the backup codes.
DisableTwoFA == twofa' = Unset /\ backup' = FALSE

AdminDisable2FA ==
    /\ twofa # Unset /\ DisableTwoFA
    /\ UNCHANGED <<now, setups, passkey, sess, run, mailed, guesses, proof>>

\* The handlers read the row; a copy that is locked ends the request.
ReadTwoFA(b, for) ==
    /\ Free(b) /\ IsTwoFAEnabled /\ ~ IsLocked(twofa)
    /\ run' = [run EXCEPT ![b] = [pc |-> "check", copy |-> twofa, for |-> for]]
    /\ UNCHANGED <<now, twofa, setups, backup, passkey, sess, mailed, guesses, proof>>

Verify2FALogin(b) == sess[b].pending /\ ReadTwoFA(b, "login")
Disable2FA(b) == sess[b].user /\ ReadTwoFA(b, "disable")
RegenerateBackupCodes(b) == sess[b].user /\ ReadTwoFA(b, "regenerate")
UniversalVerify(b) == sess[b].user /\ ReadTwoFA(b, "stepup")

\* TwoFA.Update: the whole copy; a missing row is inserted, unless another has taken the user.
Update(row) ==
    twofa' = IF twofa = Unset \/ twofa.id = row.id THEN row ELSE twofa

\* The copy is counted and never locked.
IncrementFailedAttempts_Never(b) ==
    /\ run[b].pc = "check" /\ guesses < MaxGuesses
    /\ guesses' = guesses + 1
    /\ Update([run[b].copy EXCEPT !.fails = @ + 1])
    /\ run' = [run EXCEPT ![b] = Idle]
    /\ UNCHANGED <<now, setups, backup, passkey, sess, mailed, proof>>

\* A wrong code: the copy's counter goes up, and at the limit the copy is locked.  What is
\* no TOTP code is tried as a backup code, without a second count.
IncrementFailedAttempts(b) ==
    LET fails == run[b].copy.fails + 1
    IN  /\ run[b].pc = "check" /\ guesses < MaxGuesses
        /\ guesses' = guesses + 1
        /\ Update([run[b].copy EXCEPT !.fails = fails,
                      !.lock = IF fails >= MaxFailAttempts THEN now + LockoutDuration ELSE @])
        /\ run' = [run EXCEPT ![b] = Idle]
        /\ UNCHANGED <<now, setups, backup, passkey, sess, mailed, proof>>

\* A right code clears the counter and the lock.
ValidateTOTPAndUpdateUsage(b) ==
    /\ run[b].pc = "check"
    /\ Update([run[b].copy EXCEPT !.fails = 0, !.lock = Unset])
    /\ guesses' = 0 /\ proof' = [proof EXCEPT ![b] = now]
    /\ run' = [run EXCEPT ![b].pc = "valid"]
    /\ UNCHANGED <<now, setups, backup, passkey, sess, mailed>>

\* ValidateBackupCode finds an unused code, and saves it as used in a second step.
ValidateBackupCode(b) ==
    /\ run[b].pc = "check" /\ backup /\ run[b].for # "regenerate"
    /\ run' = [run EXCEPT ![b].pc = "backup"]
    /\ UNCHANGED <<now, twofa, setups, backup, passkey, sess, mailed, guesses, proof>>
ValidateBackupCodeAndUpdateUsage(b) ==
    /\ run[b].pc = "backup"
    /\ backup' = FALSE
    /\ Update([run[b].copy EXCEPT !.fails = 0, !.lock = Unset])
    /\ guesses' = 0 /\ proof' = [proof EXCEPT ![b] = now]
    /\ run' = [run EXCEPT ![b].pc = "valid"]
    /\ UNCHANGED <<now, setups, passkey, sess, mailed>>

\* setSecureVerificationSession.
setSecureVerificationSession(b) ==
    sess' = [sess EXCEPT ![b].ready = Unset, ![b].verified = now]

\* What the handler does once the code was right.
AfterValid(b) ==
    /\ run[b].pc = "valid" /\ run' = [run EXCEPT ![b] = Idle]
    /\ CASE run[b].for = "login" -> setupSession(b) /\ UNCHANGED <<twofa, backup>>
         [] run[b].for = "stepup" -> setSecureVerificationSession(b) /\ UNCHANGED <<twofa, backup>>
         [] run[b].for = "disable" -> DisableTwoFA /\ UNCHANGED sess
         [] run[b].for = "regenerate" -> backup' = TRUE /\ UNCHANGED <<twofa, sess>>
    /\ UNCHANGED <<now, setups, passkey, mailed, guesses, proof>>

-----------------------------------------------------------------------------
(* Passkeys.  A ceremony begins by saving its data in the session and ends *)
(* by taking them out.                                                     *)

SaveSessionData(b, kind) ==
    /\ sess' = [sess EXCEPT ![b].ceremony = kind]
    /\ UNCHANGED <<now, twofa, setups, backup, passkey, run, mailed, guesses, proof>>
PopSessionData(b, kind) == Free(b) /\ sess[b].ceremony = kind

PasskeyRegisterBegin(b) == SignedIn(b) /\ SaveSessionData(b, "register")
PasskeyRegisterFinish(b) ==
    /\ SignedIn(b) /\ PopSessionData(b, "register")
    /\ sess' = [sess EXCEPT ![b].ceremony = Unset] /\ passkey' = TRUE
    /\ UNCHANGED <<now, twofa, setups, backup, run, mailed, guesses, proof>>

PasskeyLoginBegin(b) == Free(b) /\ ~ sess[b].user /\ SaveSessionData(b, "login")
PasskeyLoginFinish(b) ==
    /\ PopSessionData(b, "login") /\ passkey
    /\ sess' = [sess EXCEPT ![b].ceremony = Unset, ![b].user = TRUE]
    /\ proof' = [proof EXCEPT ![b] = now]
    /\ UNCHANGED <<now, twofa, setups, backup, passkey, run, mailed, guesses>>

PasskeyVerifyBegin(b) == SignedIn(b) /\ passkey /\ SaveSessionData(b, "verify")
PasskeyVerifyFinish(b) ==
    /\ SignedIn(b) /\ passkey /\ PopSessionData(b, "verify")
    /\ sess' = [sess EXCEPT ![b].ceremony = Unset, ![b].ready = now, ![b].verified = Unset]
    /\ proof' = [proof EXCEPT ![b] = now]
    /\ UNCHANGED <<now, twofa, setups, backup, passkey, run, mailed, guesses>>

\* A ceremony whose answer is refused has used up its data.
CeremonyFails(b) ==
    /\ Free(b) /\ sess[b].ceremony # Unset /\ sess' = [sess EXCEPT ![b].ceremony = Unset]
    /\ UNCHANGED <<now, twofa, setups, backup, passkey, run, mailed, guesses, proof>>

Fresh(b) == now - sess[b].ready < PasskeyReadyTimeout

\* UniversalVerify with method "passkey": the marker is deleted before its age is looked at.
consumePasskeyReady(b) ==
    /\ SignedIn(b) /\ passkey /\ sess[b].ready # Unset
    /\ IF Fresh(b) THEN setSecureVerificationSession(b)
       ELSE sess' = [sess EXCEPT ![b].ready = Unset]
    /\ UNCHANGED <<now, twofa, setups, backup, passkey, run, mailed, guesses, proof>>

PasskeyDelete(b) ==
    /\ SignedIn(b) /\ passkey /\ passkey' = FALSE
    /\ UNCHANGED <<now, twofa, setups, backup, sess, run, mailed, guesses, proof>>
AdminResetPasskey ==
    /\ passkey /\ passkey' = FALSE
    /\ UNCHANGED <<now, twofa, setups, backup, sess, run, mailed, guesses, proof>>

-----------------------------------------------------------------------------
(* The gate of the protected routes.                                       *)

Open(b) == sess[b].verified # Unset /\ now - sess[b].verified < SecureVerificationTimeout

\* SecureVerificationRequired: a marker that is too old is removed.
SecureVerificationRequired(b) ==
    /\ SignedIn(b) /\ sess[b].verified # Unset /\ ~ Open(b)
    /\ sess' = [sess EXCEPT ![b].verified = Unset]
    /\ UNCHANGED <<now, twofa, setups, backup, passkey, run, mailed, guesses, proof>>

-----------------------------------------------------------------------------
(* The mailed reset code.                                                  *)

\* RegisterVerificationCodeWithKey: a new code replaces the old one.
SendPasswordResetEmail ==
    /\ mailed' = now
    /\ UNCHANGED <<now, twofa, setups, backup, passkey, sess, run, guesses, proof>>

\* VerifyCodeWithKey, then the new password, then DeleteKey.
ResetPassword(b) ==
    /\ Free(b) /\ mailed # Unset /\ now - mailed < CodeValid
    /\ run' = [run EXCEPT ![b] = [pc |-> "reset", copy |-> Unset, for |-> "reset"]]
    /\ UNCHANGED <<now, twofa, setups, backup, passkey, sess, mailed, guesses, proof>>
DeleteKey(b) ==
    /\ run[b].pc = "reset" /\ mailed' = Unset
    /\ run' = [run EXCEPT ![b] = Idle]
    /\ UNCHANGED <<now, twofa, setups, backup, passkey, sess, guesses, proof>>

-----------------------------------------------------------------------------
\* A lock that ends gives the guesser a new count.  Between the check of a right code and
\* the end of its request no unit of time passes.
Tick ==
    /\ \A b \in Devices : run[b].pc # "valid"
    /\ now < MaxTime /\ now' = now + 1
    /\ guesses' = IF twofa # Unset /\ twofa.lock = now + 1 THEN 0 ELSE guesses
    /\ UNCHANGED <<twofa, setups, backup, passkey, sess, run, mailed, proof>>

Codes(b) ==
    \/ Verify2FALogin(b) \/ Disable2FA(b) \/ RegenerateBackupCodes(b) \/ UniversalVerify(b)
    \/ IncrementFailedAttempts(b) \/ ValidateTOTPAndUpdateUsage(b)
    \/ ValidateBackupCode(b) \/ ValidateBackupCodeAndUpdateUsage(b) \/ AfterValid(b)

Passkeys(b) ==
    \/ PasskeyRegisterBegin(b) \/ PasskeyRegisterFinish(b) \/ PasskeyLoginBegin(b)
    \/ PasskeyLoginFinish(b) \/ PasskeyVerifyBegin(b) \/ PasskeyVerifyFinish(b)
    \/ CeremonyFails(b) \/ consumePasskeyReady(b) \/ PasskeyDelete(b)

NextSign ==
    \/ Tick \/ AdminDisable2FA \/ AdminResetPasskey \/ SendPasswordResetEmail
    \/ \E b \in Devices :
         \/ Login(b) \/ EndSession(b) \/ Setup2FA(b) \/ Enable2FA(b) \/ Codes(b) \/ Passkeys(b)
         \/ SecureVerificationRequired(b) \/ ResetPassword(b) \/ DeleteKey(b)

SpecSign == InitSign /\ [][NextSign]_signVars

-----------------------------------------------------------------------------
(* Properties.                                                             *)

\* Two browsers that save stale copies of the counter, and erase each other's lock, try no
\* more wrong codes before the lock holds than the copies let them: the counts that one
\* browser can take back shrink with every round.  One more is tried against the copy of
\* a row that was deleted and set up anew: it is not saved.
GuessesBounded ==
    Cardinality(Devices) <= 2 =>
        guesses <= MaxFailAttempts + (MaxFailAttempts * (MaxFailAttempts + 1)) \div 2 + 1

\* The gate of the protected routes is open only in a browser in which a second factor was
\* shown no longer ago than the two timeouts together allow.
StepUpFresh ==
    \A b \in Devices : Open(b) =>
        /\ proof[b] # Unset
        /\ now - proof[b] < PasskeyReadyTimeout + SecureVerificationTimeout

(* Guessing a code is bounded although its counter is saved from copies, and  *)
(* what needs a second factor had one a short while ago.                      *)
IdentityProved == GuessesBounded /\ StepUpFresh
=============================================================================
