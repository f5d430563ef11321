------------------------------- MODULE SignIn -------------------------------
(***************************************************************************)
(* The sign-in of one account, console user or staff: password, lockout    *)
(* after repeated failures, second factor and its enrolment.  Every call   *)
(* reads the account's row, decides from what it read, and updates the row *)
(* by id later; calls interleave.                                          *)
(***************************************************************************)
EXTENDS Naturals, FiniteSets

CONSTANTS
  Calls,       \* calls that may be in progress at once
  MaxFailures, \* MAX_FAILURES
  MaxCount,    \* bound: a lock expires only while the count is below it
  MaxSecrets   \* bound: second-factor secrets minted

ASSUME SignInAssumption ==
  /\ IsFiniteSet(Calls) /\ Calls # {}
  /\ MaxFailures \in Nat \ {0} /\ MaxCount \in Nat /\ MaxSecrets \in Nat
  /\ MaxFailures <= MaxCount

VARIABLES
  scope,           \* staff or console: which table the row is in
  failed, locked,  \* failedLoginCount; lockedUntil lies in the future
  secret, enabled, \* mfaSecret, 0 when null; mfaEnabledAt is set
  minted,          \* secrets minted so far
  session,         \* somebody holds an access token for the account
  challenged,      \* somebody holds a live MFA challenge
  pc,              \* the next step of each call
  count, key, mfa, \* what a call read: failedLoginCount, mfaSecret, mfaEnabledAt
  guesses,         \* failures recorded since the last reset or expiry
  proven,          \* secrets some activation verified a code against
  torn             \* the last activation switched on another secret than it verified

vars == <<scope, failed, locked, secret, enabled, minted, session, challenged,
          pc, count, key, mfa, guesses, proven, torn>>
lockVars == <<failed, locked, guesses>>
mfaVars  == <<secret, enabled, minted, proven, torn>>
heldVars == <<session, challenged>>

TypeOK ==
  /\ scope \in {"staff", "console"}
  /\ failed \in 0 .. MaxCount
  /\ locked \in BOOLEAN
  /\ secret \in 0 .. MaxSecrets
  /\ enabled \in BOOLEAN
  /\ minted \in 0 .. MaxSecrets
  /\ session \in BOOLEAN /\ challenged \in BOOLEAN
  /\ pc \in [Calls -> {"idle", "password", "code", "activate"}]
  /\ count \in [Calls -> 0 .. MaxCount]
  /\ key \in [Calls -> 0 .. MaxSecrets]
  /\ mfa \in [Calls -> BOOLEAN]
  /\ guesses \in Nat
  /\ proven \subseteq 1 .. MaxSecrets
  /\ torn \in BOOLEAN

Init ==
  /\ scope \in {"staff", "console"}
  /\ failed = 0 /\ locked = FALSE /\ guesses = 0
  /\ secret = 0 /\ enabled = FALSE /\ minted = 0 /\ proven = {} /\ torn = FALSE
  /\ session = FALSE /\ challenged = FALSE
  /\ pc = [c \in Calls |-> "idle"]
  /\ count = [c \in Calls |-> 0]
  /\ key = [c \in Calls |-> 0]
  /\ mfa = [c \in Calls |-> FALSE]

-----------------------------------------------------------------------------
(* Steps of a call.  A definition named like the next one with a suffix is
   that definition with one mistake in it, to show which property notices. *)

Read(c, step) ==
  /\ pc[c] = "idle"
  /\ pc' = [pc EXCEPT ![c] = step]
  /\ count' = [count EXCEPT ![c] = failed]
  /\ key' = [key EXCEPT ![c] = secret]
  /\ mfa' = [mfa EXCEPT ![c] = enabled]

Finish(c) ==
  /\ pc' = [pc EXCEPT ![c] = "idle"]
  /\ count' = [count EXCEPT ![c] = 0]
  /\ key' = [key EXCEPT ![c] = 0]
  /\ mfa' = [mfa EXCEPT ![c] = FALSE]

LocksLate(n) == n > MaxFailures
Locks(n) == n >= MaxFailures

\* recordStaffFailure and recordTenantUserFailure: the count that was read,
\* plus one; below the limit lockedUntil becomes null again.
RecordFailure(c) ==
  /\ failed' = count[c] + 1
  /\ locked' = Locks(count[c] + 1)
  /\ guesses' = guesses + 1

ResetFailures == failed' = 0 /\ locked' = FALSE /\ guesses' = 0

CallDies(c) ==
  /\ pc[c] # "idle"
  /\ Finish(c)
  /\ UNCHANGED <<scope, lockVars, mfaVars, heldVars>>

-----------------------------------------------------------------------------
(* Password and code *)

\* A locked account is refused before the password is looked at.
Login(c) ==
  /\ ~locked
  /\ Read(c, "password")
  /\ UNCHANGED <<scope, lockVars, mfaVars, heldVars>>

\* verifyMfa: the challenge is a token; the row is read again.
VerifyMfa(c) ==
  /\ challenged
  /\ enabled /\ secret # 0
  /\ ~locked
  /\ Read(c, "code")
  /\ UNCHANGED <<scope, lockVars, mfaVars, heldVars>>

Wrong(c) ==
  /\ pc[c] \in {"password", "code"}
  /\ RecordFailure(c)
  /\ Finish(c)
  /\ UNCHANGED <<scope, mfaVars, heldVars>>

\* With MFA active when the row was read, a challenge instead of a token;
\* neither for a deactivated account, whose failures are reset all the same.
RightPassword(c) ==
  /\ pc[c] = "password"
  /\ ResetFailures
  /\ Finish(c)
  /\ \/ UNCHANGED heldVars
     \/ mfa[c] /\ challenged' = TRUE /\ UNCHANGED session
     \/ ~mfa[c] /\ session' = TRUE /\ UNCHANGED challenged
  /\ UNCHANGED <<scope, mfaVars>>

RightCode(c) ==
  /\ pc[c] = "code"
  /\ ResetFailures
  /\ session' = TRUE
  /\ Finish(c)
  /\ UNCHANGED <<scope, mfaVars, challenged>>

-----------------------------------------------------------------------------
(* Enrolment in the second factor, by whoever holds a token *)

SetupKeepsEnabled ==
  /\ session
  /\ minted < MaxSecrets
  /\ minted' = minted + 1
  /\ secret' = minted + 1
  /\ torn' = FALSE
  /\ UNCHANGED <<scope, lockVars, enabled, proven, heldVars, pc, count, key, mfa>>

\* A new secret, and MFA is off until a code proves it.
SetupMfa ==
  /\ session
  /\ minted < MaxSecrets
  /\ minted' = minted + 1
  /\ secret' = minted + 1
  /\ enabled' = FALSE
  /\ torn' = FALSE
  /\ UNCHANGED <<scope, lockVars, proven, heldVars, pc, count, key, mfa>>

\* activateMfa reads the secret and verifies a code against it; a code that
\* does not match ends the call without a trace.
ActivateMfa(c) ==
  /\ session
  /\ secret # 0
  /\ Read(c, "activate")
  /\ UNCHANGED <<scope, lockVars, mfaVars, heldVars>>

\* The update sets mfaEnabledAt alone, whatever the secret is by now.
Activated(c) ==
  /\ pc[c] = "activate"
  /\ enabled' = TRUE
  /\ proven' = proven \cup {key[c]}
  /\ torn' = (secret # key[c])
  /\ Finish(c)
  /\ UNCHANGED <<scope, lockVars, secret, minted, heldVars>>

\* For console users whose tenant does not require MFA.
DisableMfa ==
  /\ scope = "console" /\ session
  /\ secret' = 0 /\ enabled' = FALSE /\ torn' = FALSE
  /\ UNCHANGED <<scope, lockVars, minted, proven, heldVars, pc, count, key, mfa>>

\* resetMfa, by an administrator, for staff who lost their authenticator.
ResetMfa ==
  /\ scope = "staff"
  /\ secret' = 0 /\ enabled' = FALSE /\ torn' = FALSE
  /\ ResetFailures
  /\ UNCHANGED <<scope, minted, proven, heldVars, pc, count, key, mfa>>

-----------------------------------------------------------------------------
(* Time, and writes of other parts of the system *)

\* LOCK_MINUTES pass; the count stays.
LockExpires ==
  /\ locked /\ failed < MaxCount
  /\ locked' = FALSE
  /\ guesses' = 0
  /\ UNCHANGED <<scope, failed, mfaVars, heldVars, pc, count, key, mfa>>

\* unlockUser, a reactivation, or a password set through a link.
Unlock ==
  /\ failed # 0 \/ locked
  /\ ResetFailures
  /\ UNCHANGED <<scope, mfaVars, heldVars, pc, count, key, mfa>>

TokensLapse ==
  /\ session' \in {session, FALSE} /\ challenged' \in {challenged, FALSE}
  /\ UNCHANGED <<scope, lockVars, mfaVars, pc, count, key, mfa>>

Call(c) ==
  \/ Login(c) \/ VerifyMfa(c) \/ Wrong(c) \/ RightPassword(c) \/ RightCode(c)
  \/ ActivateMfa(c) \/ Activated(c)
  \/ CallDies(c)

Next ==
  \/ \E c \in Calls : Call(c)
  \/ SetupMfa \/ DisableMfa \/ ResetMfa
  \/ LockExpires \/ Unlock \/ TokensLapse

Spec == Init /\ [][Next]_vars

-----------------------------------------------------------------------------
(* Properties *)

\* A correct count locks after MaxFailures failures.  This one is read, held
\* and written back, so a slow call can set it back to what that call read and
\* even undo a lock; but each time it must have read a higher count.  With n
\* calls the failures that go unpunished number at most as many as the ways to
\* interleave n slow calls with the MaxFailures counts, less one: MaxFailures
\* itself when calls do not overlap, 20 for five failures and two calls.
Ways[p \in (0 .. MaxFailures) \X (0 .. Cardinality(Calls))] ==
  IF p[1] = 0 \/ p[2] = 0 THEN 1
  ELSE Ways[<<p[1] - 1, p[2]>>] + Ways[<<p[1], p[2] - 1>>]
GuessesBounded == guesses <= Ways[<<MaxFailures, Cardinality(Calls)>>] - 1

\* An account whose second factor is on was shown a code for the very secret it
\* holds, so its owner can pass verifyMfa; unless its last activation verified
\* another secret, one that a setup, a reset or a disabling had replaced.
EnabledIsProven == enabled /\ ~torn => secret \in proven

\* What a step may rely on: a call that checks a password read an account that
\* was not locked, so its count has room for one failure more, and a call that
\* activates read a secret.
SignInInv ==
  /\ TypeOK
  /\ ~locked => failed < MaxCount
  /\ \A c \in Calls : pc[c] \in {"password", "code"} => count[c] < MaxCount
  /\ \A c \in Calls : pc[c] = "activate" => key[c] # 0
  /\ EnabledIsProven
=============================================================================
