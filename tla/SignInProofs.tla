---------------------------- MODULE SignInProofs ----------------------------
(***************************************************************************)
(* The sign-in counters, the bound on failures that go unpunished, and the *)
(* enrolment of the second factor, for any number of concurrent calls and  *)
(* any limit on failures.                                                  *)
(***************************************************************************)
EXTENDS SignIn, FiniteSetTheorems, TLAPS

\* A new account has no failures, no secret and nobody signing in.
LEMMA SignInInvInit == Init => SignInInv
<1> SUFFICES ASSUME Init PROVE SignInInv
  OBVIOUS
<1> USE SignInAssumption DEF SignInAssumption
<1>1. /\ scope \in {"staff", "console"}
      /\ failed \in 0 .. MaxCount /\ secret \in 0 .. MaxSecrets
      /\ minted \in 0 .. MaxSecrets /\ guesses \in Nat /\ proven \subseteq 1 .. MaxSecrets
      /\ failed < MaxCount
  BY DEF Init
<1>2. /\ pc \in [Calls -> {"idle", "password", "code", "activate"}]
      /\ count \in [Calls -> 0 .. MaxCount]
      /\ key \in [Calls -> 0 .. MaxSecrets]
      /\ \A c \in Calls : pc[c] = "idle"
  BY DEF Init
<1>3. /\ locked \in BOOLEAN /\ enabled \in BOOLEAN /\ session \in BOOLEAN
      /\ challenged \in BOOLEAN /\ torn \in BOOLEAN
      /\ mfa \in [Calls -> BOOLEAN] /\ EnabledIsProven
  BY Zenon DEF Init, EnabledIsProven
<1>4. TypeOK
  BY <1>1, <1>2, <1>3 DEF TypeOK
<1> QED BY <1>1, <1>2, <1>3, <1>4 DEF SignInInv

\* Reading the row copies values that are in range, and changes nothing else.
LEMMA ReadKeeps ==
  ASSUME SignInInv, NEW c \in Calls, NEW step \in {"password", "code", "activate"},
         Read(c, step), step \in {"password", "code"} => ~locked,
         step = "activate" => secret # 0,
         UNCHANGED <<scope, lockVars, mfaVars, heldVars>>
  PROVE  SignInInv'
<1>1. TypeOK'
  BY SignInAssumption DEF SignInAssumption, SignInInv, TypeOK, Read, lockVars, mfaVars, heldVars
<1>2. (~locked => failed < MaxCount)' /\ EnabledIsProven'
  BY DEF SignInInv, EnabledIsProven, lockVars, mfaVars
<1>3. (\A d \in Calls : pc[d] \in {"password", "code"} => count[d] < MaxCount)'
  <2> SUFFICES ASSUME NEW d \in Calls, pc'[d] \in {"password", "code"}
               PROVE  count'[d] < MaxCount
    BY DEF lockVars
  <2>1. CASE d = c
    BY <2>1 DEF SignInInv, TypeOK, Read
  <2>2. CASE d # c
    BY <2>2 DEF SignInInv, TypeOK, Read
  <2> QED BY <2>1, <2>2
<1>4. (\A d \in Calls : pc[d] = "activate" => key[d] # 0)'
  BY DEF SignInInv, TypeOK, Read
<1> QED BY <1>1, <1>2, <1>3, <1>4 DEF SignInInv

\* A call that ends leaves the other calls as they were.
LEMMA FinishKeeps ==
  ASSUME SignInInv, NEW c \in Calls, Finish(c)
  PROVE  /\ pc' \in [Calls -> {"idle", "password", "code", "activate"}]
         /\ count' \in [Calls -> 0 .. MaxCount]
         /\ key' \in [Calls -> 0 .. MaxSecrets]
         /\ mfa' \in [Calls -> BOOLEAN]
         /\ \A d \in Calls : pc'[d] \in {"password", "code"} => count'[d] < MaxCount
         /\ \A d \in Calls : pc'[d] = "activate" => key'[d] # 0
BY SignInAssumption DEF SignInAssumption, SignInInv, TypeOK, Finish

\* A write to the row by anything but a call in progress.
LEMMA RowWriteKeeps ==
  ASSUME SignInInv, UNCHANGED <<scope, pc, count, key, mfa, proven>>,
         failed' \in 0 .. MaxCount, guesses' \in Nat,
         secret' \in 0 .. MaxSecrets, minted' \in 0 .. MaxSecrets,
         locked' \in BOOLEAN, enabled' \in BOOLEAN, torn' \in BOOLEAN,
         session' \in BOOLEAN, challenged' \in BOOLEAN,
         ~locked' => failed' < MaxCount,
         enabled' /\ ~torn' => secret' \in proven'
  PROVE  SignInInv'
<1>1. TypeOK'
  BY DEF SignInInv, TypeOK
<1> QED BY <1>1 DEF SignInInv, EnabledIsProven

\* The invariant of the sign-in is inductive.
LEMMA SignInInvStep == SignInInv /\ [Next]_vars => SignInInv'
<1> SUFFICES ASSUME SignInInv, [Next]_vars PROVE SignInInv'
  OBVIOUS
<1> USE SignInAssumption DEF SignInAssumption
<1>1. ASSUME NEW c \in Calls, Login(c) PROVE SignInInv'
  BY <1>1, ReadKeeps DEF Login
<1>2. ASSUME NEW c \in Calls, VerifyMfa(c) PROVE SignInInv'
  BY <1>2, ReadKeeps DEF VerifyMfa
<1>3. ASSUME NEW c \in Calls, Wrong(c) PROVE SignInInv'
  <2>1. Finish(c) /\ RecordFailure(c) /\ pc[c] \in {"password", "code"}
    BY <1>3 DEF Wrong
  <2>2. count[c] \in 0 .. MaxCount /\ count[c] < MaxCount
    BY <2>1 DEF SignInInv, TypeOK
  <2>3a. failed' \in 0 .. MaxCount /\ guesses' \in Nat
    BY <2>1, <2>2 DEF RecordFailure, SignInInv, TypeOK
  <2>3b. Locks(count[c] + 1) \in BOOLEAN
    BY DEF Locks
  <2>3c. locked' \in BOOLEAN
    BY <2>1, <2>3b, Zenon DEF RecordFailure
  <2>3. failed' \in 0 .. MaxCount /\ locked' \in BOOLEAN /\ guesses' \in Nat
    BY <2>3a, <2>3c
  <2>4a. ~locked' => ~Locks(count[c] + 1)
    BY <2>1, <2>3b, Zenon DEF RecordFailure
  <2>4b. ~Locks(count[c] + 1) => failed' < MaxCount
    BY <2>1, <2>2 DEF RecordFailure, Locks
  <2>4. (~locked => failed < MaxCount)'
    BY <2>4a, <2>4b
  <2>5. UNCHANGED <<scope, mfaVars, heldVars>>
    BY <1>3 DEF Wrong
  <2>6. TypeOK'
    BY <2>1, <2>3, <2>5, FinishKeeps DEF SignInInv, TypeOK, mfaVars, heldVars
  <2>7. EnabledIsProven'
    BY <2>5 DEF SignInInv, EnabledIsProven, mfaVars
  <2> QED BY <2>1, <2>4, <2>6, <2>7, FinishKeeps DEF SignInInv
<1>4. ASSUME NEW c \in Calls, RightPassword(c) \/ RightCode(c) PROVE SignInInv'
  <2>1. /\ Finish(c) /\ ResetFailures
        /\ UNCHANGED <<scope, mfaVars>>
        /\ session' \in BOOLEAN /\ challenged' \in BOOLEAN
    BY <1>4 DEF RightPassword, RightCode, heldVars, SignInInv, TypeOK
  <2>2a. locked' \in BOOLEAN
    BY <2>1, Zenon DEF ResetFailures
  <2>2b. failed' \in 0 .. MaxCount /\ failed' < MaxCount /\ guesses' \in Nat
    BY <2>1 DEF ResetFailures
  <2>2. TypeOK'
    BY <2>1, <2>2a, <2>2b, FinishKeeps DEF SignInInv, TypeOK, mfaVars
  <2>3. (~locked => failed < MaxCount)'
    BY <2>2b
  <2>4. EnabledIsProven'
    BY <2>1 DEF SignInInv, EnabledIsProven, mfaVars
  <2> QED BY <2>1, <2>2, <2>3, <2>4, FinishKeeps DEF SignInInv
<1>5. ASSUME NEW c \in Calls, ActivateMfa(c) PROVE SignInInv'
  BY <1>5, ReadKeeps DEF ActivateMfa
<1>6. ASSUME NEW c \in Calls, Activated(c) PROVE SignInInv'
  <2>1. Finish(c) /\ pc[c] = "activate" /\ key[c] \in 1 .. MaxSecrets
    BY <1>6 DEF Activated, SignInInv, TypeOK
  <2>2. /\ enabled' = TRUE /\ proven' = proven \cup {key[c]}
        /\ torn' = (secret # key[c])
        /\ UNCHANGED <<scope, lockVars, secret, minted, heldVars>>
    BY <1>6 DEF Activated
  <2>3. TypeOK'
    BY <2>1, <2>2, FinishKeeps DEF SignInInv, TypeOK, lockVars, heldVars
  <2>4. (~locked => failed < MaxCount)'
    BY <2>2 DEF SignInInv, lockVars
  <2>5. EnabledIsProven'
    BY <2>2 DEF EnabledIsProven
  <2> QED BY <2>1, <2>3, <2>4, <2>5, FinishKeeps DEF SignInInv
<1>7. ASSUME NEW c \in Calls, CallDies(c) PROVE SignInInv'
  <2>1. Finish(c) /\ UNCHANGED <<scope, lockVars, mfaVars, heldVars>>
    BY <1>7 DEF CallDies
  <2>2. TypeOK'
    BY <2>1, FinishKeeps DEF SignInInv, TypeOK, lockVars, mfaVars, heldVars
  <2>3. (~locked => failed < MaxCount)' /\ EnabledIsProven'
    BY <2>1 DEF SignInInv, EnabledIsProven, lockVars, mfaVars
  <2> QED BY <2>1, <2>2, <2>3, FinishKeeps DEF SignInInv
<1>8. CASE SetupMfa
  <2>1. /\ failed' \in 0 .. MaxCount /\ guesses' \in Nat
        /\ secret' \in 0 .. MaxSecrets /\ minted' \in 0 .. MaxSecrets
        /\ ~locked' => failed' < MaxCount
    BY <1>8 DEF SetupMfa, lockVars, SignInInv, TypeOK
  <2>2. /\ locked' \in BOOLEAN /\ enabled' \in BOOLEAN /\ torn' \in BOOLEAN
        /\ session' \in BOOLEAN /\ challenged' \in BOOLEAN
        /\ ~enabled'
    BY <1>8, Zenon DEF SetupMfa, lockVars, heldVars, SignInInv, TypeOK
  <2>3. UNCHANGED <<scope, pc, count, key, mfa, proven>>
    BY <1>8 DEF SetupMfa
  <2> QED BY <2>1, <2>2, <2>3, RowWriteKeeps
<1>9. CASE DisableMfa
  <2>1. /\ failed' \in 0 .. MaxCount /\ guesses' \in Nat
        /\ secret' \in 0 .. MaxSecrets /\ minted' \in 0 .. MaxSecrets
        /\ ~locked' => failed' < MaxCount
    BY <1>9 DEF DisableMfa, lockVars, SignInInv, TypeOK
  <2>2. /\ locked' \in BOOLEAN /\ enabled' \in BOOLEAN /\ torn' \in BOOLEAN
        /\ session' \in BOOLEAN /\ challenged' \in BOOLEAN
        /\ ~enabled'
    BY <1>9, Zenon DEF DisableMfa, lockVars, heldVars, SignInInv, TypeOK
  <2>3. UNCHANGED <<scope, pc, count, key, mfa, proven>>
    BY <1>9 DEF DisableMfa
  <2> QED BY <2>1, <2>2, <2>3, RowWriteKeeps
<1>10. CASE ResetMfa
  <2>1. /\ failed' \in 0 .. MaxCount /\ guesses' \in Nat
        /\ secret' \in 0 .. MaxSecrets /\ minted' \in 0 .. MaxSecrets
        /\ failed' < MaxCount
    BY <1>10 DEF ResetMfa, ResetFailures, SignInInv, TypeOK
  <2>2. /\ locked' \in BOOLEAN /\ enabled' \in BOOLEAN /\ torn' \in BOOLEAN
        /\ session' \in BOOLEAN /\ challenged' \in BOOLEAN
        /\ ~enabled'
    BY <1>10, Zenon DEF ResetMfa, ResetFailures, heldVars, SignInInv, TypeOK
  <2>3. UNCHANGED <<scope, pc, count, key, mfa, proven>>
    BY <1>10 DEF ResetMfa
  <2> QED BY <2>1, <2>2, <2>3, RowWriteKeeps
<1>11. CASE LockExpires
  <2>1. /\ failed' \in 0 .. MaxCount /\ guesses' \in Nat
        /\ secret' \in 0 .. MaxSecrets /\ minted' \in 0 .. MaxSecrets
        /\ failed' < MaxCount
    BY <1>11 DEF LockExpires, mfaVars, SignInInv, TypeOK
  <2>2. /\ locked' \in BOOLEAN /\ enabled' \in BOOLEAN /\ torn' \in BOOLEAN
        /\ session' \in BOOLEAN /\ challenged' \in BOOLEAN
        /\ enabled' /\ ~torn' => secret' \in proven'
    BY <1>11, Zenon DEF LockExpires, mfaVars, heldVars, EnabledIsProven, SignInInv, TypeOK
  <2>3. UNCHANGED <<scope, pc, count, key, mfa, proven>>
    BY <1>11 DEF LockExpires, mfaVars
  <2> QED BY <2>1, <2>2, <2>3, RowWriteKeeps
<1>12. CASE Unlock
  <2>1. /\ failed' \in 0 .. MaxCount /\ guesses' \in Nat
        /\ secret' \in 0 .. MaxSecrets /\ minted' \in 0 .. MaxSecrets
        /\ failed' < MaxCount
    BY <1>12 DEF Unlock, ResetFailures, mfaVars, SignInInv, TypeOK
  <2>2. /\ locked' \in BOOLEAN /\ enabled' \in BOOLEAN /\ torn' \in BOOLEAN
        /\ session' \in BOOLEAN /\ challenged' \in BOOLEAN
        /\ enabled' /\ ~torn' => secret' \in proven'
    BY <1>12, Zenon DEF Unlock, ResetFailures, mfaVars, heldVars, EnabledIsProven, SignInInv, TypeOK
  <2>3. UNCHANGED <<scope, pc, count, key, mfa, proven>>
    BY <1>12 DEF Unlock, mfaVars
  <2> QED BY <2>1, <2>2, <2>3, RowWriteKeeps
<1>13. CASE TokensLapse
  BY <1>13 DEF TokensLapse, SignInInv, TypeOK, EnabledIsProven, lockVars, mfaVars
<1>14. CASE UNCHANGED vars
  BY <1>14 DEF vars, SignInInv, TypeOK, EnabledIsProven
<1> QED
  BY <1>1, <1>2, <1>3, <1>4, <1>5, <1>6, <1>7, <1>8, <1>9, <1>10, <1>11, <1>12,
     <1>13, <1>14 DEF Next, Call

\* Whatever overlaps, the row and every call's copies stay in range, and a second
\* factor that is on is proven, unless its activation was overtaken.
THEOREM SignInInvariant == Spec => []SignInInv
BY SignInInvInit, SignInInvStep, PTL DEF Spec

\* However calls overlap, the row's counters stay in range: the lockout bounds
\* failedLoginCount, because only an account that is not locked is read for a
\* further attempt.
THEOREM SignInTypeCorrect == Spec => []TypeOK
<1>1. SignInInv => TypeOK
  BY DEF SignInInv
<1> QED BY <1>1, SignInInvInit, SignInInvStep, PTL DEF Spec

\* A second factor that is on is one its owner has proven to hold, unless the
\* activation that switched it on was overtaken by a change of the secret.
THEOREM EnrolmentProven == Spec => []EnabledIsProven
<1>1. SignInInv => EnabledIsProven
  BY DEF SignInInv
<1> QED BY <1>1, SignInInvInit, SignInInvStep, PTL DEF Spec

-----------------------------------------------------------------------------
(* The bound on unpunished failures.

   A call has room for the failures that can follow from what it read: with n
   read, MaxFailures - n of them.  Recording one sets the row to one less than
   the room of the call, so a call with little room may be lifted to that, but
   never to the room the call had: ordered by how many calls have how much room,
   most room first, every recorded failure moves the calls to a lower place.
   Ways counts the places.  The invariant carries, for each level of room, an
   allowance for the failures that the calls at or below it can still record. *)

\* A set of natural numbers has a least element: what proofs by induction rest on here.
LEMMA LeastElement ==
  ASSUME NEW T \in SUBSET Nat, T # {}
  PROVE  \E m \in T : \A k \in T : m <= k
<1>1. PICK m \in T : \A k \in T : <<k, m>> \notin OpToRel(<, Nat)
  BY WFMin, NatLessThanWellFounded, Zenon
<1>2. \A k \in T : ~(k < m)
  BY <1>1, Zenon DEF OpToRel
<1> QED BY <1>2

\* How many calls may be in progress at once.
Parallel == Cardinality(Calls)

\* It is a positive number, since Calls is finite and not empty.
LEMMA ParallelType == Parallel \in Nat /\ Parallel > 0
BY SignInAssumption, FS_CardinalityType, FS_EmptySet DEF SignInAssumption, Parallel

\* The sums 1 + g[1] + ... + g[m], as one function of m.
LEMMA RunningSum ==
  ASSUME NEW M \in Nat, NEW g \in [0 .. M -> Nat]
  PROVE  \E f \in [0 .. M -> Nat] :
           f[0] = 1 /\ \A m \in 1 .. M : f[m] = f[m - 1] + g[m]
<1> DEFINE Sums(n) == \E f \in [0 .. n -> Nat] :
                        f[0] = 1 /\ \A m \in 1 .. n : f[m] = f[m - 1] + g[m]
           Missing == {n \in 0 .. M : ~ Sums(n)}
<1>1. Sums(0)
  <2> DEFINE f == [i \in 0 .. 0 |-> 1]
  <2>1. f \in [0 .. 0 -> Nat] /\ f[0] = 1 /\ \A m \in 1 .. 0 : f[m] = f[m - 1] + g[m]
    OBVIOUS
  <2> QED BY <2>1
<1>2. ASSUME NEW n \in 1 .. M, Sums(n - 1) PROVE Sums(n)
  <2>1. PICK f \in [0 .. n - 1 -> Nat] :
               f[0] = 1 /\ \A m \in 1 .. n - 1 : f[m] = f[m - 1] + g[m]
    BY <1>2
  <2> DEFINE h == [m \in 0 .. n |-> IF m = n THEN f[n - 1] + g[n] ELSE f[m]]
  <2>2. h \in [0 .. n -> Nat]
    OBVIOUS
  <2>3. h[0] = 1
    BY <2>1
  <2>4. ASSUME NEW m \in 1 .. n PROVE h[m] = h[m - 1] + g[m]
    <3>1. m \in 0 .. n /\ m - 1 \in 0 .. n - 1 /\ m - 1 \in 0 .. n /\ m - 1 # n
      OBVIOUS
    <3>2. h[m - 1] = f[m - 1]
      BY <3>1
    <3>3. CASE m = n
      BY <3>1, <3>2, <3>3
    <3>4. CASE m # n
      <4>1. m \in 1 .. n - 1 /\ h[m] = f[m]
        BY <3>1, <3>4
      <4> QED BY <2>1, <3>2, <4>1
    <3> QED BY <3>3, <3>4
  <2> QED BY <2>2, <2>3, <2>4
<1> HIDE DEF Sums
<1>3. Missing = {}
  <2> SUFFICES ASSUME Missing # {} PROVE FALSE
    OBVIOUS
  <2>0. Missing \in SUBSET Nat
    BY ParallelType
  <2>1. PICK n \in Missing : \A k \in Missing : n <= k
    BY <2>0, LeastElement
  <2>2. n # 0 
    BY <2>1, <1>1
  <2>3. n - 1 \in 0 .. M /\ n - 1 \notin Missing
    BY <2>1, <2>2
  <2> QED BY <2>1, <2>2, <2>3, <1>2
<1>4. Sums(M)
  BY <1>3
<1> QED BY <1>4 DEF Sums

\* Column by column, there is a function with the recursion that defines Ways.
LEMMA WaysColumns ==
  \E C \in [0 .. Parallel -> [0 .. MaxFailures -> Nat]] :
    /\ \A m \in 0 .. MaxFailures : C[0][m] = 1
    /\ \A n \in 1 .. Parallel :
         C[n][0] = 1 /\ \A m \in 1 .. MaxFailures : C[n][m] = C[n][m - 1] + C[n - 1][m]
<1> USE ParallelType
<1>0. MaxFailures \in Nat
  BY SignInAssumption DEF SignInAssumption
<1> DEFINE Column == [0 .. MaxFailures -> Nat]
           Follows(g, f) == f[0] = 1 /\ \A m \in 1 .. MaxFailures : f[m] = f[m - 1] + g[m]
           Built(N) == \E C \in [0 .. N -> Column] :
                         /\ \A m \in 0 .. MaxFailures : C[0][m] = 1
                         /\ \A n \in 1 .. N : Follows(C[n - 1], C[n])
           Missing == {N \in 0 .. Parallel : ~ Built(N)}
<1>1. Built(0)
  <2> DEFINE f == [m \in 0 .. MaxFailures |-> 1]
             C == [n \in 0 .. 0 |-> f]
  <2>1. f \in Column
    OBVIOUS
  <2>2. C \in [0 .. 0 -> Column] /\ \A m \in 0 .. MaxFailures : C[0][m] = 1
    BY <2>1
  <2>3. 1 .. 0 = {}
    OBVIOUS
  <2> HIDE DEF Column, f, C, Follows
  <2> QED BY <2>2, <2>3
<1>2. ASSUME NEW N \in 1 .. Parallel, Built(N - 1) PROVE Built(N)
  <2> HIDE DEF Follows, Column
  <2>1. PICK C \in [0 .. N - 1 -> Column] :
               /\ \A m \in 0 .. MaxFailures : C[0][m] = 1
               /\ \A n \in 1 .. N - 1 : Follows(C[n - 1], C[n])
    BY <1>2
  <2>2. C[N - 1] \in Column
    OBVIOUS
  <2>3. PICK f \in Column : Follows(C[N - 1], f)
    BY <1>0, <2>2, RunningSum DEF Follows, Column
  <2> DEFINE D == [n \in 0 .. N |-> IF n = N THEN f ELSE C[n]]
  <2>4. D \in [0 .. N -> Column] /\ \A m \in 0 .. MaxFailures : D[0][m] = 1
    BY <2>1
  <2>5. ASSUME NEW n \in 1 .. N PROVE Follows(D[n - 1], D[n])
    <3>1. CASE n = N
      BY <2>3, <3>1
    <3>2. CASE n # N
      BY <2>1, <3>2
    <3> QED BY <3>1, <3>2
  <2> QED BY <2>4, <2>5
<1> HIDE DEF Built
<1>3. Missing = {}
  <2> SUFFICES ASSUME Missing # {} PROVE FALSE
    OBVIOUS
  <2>0. Missing \in SUBSET Nat
    BY ParallelType
  <2>1. PICK n \in Missing : \A k \in Missing : n <= k
    BY <2>0, LeastElement
  <2>2. n # 0
    BY <2>1, <1>1
  <2>3. n - 1 \in 0 .. Parallel /\ n - 1 \notin Missing
    BY <2>1, <2>2
  <2> QED BY <2>1, <2>2, <2>3, <1>2
<1>4. Built(Parallel)
  BY <1>3
<1> QED BY <1>4 DEF Built

\* So Ways, which is chosen to have that recursion, has it.
LEMMA WaysRecursion ==
  Ways = [p \in (0 .. MaxFailures) \X (0 .. Parallel) |->
            IF p[1] = 0 \/ p[2] = 0 THEN 1
            ELSE Ways[<<p[1] - 1, p[2]>>] + Ways[<<p[1], p[2] - 1>>]]
<1> DEFINE Rec(W) == [p \in (0 .. MaxFailures) \X (0 .. Parallel) |->
                        IF p[1] = 0 \/ p[2] = 0 THEN 1
                        ELSE W[<<p[1] - 1, p[2]>>] + W[<<p[1], p[2] - 1>>]]
<1>1. Ways = CHOOSE W : W = Rec(W)
  BY DEF Ways, Parallel
<1>2. PICK C \in [0 .. Parallel -> [0 .. MaxFailures -> Nat]] :
    /\ \A m \in 0 .. MaxFailures : C[0][m] = 1
    /\ \A n \in 1 .. Parallel :
         C[n][0] = 1 /\ \A m \in 1 .. MaxFailures : C[n][m] = C[n][m - 1] + C[n - 1][m]
  BY WaysColumns
<1> DEFINE V == [p \in (0 .. MaxFailures) \X (0 .. Parallel) |-> C[p[2]][p[1]]]
<1>3. V = Rec(V)
  <2>1. ASSUME NEW m \in 0 .. MaxFailures, NEW n \in 0 .. Parallel
        PROVE  V[<<m, n>>] = IF m = 0 \/ n = 0 THEN 1
                             ELSE V[<<m - 1, n>>] + V[<<m, n - 1>>]
    <3>0. MaxFailures \in Nat /\ Parallel \in Nat
      BY ParallelType, SignInAssumption DEF SignInAssumption
    <3>1. \A i \in 0 .. MaxFailures, j \in 0 .. Parallel : V[<<i, j>>] = C[j][i]
      OBVIOUS
    <3> HIDE DEF V
    <3>2. CASE n = 0
      BY <1>2, <3>1, <3>2
    <3>3. CASE n # 0 /\ m = 0
      <4>1. n \in 1 .. Parallel /\ V[<<m, n>>] = C[n][0]
        BY <3>0, <3>1, <3>3
      <4>2. C[n][0] = 1
        BY <4>1, <1>2
      <4> QED BY <4>1, <4>2, <3>3
    <3>4. CASE n # 0 /\ m # 0
      <4>1. n \in 1 .. Parallel /\ m \in 1 .. MaxFailures
        BY <3>4
      <4>2. m - 1 \in 0 .. MaxFailures /\ n - 1 \in 0 .. Parallel
        BY <4>1, <3>0
      <4>3. V[<<m, n>>] = C[n][m] /\ V[<<m - 1, n>>] = C[n][m - 1]
            /\ V[<<m, n - 1>>] = C[n - 1][m]
        BY <3>1, <4>2
      <4>4. C[n][m] = C[n][m - 1] + C[n - 1][m]
        BY <4>1, <1>2
      <4> QED BY <4>3, <4>4, <3>4
    <3> QED BY <3>2, <3>3, <3>4
  <2> HIDE DEF V
  <2>2. V = [p \in (0 .. MaxFailures) \X (0 .. Parallel) |-> V[p]]
    BY DEF V
  <2>3. ASSUME NEW p \in (0 .. MaxFailures) \X (0 .. Parallel)
        PROVE  V[p] = Rec(V)[p]
    BY <2>1
  <2>4. Rec(V) = [p \in (0 .. MaxFailures) \X (0 .. Parallel) |-> Rec(V)[p]]
    OBVIOUS
  <2> HIDE DEF Rec
  <2> QED BY <2>2, <2>3, <2>4
<1> HIDE DEF V, Rec
<1>4. Ways = Rec(Ways)
  BY <1>1, <1>3
<1> QED BY <1>4 DEF Rec

\* The ways to interleave n slow calls with m counts.
W(m, n) == Ways[<<m, n>>]

\* The recursion at one pair.
LEMMA WaysRule ==
  ASSUME NEW m \in 0 .. MaxFailures, NEW n \in 0 .. Parallel
  PROVE  W(m, n) = IF m = 0 \/ n = 0 THEN 1 ELSE W(m - 1, n) + W(m, n - 1)
<1> <<m, n>> \in (0 .. MaxFailures) \X (0 .. Parallel)
  OBVIOUS
<1> QED BY WaysRecursion DEF W

\* Every entry is a positive number.
LEMMA WaysPositive ==
  ASSUME NEW m \in 0 .. MaxFailures, NEW n \in 0 .. Parallel
  PROVE  W(m, n) \in Nat \ {0}
<1>0. MaxFailures \in Nat /\ Parallel \in Nat
  BY ParallelType, SignInAssumption DEF SignInAssumption
<1> DEFINE Bad == {s \in Nat : \E i \in 0 .. MaxFailures, j \in 0 .. Parallel :
                                  i + j = s /\ W(i, j) \notin Nat \ {0}}
<1>1. Bad = {}
  <2> SUFFICES ASSUME Bad # {} PROVE FALSE
    OBVIOUS
  <2>0. Bad \in SUBSET Nat
    OBVIOUS
  <2>1. PICK s \in Bad : \A k \in Bad : s <= k
    BY <2>0, LeastElement
  <2>2. PICK i \in 0 .. MaxFailures, j \in 0 .. Parallel :
               i + j = s /\ W(i, j) \notin Nat \ {0}
    BY <2>1
  <2>3. i # 0 /\ j # 0 /\ W(i, j) = W(i - 1, j) + W(i, j - 1)
    BY <2>2, WaysRule
  <2>4. i - 1 \in 0 .. MaxFailures /\ j - 1 \in 0 .. Parallel /\ s - 1 \in Nat
        /\ (i - 1) + j = s - 1 /\ i + (j - 1) = s - 1
    BY <2>2, <2>3, <1>0
  <2>5. s - 1 \notin Bad
    <3>1. s \in Nat /\ ~(s <= s - 1)
      BY <2>0, <2>1
    <3> HIDE DEF Bad
    <3> QED BY <3>1, <2>1
  <2>6. W(i - 1, j) \in Nat \ {0} /\ W(i, j - 1) \in Nat \ {0}
    BY <2>2, <2>4, <2>5
  <2> QED BY <2>2, <2>3, <2>6
<1>2. m + n \in Nat
  BY <1>0
<1> QED BY <1>1, <1>2

\* More counts or more calls never leave fewer ways.
LEMMA WaysMonotone ==
  ASSUME NEW m \in 0 .. MaxFailures, NEW m2 \in 0 .. MaxFailures, m <= m2,
         NEW n \in 0 .. Parallel, NEW n2 \in 0 .. Parallel, n <= n2
  PROVE  W(m, n) <= W(m2, n2)
<1>0. MaxFailures \in Nat /\ Parallel \in Nat
  BY ParallelType, SignInAssumption DEF SignInAssumption
<1> DEFINE Bad == {s \in Nat : \E i \in 0 .. MaxFailures, j \in 0 .. Parallel :
                       i + j = s /\ m <= i /\ n <= j /\ ~(W(m, n) <= W(i, j))}
<1>1. Bad = {}
  <2> SUFFICES ASSUME Bad # {} PROVE FALSE
    OBVIOUS
  <2>0. Bad \in SUBSET Nat
    OBVIOUS
  <2>1. PICK s \in Bad : \A k \in Bad : s <= k
    BY <2>0, LeastElement
  <2>2. PICK i \in 0 .. MaxFailures, j \in 0 .. Parallel :
               i + j = s /\ m <= i /\ n <= j /\ ~(W(m, n) <= W(i, j))
    BY <2>1
  <2>3. W(m, n) \in Nat \ {0} /\ W(i, j) \in Nat \ {0}
    BY WaysPositive
  <2>4. CASE i = m /\ j = n
    BY <2>2, <2>3, <2>4
  <2>5. CASE i # m /\ j = 0
    <3>1. n = 0 /\ W(i, j) = 1 /\ W(m, n) = 1
      BY <2>2, <2>5, <1>0, WaysRule
    <3> QED BY <3>1, <2>2
  <2>6. CASE i # m /\ j # 0
    <3>1. i - 1 \in 0 .. MaxFailures /\ j - 1 \in 0 .. Parallel /\ s - 1 \in Nat
          /\ (i - 1) + j = s - 1 /\ m <= i - 1 /\ i # 0
      BY <2>2, <2>6, <1>0
    <3>2. s - 1 \notin Bad
      BY <2>1, <3>1
    <3>3. W(m, n) <= W(i - 1, j)
      BY <2>2, <3>1, <3>2
    <3>4. W(i - 1, j) \in Nat /\ W(i, j - 1) \in Nat
      BY <3>1, WaysPositive
    <3>5. W(i, j) = W(i - 1, j) + W(i, j - 1)
      BY <3>1, <2>6, WaysRule
    <3> QED BY <3>3, <3>4, <3>5, <2>2, <2>3
  <2>7. CASE j # n /\ i = 0
    <3>1. m = 0 /\ W(i, j) = 1 /\ W(m, n) = 1
      BY <2>2, <2>7, <1>0, WaysRule
    <3> QED BY <3>1, <2>2
  <2>8. CASE j # n /\ i # 0
    <3>1. i - 1 \in 0 .. MaxFailures /\ j - 1 \in 0 .. Parallel /\ s - 1 \in Nat
          /\ i + (j - 1) = s - 1 /\ n <= j - 1 /\ j # 0
      BY <2>2, <2>8, <1>0
    <3>2. s - 1 \notin Bad
      BY <2>1, <3>1
    <3>3. W(m, n) <= W(i, j - 1)
      BY <2>2, <3>1, <3>2
    <3>4. W(i - 1, j) \in Nat /\ W(i, j - 1) \in Nat
      BY <3>1, WaysPositive
    <3>5. W(i, j) = W(i - 1, j) + W(i, j - 1)
      BY <3>1, <2>8, WaysRule
    <3> QED BY <3>3, <3>4, <3>5, <2>2, <2>3
  <2> QED BY <2>4, <2>5, <2>6, <2>7, <2>8
<1>2. m2 + n2 \in Nat
  BY <1>0
<1> QED BY <1>1, <1>2

\* A[s] covers the failures that calls with room for at most s can still record
\* under the profile z: a level adds the ways of its own to what the levels below
\* it are covered for.
Covers(A, z) ==
  /\ A \in [0 .. MaxFailures -> Nat]
  /\ \A s \in 1 .. MaxFailures : A[s - 1] + W(s, z[s + 1]) <= A[s] + W(s, z[s])
  /\ \A s, t \in 0 .. MaxFailures : s <= t => A[s] <= A[t]

\* The shapes those counts can have: non-decreasing, at most Parallel.
Profiles == {z \in [1 .. MaxFailures + 1 -> 0 .. Parallel] :
               \A s, t \in 1 .. MaxFailures + 1 : s <= t => z[s] <= z[t]}

\* What a profile allows at most.
FullAllowance(z) == [s \in 0 .. MaxFailures |-> W(s, z[s + 1]) - 1]

\* That much covers a profile, and is below the number of ways.
LEMMA FullCovers ==
  ASSUME NEW z \in Profiles
  PROVE  /\ Covers(FullAllowance(z), z)
         /\ FullAllowance(z)[MaxFailures] <= W(MaxFailures, Parallel) - 1
<1>0. MaxFailures \in Nat \ {0} /\ Parallel \in Nat
  BY ParallelType, SignInAssumption DEF SignInAssumption
<1>z. /\ z \in [1 .. MaxFailures + 1 -> 0 .. Parallel]
      /\ \A s, t \in 1 .. MaxFailures + 1 : s <= t => z[s] <= z[t]
  BY DEF Profiles
<1> DEFINE A == FullAllowance(z)
<1>A. A = [s \in 0 .. MaxFailures |-> W(s, z[s + 1]) - 1]
  BY DEF FullAllowance
<1> HIDE DEF A
<1>1. ASSUME NEW s \in 0 .. MaxFailures
      PROVE  s + 1 \in 1 .. MaxFailures + 1 /\ z[s + 1] \in 0 .. Parallel
  BY <1>0, <1>z
<1>2. A \in [0 .. MaxFailures -> Nat]
  <2>1. ASSUME NEW s \in 0 .. MaxFailures PROVE W(s, z[s + 1]) - 1 \in Nat
    <3>1. W(s, z[s + 1]) \in Nat \ {0}
      BY <1>1, WaysPositive
    <3> QED BY <3>1
  <2> QED BY <2>1, <1>A
<1>3. ASSUME NEW s \in 1 .. MaxFailures
      PROVE  A[s - 1] + W(s, z[s + 1]) <= A[s] + W(s, z[s])
  <2>1. s \in 0 .. MaxFailures /\ s - 1 \in 0 .. MaxFailures /\ s - 1 <= s /\ (s - 1) + 1 = s
    BY <1>0
  <2>2. z[s] \in 0 .. Parallel /\ z[s + 1] \in 0 .. Parallel
    BY <1>0, <1>z
  <2>3. W(s - 1, z[s]) <= W(s, z[s])
    BY <1>0, <2>1, <2>2, WaysMonotone
  <2>4. W(s - 1, z[s]) \in Nat /\ W(s, z[s]) \in Nat /\ W(s, z[s + 1]) \in Nat
    BY <2>1, <2>2, WaysPositive
  <2>5. A[s - 1] = W(s - 1, z[s]) - 1 /\ A[s] = W(s, z[s + 1]) - 1
    BY <2>1, <1>A
  <2> QED BY <2>3, <2>4, <2>5
<1>4. ASSUME NEW s \in 0 .. MaxFailures, NEW t \in 0 .. MaxFailures, s <= t
      PROVE  A[s] <= A[t]
  <2>1. z[s + 1] <= z[t + 1]
    BY <1>0, <1>z, <1>1, <1>4
  <2>2. W(s, z[s + 1]) <= W(t, z[t + 1])
    BY <1>1, <1>4, <2>1, WaysMonotone
  <2>3. W(s, z[s + 1]) \in Nat /\ W(t, z[t + 1]) \in Nat
    BY <1>1, WaysPositive
  <2> QED BY <2>2, <2>3, <1>A
<1>5. A[MaxFailures] <= W(MaxFailures, Parallel) - 1
  <2>1. MaxFailures \in 0 .. MaxFailures /\ Parallel \in 0 .. Parallel
    BY <1>0
  <2>2. z[MaxFailures + 1] \in 0 .. Parallel /\ z[MaxFailures + 1] <= Parallel
    BY <2>1, <1>1
  <2>3. W(MaxFailures, z[MaxFailures + 1]) <= W(MaxFailures, Parallel)
    BY <1>0, <2>1, <2>2, WaysMonotone
  <2>4. W(MaxFailures, z[MaxFailures + 1]) \in Nat /\ W(MaxFailures, Parallel) \in Nat
    BY <2>1, <2>2, WaysPositive
  <2>5. A[MaxFailures] = W(MaxFailures, z[MaxFailures + 1]) - 1
    BY <2>1, <1>A
  <2> QED BY <2>3, <2>4, <2>5
<1>6. Covers(A, z)
  BY <1>2, <1>3, <1>4 DEF Covers
<1> QED BY <1>5, <1>6 DEF A

\* Where the profiles of two states agree above level b and the later one has more
\* calls under b, an allowance of the first can give one failure up and, with the
\* levels under b at their full allowance, covers the second.
LEMMA AllowanceShrinks ==
  ASSUME NEW z \in Profiles, NEW y \in Profiles, NEW A, Covers(A, z),
         NEW b \in 1 .. MaxFailures,
         \A s \in b + 1 .. MaxFailures + 1 : y[s] = z[s],
         z[b] < y[b]
  PROVE  \E B : Covers(B, y) /\ B[MaxFailures] <= A[MaxFailures] - 1
<1>0. MaxFailures \in Nat \ {0} /\ Parallel \in Nat
  BY ParallelType, SignInAssumption DEF SignInAssumption
<1>z. /\ z \in [1 .. MaxFailures + 1 -> 0 .. Parallel]
      /\ \A s, t \in 1 .. MaxFailures + 1 : s <= t => z[s] <= z[t]
  BY DEF Profiles
<1>a. /\ A \in [0 .. MaxFailures -> Nat]
      /\ \A s \in 1 .. MaxFailures : A[s - 1] + W(s, z[s + 1]) <= A[s] + W(s, z[s])
      /\ \A s, t \in 0 .. MaxFailures : s <= t => A[s] <= A[t]
  BY DEF Covers
<1>y. /\ y \in [1 .. MaxFailures + 1 -> 0 .. Parallel]
      /\ \A s, t \in 1 .. MaxFailures + 1 : s <= t => y[s] <= y[t]
  BY DEF Profiles
<1> DEFINE F == FullAllowance(y)
<1>f. /\ F \in [0 .. MaxFailures -> Nat]
      /\ \A s \in 1 .. MaxFailures : F[s - 1] + W(s, y[s + 1]) <= F[s] + W(s, y[s])
      /\ \A s, t \in 0 .. MaxFailures : s <= t => F[s] <= F[t]
  BY FullCovers DEF Covers
<1>1. b - 1 \in 0 .. MaxFailures /\ b \in 0 .. MaxFailures
      /\ b \in 1 .. MaxFailures + 1 /\ b + 1 \in 1 .. MaxFailures + 1
  BY <1>0
<1>2. F[b - 1] = W(b - 1, y[b]) - 1
  <2>1. (b - 1) + 1 = b
    BY <1>1
  <2> QED BY <1>1, <2>1 DEF FullAllowance
<1> HIDE DEF F
<1>3. F[b - 1] + W(b, y[b + 1]) <= A[b] - 1 + W(b, y[b])
  <2>1. y[b] \in 1 .. Parallel /\ y[b] - 1 \in 0 .. Parallel /\ z[b] \in 0 .. Parallel
        /\ z[b] <= y[b] - 1
    BY <1>0, <1>1, <1>y, <1>z
  <2>2. W(b, y[b]) = W(b - 1, y[b]) + W(b, y[b] - 1)
    BY <1>1, <2>1, WaysRule
  <2>3. W(b, z[b]) <= W(b, y[b] - 1)
    BY <1>1, <2>1, WaysMonotone
  <2>4. y[b + 1] = z[b + 1] /\ y[b + 1] \in 0 .. Parallel
    BY <1>1, <1>y
  <2>5. A[b - 1] + W(b, y[b + 1]) <= A[b] + W(b, z[b])
    BY <1>a, <2>4
  <2>6. A[b - 1] \in Nat /\ A[b] \in Nat
    BY <1>1, <1>a
  <2>7. W(b, y[b]) \in Nat /\ W(b - 1, y[b]) \in Nat /\ W(b, y[b] - 1) \in Nat
        /\ W(b, z[b]) \in Nat /\ W(b, y[b + 1]) \in Nat
    BY <1>1, <2>1, <2>4, WaysPositive
  <2> QED BY <1>2, <2>2, <2>3, <2>5, <2>6, <2>7
<1>4. F[b - 1] <= A[b] - 1
  <2>1. y[b] \in 0 .. Parallel /\ y[b + 1] \in 0 .. Parallel /\ y[b] <= y[b + 1]
    BY <1>0, <1>1, <1>y
  <2>2. W(b, y[b]) <= W(b, y[b + 1])
    BY <1>0, <1>1, <2>1, WaysMonotone
  <2>3. W(b, y[b]) \in Nat /\ W(b, y[b + 1]) \in Nat
    BY <1>1, <2>1, WaysPositive
  <2>4. F[b - 1] \in Nat /\ A[b] \in Nat
    BY <1>1, <1>f, <1>a
  <2> QED BY <1>3, <2>2, <2>3, <2>4
<1>5. ASSUME NEW s \in b .. MaxFailures
      PROVE  s \in 0 .. MaxFailures /\ A[s] - 1 \in Nat /\ F[b - 1] <= A[s] - 1
  <2>1. s \in 0 .. MaxFailures /\ A[b] <= A[s]
    BY <1>0, <1>1, <1>a
  <2>2. F[b - 1] \in Nat /\ A[b] \in Nat /\ A[s] \in Nat
    BY <1>1, <2>1, <1>f, <1>a
  <2> QED BY <2>1, <2>2, <1>4
<1> DEFINE B == [s \in 0 .. MaxFailures |-> IF s < b THEN F[s] ELSE A[s] - 1]
<1>6. B \in [0 .. MaxFailures -> Nat]
  <2>1. ASSUME NEW s \in 0 .. MaxFailures
        PROVE  (IF s < b THEN F[s] ELSE A[s] - 1) \in Nat
    <3>1. CASE s < b
      BY <3>1, <1>f
    <3>2. CASE ~(s < b)
      <4>1. s \in b .. MaxFailures
        BY <3>2, <1>0, <1>1
      <4> QED BY <3>2, <4>1, <1>5
    <3> QED BY <3>1, <3>2
  <2> QED BY <2>1
<1>7. ASSUME NEW s \in 1 .. MaxFailures
      PROVE  B[s - 1] + W(s, y[s + 1]) <= B[s] + W(s, y[s])
  <2>0. s \in 0 .. MaxFailures /\ s - 1 \in 0 .. MaxFailures
    BY <1>0
  <2>1. CASE s < b
    <3>1. s - 1 < b
      BY <2>1, <1>0, <1>1
    <3>2. B[s - 1] = F[s - 1] /\ B[s] = F[s]
      BY <2>0, <2>1, <3>1
    <3> QED BY <3>2, <1>f
  <2>2. CASE s = b
    <3>1. B[s - 1] = F[b - 1] /\ B[s] = A[b] - 1
      BY <2>0, <2>2, <1>0, <1>1
    <3> QED BY <3>1, <2>2, <1>3
  <2>3. CASE s > b
    <3>1. ~(s - 1 < b) /\ ~(s < b)
      BY <2>3, <1>0, <1>1
    <3>2. B[s - 1] = A[s - 1] - 1 /\ B[s] = A[s] - 1
      BY <2>0, <3>1
    <3>3. y[s] = z[s] /\ y[s + 1] = z[s + 1] /\ y[s] \in 0 .. Parallel
          /\ y[s + 1] \in 0 .. Parallel
      BY <2>3, <1>0, <1>1, <1>y
    <3>4. A[s - 1] + W(s, y[s + 1]) <= A[s] + W(s, y[s])
      BY <3>3, <1>a
    <3>5. A[s - 1] \in Nat /\ A[s] \in Nat /\ W(s, y[s + 1]) \in Nat /\ W(s, y[s]) \in Nat
      BY <2>0, <3>3, <1>a, WaysPositive
    <3> QED BY <3>2, <3>4, <3>5
  <2> QED BY <2>1, <2>2, <2>3, <1>0, <1>1
<1>8. ASSUME NEW s \in 0 .. MaxFailures, NEW t \in 0 .. MaxFailures, s <= t
      PROVE  B[s] <= B[t]
  <2>1. CASE t < b
    <3>1. s < b
      BY <2>1, <1>8, <1>0, <1>1
    <3> QED BY <2>1, <3>1, <1>8, <1>f
  <2>2. CASE s < b /\ ~(t < b)
    <3>1. t \in b .. MaxFailures /\ s <= b - 1
      BY <2>2, <1>0, <1>1
    <3>2. F[s] <= F[b - 1] /\ F[b - 1] <= A[t] - 1
      BY <3>1, <1>1, <1>5, <1>f
    <3>3. F[s] \in Nat /\ F[b - 1] \in Nat /\ A[t] \in Nat
      BY <1>1, <1>f, <1>a
    <3> QED BY <2>2, <3>2, <3>3
  <2>3. CASE ~(s < b) /\ ~(t < b)
    <3>1. A[s] <= A[t] /\ A[s] \in Nat /\ A[t] \in Nat
      BY <1>8, <1>a
    <3> QED BY <2>3, <3>1
  <2> QED BY <2>1, <2>2, <2>3
<1>9. B[MaxFailures] = A[MaxFailures] - 1
  BY <1>0, <1>1
<1> HIDE DEF B
<1>10. Covers(B, y)
  BY <1>6, <1>7, <1>8 DEF Covers
<1>11. A[MaxFailures] - 1 <= A[MaxFailures] - 1
  BY <1>0, <1>a
<1> QED BY <1>9, <1>10, <1>11

\* How many calls have room for fewer than s failures, for each s.
ProfileOf(r) == [s \in 1 .. MaxFailures + 1 |-> Cardinality({c \in Calls : r[c] < s})]

\* Counts of calls grow with the bound they are under, and are at most Parallel.
LEMMA ProfileType ==
  ASSUME NEW r \in [Calls -> 0 .. MaxFailures]
  PROVE  ProfileOf(r) \in Profiles
<1>0. IsFiniteSet(Calls) /\ MaxFailures \in Nat /\ Parallel = Cardinality(Calls)
  BY SignInAssumption DEF SignInAssumption, Parallel
<1> DEFINE Below(s) == {c \in Calls : r[c] < s}
<1>1. ASSUME NEW s \in 1 .. MaxFailures + 1
      PROVE  IsFiniteSet(Below(s)) /\ Cardinality(Below(s)) \in 0 .. Parallel
  <2>1. Below(s) \in SUBSET Calls
    OBVIOUS
  <2> HIDE DEF Below
  <2>2. IsFiniteSet(Below(s)) /\ Cardinality(Below(s)) <= Parallel
    BY <1>0, <2>1, FS_Subset
  <2>3. Cardinality(Below(s)) \in Nat /\ Parallel \in Nat
    BY <2>2, FS_CardinalityType, ParallelType
  <2> QED BY <2>2, <2>3
<1>2. ASSUME NEW s \in 1 .. MaxFailures + 1, NEW t \in 1 .. MaxFailures + 1, s <= t
      PROVE  Cardinality(Below(s)) <= Cardinality(Below(t))
  <2>1. Below(s) \in SUBSET Below(t)
    BY <1>0, <1>2
  <2> HIDE DEF Below
  <2> QED BY <2>1, <1>1, FS_Subset
<1>3. ProfileOf(r) = [s \in 1 .. MaxFailures + 1 |-> Cardinality(Below(s))]
  BY DEF ProfileOf
<1> HIDE DEF Below
<1> QED BY <1>1, <1>2, <1>3 DEF Profiles

\* The failures recorded and those still covered come to fewer than the ways, when
\* the calls have the rooms r.
Within(g, r) ==
  \E A : Covers(A, ProfileOf(r)) /\ g + A[MaxFailures] <= W(MaxFailures, Parallel) - 1

\* With nothing recorded, any rooms are covered.
LEMMA WithinAtFirst ==
  ASSUME NEW r \in [Calls -> 0 .. MaxFailures]
  PROVE  Within(0, r)
<1>1. ProfileOf(r) \in Profiles
  BY ProfileType
<1>2. Covers(FullAllowance(ProfileOf(r)), ProfileOf(r))
      /\ FullAllowance(ProfileOf(r))[MaxFailures] <= W(MaxFailures, Parallel) - 1
  BY <1>1, FullCovers
<1>3. FullAllowance(ProfileOf(r))[MaxFailures] \in Nat
  BY <1>2, SignInAssumption DEF Covers, SignInAssumption
<1>4. 0 + FullAllowance(ProfileOf(r))[MaxFailures] <= W(MaxFailures, Parallel) - 1
  BY <1>2, <1>3
<1> QED BY <1>2, <1>4 DEF Within

\* When the room of a call falls, and no call with at most as much room gains as
\* much, one more failure can be recorded.
LEMMA WithinShrinks ==
  ASSUME NEW r \in [Calls -> 0 .. MaxFailures], NEW q \in [Calls -> 0 .. MaxFailures],
         NEW c \in Calls, q[c] < r[c],
         \A d \in Calls : /\ r[d] > r[c] => q[d] = r[d]
                          /\ r[d] <= r[c] => q[d] <= r[c]
                          /\ r[d] < r[c] => q[d] < r[c],
         NEW g \in Nat, Within(g, r)
  PROVE  Within(g, q) /\ Within(g + 1, q)
<1>0. IsFiniteSet(Calls) /\ MaxFailures \in Nat \ {0}
  BY SignInAssumption DEF SignInAssumption
<1>1. PICK A : Covers(A, ProfileOf(r)) /\ g + A[MaxFailures] <= W(MaxFailures, Parallel) - 1
  BY DEF Within
<1> DEFINE b == r[c]
<1>2. b \in 1 .. MaxFailures
  BY <1>0
<1>3. ASSUME NEW s \in b + 1 .. MaxFailures + 1
      PROVE  ProfileOf(q)[s] = ProfileOf(r)[s]
  <2>1. s \in 1 .. MaxFailures + 1 /\ s > b
    BY <1>0, <1>2
  <2>2. {d \in Calls : q[d] < s} = {d \in Calls : r[d] < s}
    BY <1>0, <1>2, <2>1
  <2> QED BY <2>1, <2>2 DEF ProfileOf
<1>4. ProfileOf(r)[b] < ProfileOf(q)[b]
  <2> DEFINE R == {d \in Calls : r[d] < b}
             Q == {d \in Calls : q[d] < b}
  <2>1. Q \in SUBSET Calls /\ R \in SUBSET Q /\ c \in Q /\ c \notin R
    BY <1>0, <1>2
  <2>2. b \in 1 .. MaxFailures + 1
    BY <1>0, <1>2
  <2>3. ProfileOf(r)[b] = Cardinality(R) /\ ProfileOf(q)[b] = Cardinality(Q)
    BY <2>2 DEF ProfileOf
  <2> HIDE DEF R, Q
  <2>4. IsFiniteSet(Q) /\ IsFiniteSet(R) /\ Cardinality(R) <= Cardinality(Q)
        /\ (Cardinality(Q) = Cardinality(R) => Q = R)
    BY <2>1, <1>0, FS_Subset
  <2>5. Cardinality(Q) \in Nat /\ Cardinality(R) \in Nat /\ Q # R
    BY <2>1, <2>4, FS_CardinalityType
  <2> QED BY <2>3, <2>4, <2>5
<1>5. ProfileOf(r) \in Profiles /\ ProfileOf(q) \in Profiles
  BY ProfileType
<1> HIDE DEF b
<1>6. PICK B : Covers(B, ProfileOf(q)) /\ B[MaxFailures] <= A[MaxFailures] - 1
  BY <1>1, <1>2, <1>3, <1>4, <1>5, AllowanceShrinks
<1>7. A[MaxFailures] \in Nat /\ B[MaxFailures] \in Nat /\ W(MaxFailures, Parallel) \in Nat
  <2>1. MaxFailures \in 0 .. MaxFailures /\ Parallel \in 0 .. Parallel
    BY <1>0, ParallelType
  <2> QED BY <2>1, <1>1, <1>6, WaysPositive DEF Covers
<1>8. g + B[MaxFailures] <= W(MaxFailures, Parallel) - 1
      /\ (g + 1) + B[MaxFailures] <= W(MaxFailures, Parallel) - 1
  BY <1>1, <1>6, <1>7
<1> QED BY <1>6, <1>8 DEF Within

\* The failures a call that read the count n may record, itself and through the
\* counts it leaves behind: at least one, as it locks only after recording.
Room(n) == IF n < MaxFailures THEN MaxFailures - n ELSE 1
\* The room of a call that reads the row now: none when it is locked.
RowRoom == IF locked THEN 0 ELSE Room(failed)
\* A call that may record a failure.
Guessing(c) == pc[c] \in {"password", "code"}
\* The room of each call: what it read, or what the row would give it if that is more.
Rooms == [c \in Calls |->
            IF Guessing(c) /\ Room(count[c]) > RowRoom THEN Room(count[c]) ELSE RowRoom]

\* It is at least one, because a failure is recorded before the lock is set.
LEMMA RoomType ==
  ASSUME NEW n \in Nat
  PROVE  Room(n) \in 1 .. MaxFailures
BY SignInAssumption DEF SignInAssumption, Room

\* Rooms are at most MaxFailures.
LEMMA RoomsInRange ==
  TypeOK => RowRoom \in 0 .. MaxFailures /\ Rooms \in [Calls -> 0 .. MaxFailures]
<1> SUFFICES ASSUME TypeOK
             PROVE  RowRoom \in 0 .. MaxFailures /\ Rooms \in [Calls -> 0 .. MaxFailures]
  OBVIOUS
<1>0. MaxFailures \in Nat \ {0} /\ MaxCount \in Nat
  BY SignInAssumption DEF SignInAssumption
<1>1. failed \in Nat /\ \A c \in Calls : count[c] \in Nat
  BY <1>0 DEF TypeOK
<1>2. Room(failed) \in 1 .. MaxFailures /\ \A c \in Calls : Room(count[c]) \in 1 .. MaxFailures
  BY <1>1, RoomType
<1>3. RowRoom \in 0 .. MaxFailures
  BY <1>0, <1>2 DEF RowRoom
<1> QED BY <1>0, <1>2, <1>3 DEF Rooms

\* Inductive: the failures recorded since the last reset, with what the calls still
\* have room for, stay below the ways.
GuessesInv == SignInInv /\ Within(guesses, Rooms)

\* The same of the next state.
LEMMA RoomsInRangeNext ==
  TypeOK' => (RowRoom \in 0 .. MaxFailures /\ Rooms \in [Calls -> 0 .. MaxFailures])'
BY RoomsInRange, PTL

\* Reading the row leaves the rooms as they are.
LEMMA RoomsKeep ==
  ASSUME TypeOK, TypeOK', NEW c \in Calls, UNCHANGED lockVars,
         \/ UNCHANGED <<pc, count>>
         \/ \E step \in {"password", "code", "activate"} :
              Read(c, step) /\ (locked => step = "activate")
  PROVE  Rooms' = Rooms
<1>0. failed \in Nat /\ RowRoom' = RowRoom /\ RowRoom \in 0 .. MaxFailures
  BY SignInAssumption, RoomsInRange DEF SignInAssumption, TypeOK, lockVars, RowRoom
<1>1. CASE UNCHANGED <<pc, count>>
  BY <1>0, <1>1 DEF Rooms, Guessing
<1>2. ASSUME NEW step \in {"password", "code", "activate"}, Read(c, step),
             locked => step = "activate"
      PROVE  Rooms' = Rooms
  <2>1. ASSUME NEW d \in Calls
        PROVE  (IF Guessing(d) /\ Room(count[d]) > RowRoom THEN Room(count[d]) ELSE RowRoom)'
                 = IF Guessing(d) /\ Room(count[d]) > RowRoom THEN Room(count[d]) ELSE RowRoom
    <3>1. CASE d # c
      BY <1>0, <1>2, <3>1 DEF TypeOK, Read, Guessing
    <3>2. CASE d = c
      <4>1. ~Guessing(d) /\ count'[d] = failed /\ pc'[d] = step
        BY <1>2, <3>2 DEF TypeOK, Read, Guessing
      <4>2. ~locked => RowRoom = Room(failed)
        BY DEF RowRoom
      <4>3. ~(RowRoom > RowRoom)
        BY <1>0
      <4>4. ~(Guessing(d)' /\ Room(count'[d]) > RowRoom)
        <5>1. CASE locked
          BY <4>1, <5>1, <1>2 DEF Guessing
        <5>2. CASE ~locked
          BY <4>1, <4>2, <4>3, <5>2
        <5> QED BY <5>1, <5>2
      <4> QED BY <4>1, <4>4, <1>0
    <3> QED BY <3>1, <3>2
  <2> QED BY <2>1 DEF Rooms
<1> QED BY <1>1, <1>2

\* A recorded failure uses up room: the row gets one less than the call had, and
\* whoever could read more before is now below that.
LEMMA WrongShrinks ==
  ASSUME SignInInv, TypeOK', NEW c \in Calls, Wrong(c), Within(guesses, Rooms)
  PROVE  Within(guesses', Rooms')
<1>0. MaxFailures \in Nat \ {0} /\ MaxCount \in Nat
  BY SignInAssumption DEF SignInAssumption
<1>1. TypeOK /\ guesses \in Nat /\ guesses' = guesses + 1
  BY DEF SignInInv, TypeOK, Wrong, RecordFailure
<1>2. Rooms \in [Calls -> 0 .. MaxFailures] /\ Rooms' \in [Calls -> 0 .. MaxFailures]
      /\ RowRoom \in 0 .. MaxFailures /\ RowRoom' \in 0 .. MaxFailures
  BY <1>1, RoomsInRange, RoomsInRangeNext
<1>3. ASSUME NEW d \in Calls
      PROVE  /\ Rooms[d] = IF Guessing(d) /\ Room(count[d]) > RowRoom
                           THEN Room(count[d]) ELSE RowRoom
             /\ Rooms'[d] = IF Guessing(d)' /\ Room(count'[d]) > RowRoom'
                            THEN Room(count'[d]) ELSE RowRoom'
             /\ Room(count[d]) \in 1 .. MaxFailures
  BY <1>0, <1>1, RoomType DEF Rooms, TypeOK
<1>4. RowRoom' = Room(count[c]) - 1
  <2>1. count[c] \in Nat /\ failed' = count[c] + 1 /\ locked' = Locks(count[c] + 1)
    BY <1>0, <1>1 DEF TypeOK, Wrong, RecordFailure
  <2>2. Locks(count[c] + 1) \in BOOLEAN
    BY DEF Locks
  <2>3. CASE Locks(count[c] + 1)
    <3>1. locked'
      BY <2>1, <2>3, Zenon
    <3>2. RowRoom' = 0
      BY <3>1 DEF RowRoom
    <3> QED BY <1>0, <2>1, <2>3, <3>2 DEF Locks, Room
  <2>4. CASE ~Locks(count[c] + 1)
    <3>1. ~locked'
      BY <2>1, <2>2, <2>4, Zenon
    <3>2. RowRoom' = Room(count[c] + 1)
      BY <2>1, <3>1 DEF RowRoom
    <3> QED BY <1>0, <2>1, <2>4, <3>2 DEF Locks, Room
  <2> QED BY <2>3, <2>4
<1>5. Guessing(c) /\ ~Guessing(c)'
  BY <1>1 DEF Wrong, Finish, Guessing, TypeOK
<1>6. ASSUME NEW d \in Calls, d # c
      PROVE  (Guessing(d)' <=> Guessing(d)) /\ count'[d] = count[d]
  BY <1>1, <1>6 DEF Wrong, Finish, Guessing, TypeOK
<1>7. Rooms'[c] < Rooms[c]
  BY <1>0, <1>2, <1>3, <1>4, <1>5
<1>8. ASSUME NEW d \in Calls
      PROVE  /\ Rooms[d] > Rooms[c] => Rooms'[d] = Rooms[d]
             /\ Rooms[d] <= Rooms[c] => Rooms'[d] <= Rooms[c]
             /\ Rooms[d] < Rooms[c] => Rooms'[d] < Rooms[c]
  <2>1. CASE d = c
    BY <2>1, <1>2, <1>7
  <2>2. CASE d # c
    BY <2>2, <1>0, <1>2, <1>3, <1>4, <1>5, <1>6
  <2> QED BY <2>1, <2>2
<1> QED BY <1>1, <1>2, <1>7, <1>8, WithinShrinks

\* A call that ends without a write can only lose room.
LEMMA FinishShrinks ==
  ASSUME TypeOK, TypeOK', NEW c \in Calls, Finish(c), UNCHANGED lockVars,
         Within(guesses, Rooms)
  PROVE  Within(guesses', Rooms')
<1>0. MaxFailures \in Nat \ {0} /\ MaxCount \in Nat
  BY SignInAssumption DEF SignInAssumption
<1>1. guesses \in Nat /\ guesses' = guesses /\ RowRoom' = RowRoom
  BY DEF TypeOK, lockVars, RowRoom
<1>2. Rooms \in [Calls -> 0 .. MaxFailures] /\ Rooms' \in [Calls -> 0 .. MaxFailures]
      /\ RowRoom \in 0 .. MaxFailures
  BY RoomsInRange, RoomsInRangeNext
<1>3. ASSUME NEW d \in Calls
      PROVE  /\ Rooms[d] = IF Guessing(d) /\ Room(count[d]) > RowRoom
                           THEN Room(count[d]) ELSE RowRoom
             /\ Rooms'[d] = IF Guessing(d)' /\ Room(count'[d]) > RowRoom
                            THEN Room(count'[d]) ELSE RowRoom
  BY <1>1 DEF Rooms
<1>4. ASSUME NEW d \in Calls, d # c
      PROVE  Rooms'[d] = Rooms[d]
  BY <1>3, <1>4 DEF Finish, Guessing, TypeOK
<1>5. Rooms'[c] = RowRoom /\ Rooms[c] >= RowRoom
  <2>1. ~Guessing(c)'
    BY DEF Finish, Guessing, TypeOK
  <2>2. count[c] \in Nat
    BY <1>0 DEF TypeOK
  <2>3. Room(count[c]) \in 1 .. MaxFailures
    BY <2>2, RoomType
  <2> QED BY <1>0, <1>2, <1>3, <2>1, <2>3
<1>6. CASE Rooms'[c] = Rooms[c]
  <2>1. Rooms' = Rooms
    BY <1>2, <1>4, <1>6
  <2> QED BY <1>1, <2>1
<1>7. CASE Rooms'[c] < Rooms[c]
  BY <1>0, <1>1, <1>2, <1>4, <1>7, WithinShrinks
<1> QED BY <1>0, <1>2, <1>5, <1>6, <1>7

\* The invariant is inductive: resets begin a new count, other writes of the row
\* leave the counters alone.
LEMMA GuessesInvStep == GuessesInv /\ [Next]_vars => GuessesInv'
<1> SUFFICES ASSUME GuessesInv, [Next]_vars PROVE GuessesInv'
  OBVIOUS
<1>1. SignInInv /\ SignInInv' /\ TypeOK /\ TypeOK' /\ Within(guesses, Rooms)
  BY SignInInvStep DEF GuessesInv, SignInInv
<1>2. SUFFICES Within(guesses', Rooms')
  BY <1>1 DEF GuessesInv
<1>3. Rooms' \in [Calls -> 0 .. MaxFailures]
  BY <1>1, RoomsInRangeNext
<1>4. ASSUME guesses' = 0 PROVE Within(guesses', Rooms')
  BY <1>3, <1>4, WithinAtFirst
<1>5. ASSUME UNCHANGED lockVars, Rooms' = Rooms PROVE Within(guesses', Rooms')
  BY <1>1, <1>5 DEF lockVars
<1>6. ASSUME UNCHANGED lockVars, UNCHANGED <<pc, count>> PROVE Within(guesses', Rooms')
  <2>1. \E c : c \in Calls
    BY SignInAssumption DEF SignInAssumption
  <2> QED BY <1>1, <1>5, <1>6, <2>1, RoomsKeep
<1>7. ASSUME NEW c \in Calls, Login(c) \/ VerifyMfa(c) \/ ActivateMfa(c)
      PROVE  Within(guesses', Rooms')
  BY <1>1, <1>5, <1>7, RoomsKeep DEF Login, VerifyMfa, ActivateMfa
<1>8. ASSUME NEW c \in Calls, Wrong(c) PROVE Within(guesses', Rooms')
  BY <1>1, <1>8, WrongShrinks
<1>9. ASSUME NEW c \in Calls, RightPassword(c) \/ RightCode(c) PROVE Within(guesses', Rooms')
  BY <1>4, <1>9 DEF RightPassword, RightCode, ResetFailures
<1>10. ASSUME NEW c \in Calls, Activated(c) \/ CallDies(c) PROVE Within(guesses', Rooms')
  BY <1>1, <1>10, FinishShrinks DEF Activated, CallDies
<1>11. CASE SetupMfa \/ DisableMfa \/ TokensLapse \/ UNCHANGED vars
  BY <1>6, <1>11 DEF SetupMfa, DisableMfa, TokensLapse, lockVars, vars
<1>12. CASE ResetMfa \/ LockExpires \/ Unlock
  BY <1>4, <1>12 DEF ResetMfa, LockExpires, Unlock, ResetFailures
<1> QED
  BY <1>7, <1>8, <1>9, <1>10, <1>11, <1>12 DEF Next, Call

\* However many calls overlap, and whatever they read before they write, at most as
\* many failures go unpunished as there are ways to interleave them.
THEOREM GuessesAreBounded == Spec => []GuessesBounded
<1>1. Init => GuessesInv
  <2> SUFFICES ASSUME Init PROVE GuessesInv
    OBVIOUS
  <2>1. SignInInv /\ TypeOK /\ guesses = 0
    BY SignInInvInit DEF SignInInv, Init
  <2>2. Within(0, Rooms)
    BY <2>1, RoomsInRange, WithinAtFirst
  <2> QED BY <2>1, <2>2 DEF GuessesInv
<1>2. GuessesInv => GuessesBounded
  <2> SUFFICES ASSUME GuessesInv PROVE GuessesBounded
    OBVIOUS
  <2>1. guesses \in Nat /\ Within(guesses, Rooms)
    BY DEF GuessesInv, SignInInv, TypeOK
  <2>2. PICK A : /\ Covers(A, ProfileOf(Rooms))
                 /\ guesses + A[MaxFailures] <= W(MaxFailures, Parallel) - 1
    BY <2>1 DEF Within
  <2>3. MaxFailures \in 0 .. MaxFailures /\ Parallel \in 0 .. Parallel
    BY ParallelType, SignInAssumption DEF SignInAssumption
  <2>4. A[MaxFailures] \in Nat /\ W(MaxFailures, Parallel) \in Nat
    BY <2>2, <2>3, WaysPositive DEF Covers
  <2>5. guesses <= W(MaxFailures, Parallel) - 1
    BY <2>1, <2>2, <2>4
  <2> QED BY <2>5 DEF GuessesBounded, W, Parallel
<1> QED BY <1>1, <1>2, GuessesInvStep, PTL DEF Spec

\* One slow call has m + 1 ways through m counts, and two have the triangular number after that.
LEMMA WaysOfFew ==
  ASSUME NEW m \in 0 .. MaxFailures
  PROVE  /\ W(m, 1) = m + 1
         /\ Parallel >= 2 => 2 * W(m, 2) = (m + 1) * (m + 2)
<1>0. MaxFailures \in Nat /\ Parallel \in Nat /\ 0 \in 0 .. Parallel /\ 1 \in 0 .. Parallel
  BY ParallelType, SignInAssumption DEF SignInAssumption
<1> DEFINE Holds(k) == /\ W(k, 1) = k + 1
                       /\ Parallel >= 2 => 2 * W(k, 2) = (k + 1) * (k + 2)
           Bad == {k \in 0 .. MaxFailures : ~Holds(k)}
<1>1. Holds(0)
  <2>1. 0 \in 0 .. MaxFailures /\ (Parallel >= 2 => 2 \in 0 .. Parallel)
    BY <1>0
  <2>2. W(0, 1) = 1 /\ (Parallel >= 2 => W(0, 2) = 1)
    BY <1>0, <2>1, WaysRule
  <2> QED BY <2>2
<1>2. ASSUME NEW k \in 0 .. MaxFailures, k # 0, Holds(k - 1) PROVE Holds(k)
  <2>1. W(k, 0) = 1 /\ W(k, 1) = W(k - 1, 1) + W(k, 0)
    BY <1>0, <1>2, WaysRule
  <2>2. W(k, 1) = k + 1
    BY <1>2, <2>1
  <2>3. ASSUME Parallel >= 2 PROVE 2 * W(k, 2) = (k + 1) * (k + 2)
    <3>1. 2 \in 0 .. Parallel /\ k - 1 \in 0 .. MaxFailures
      BY <1>0, <1>2, <2>3
    <3>2. W(k, 2) = W(k - 1, 2) + W(k, 1)
      BY <1>2, <3>1, WaysRule
    <3>3. W(k - 1, 2) \in Nat /\ 2 * W(k - 1, 2) = k * (k + 1)
      BY <1>2, <2>3, <3>1, WaysPositive
    <3>4. 2 * W(k, 2) = k * (k + 1) + 2 * (k + 1)
      BY <2>2, <3>2, <3>3
    <3>5. k * (k + 1) + 2 * (k + 1) = (k + 1) * (k + 2)
      OBVIOUS
    <3> QED BY <3>4, <3>5
  <2> QED BY <2>2, <2>3
<1>3. Bad = {}
  <2> SUFFICES ASSUME Bad # {} PROVE FALSE
    OBVIOUS
  <2>0. Bad \in SUBSET Nat
    OBVIOUS
  <2>1. PICK k \in Bad : \A j \in Bad : k <= j
    BY <2>0, LeastElement
  <2>2. k \in 0 .. MaxFailures /\ ~Holds(k)
    OBVIOUS
  <2>3. k # 0 /\ k - 1 \in 0 .. MaxFailures
    BY <1>0, <1>1, <2>2
  <2>4. k - 1 \notin Bad
    <3> HIDE DEF Bad, Holds
    <3> QED BY <2>1, <2>2, <1>0
  <2>5. Holds(k - 1)
    BY <2>3, <2>4
  <2> HIDE DEF Holds
  <2> QED BY <1>2, <2>2, <2>3, <2>5
<1> QED BY <1>3

\* Calls that never overlap, of which one is in progress at a time, fail as often as the limit says
\* and not once more.
THEOREM OneCallIsLimited ==
  ASSUME Cardinality(Calls) = 1
  PROVE  Spec => [](guesses <= MaxFailures)
<1>1. GuessesBounded => guesses <= MaxFailures
  <2>1. W(MaxFailures, 1) = MaxFailures + 1
    BY WaysOfFew, SignInAssumption DEF SignInAssumption
  <2> QED BY <2>1, SignInAssumption DEF SignInAssumption, GuessesBounded, W
<1> QED BY <1>1, GuessesAreBounded, PTL

\* Two calls at a time get away with the triangular number after the limit, less one: 20 failures
\* under a limit of five.
THEOREM TwoCallsAreLimited ==
  ASSUME Cardinality(Calls) = 2
  PROVE  Spec => [](2 * (guesses + 1) <= (MaxFailures + 1) * (MaxFailures + 2))
<1>1. SignInInv /\ GuessesBounded => 2 * (guesses + 1) <= (MaxFailures + 1) * (MaxFailures + 2)
  <2> SUFFICES ASSUME SignInInv, GuessesBounded
               PROVE  2 * (guesses + 1) <= (MaxFailures + 1) * (MaxFailures + 2)
    OBVIOUS
  <2>1. /\ MaxFailures \in 0 .. MaxFailures /\ 2 \in 0 .. Parallel /\ Parallel >= 2
        /\ guesses \in Nat
    BY SignInAssumption DEF SignInAssumption, Parallel, SignInInv, TypeOK
  <2>2. /\ W(MaxFailures, 2) \in Nat
        /\ 2 * W(MaxFailures, 2) = (MaxFailures + 1) * (MaxFailures + 2)
    BY <2>1, WaysOfFew, WaysPositive
  <2>3. guesses <= W(MaxFailures, 2) - 1
    BY DEF GuessesBounded, W
  <2>4. 2 * (guesses + 1) <= 2 * W(MaxFailures, 2)
    BY <2>1, <2>2, <2>3
  <2> QED BY <2>2, <2>4
<1> QED BY <1>1, GuessesAreBounded, SignInInvariant, PTL
=============================================================================
