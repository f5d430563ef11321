----------------------------- MODULE ClientsProofs -----------------------------
(***************************************************************************)
(* What holds of a client's licence and roster, for any number of keys,    *)
(* addresses and concurrent calls, any limits, terms and trial; and of its *)
(* videos, the employees' dashboard and their courses, for every value of  *)
(* the constants.                                                          *)
(***************************************************************************)
EXTENDS Clients, FiniteSetTheorems, TLAPS

(* What a call in progress knows for as long as no write has overtaken it, *)
(* and what the rows themselves keep.                                      *)

Fresh(c) == tenant.there /\ c \notin stale

\* A call about to write a key, or to create an employee, holds one, and an
\* approval that counts was given a limit.
Held ==
  \A c \in Calls : /\ pc[c] \in {"revoke", "redeemCount", "claim"} => asked[c].key \in Keys
                   /\ pc[c] = "uploadCreate" => asked[c].row \in Emails
                   /\ pc[c] = "approveCount" => asked[c].limit # Keep

\* The key it holds is one that was issued.
HoldsIssued ==
  \A c \in Calls : tenant.there /\ pc[c] \in {"revoke", "redeemCount", "claim"} =>
    key[asked[c].key].issued

\* A key that was never issued has no fate; one that was redeemed activated once.
KeyLedger ==
  \A k \in Keys : /\ ~key[k].issued => ~key[k].redeemed /\ ~key[k].revoked
                  /\ activations[k] = IF key[k].redeemed THEN 1 ELSE 0

KeyKnown ==
  \A c \in Calls : Fresh(c) =>
    /\ pc[c] \in {"redeemCount", "claim"} => ~key[asked[c].key].revoked
    /\ pc[c] = "revoke" => ~key[asked[c].key].redeemed

\* Without a decision of staff or a key, a client that signed itself up has
\* neither an approval nor a term.
Uncleared == tenant.selfSignup /\ ~cleared => ~tenant.approved /\ tenant.licenceEnds = None

StatusKnown == \A c \in Calls : Fresh(c) /\ pc[c] = "erase" => tenant.status # "active"

\* What a call counted is still no less than the roster.
Knows(c) ==
  /\ pc[c] = "claim" => Fits(Cardinality(roster), key[asked[c].key].limit)
  /\ pc[c] = "licenceWrite" /\ asked[c].limit # Keep => Fits(Cardinality(roster), asked[c].limit)
  /\ pc[c] = "approveWrite" /\ asked[c].limit # Keep => Fits(Cardinality(roster), limit[c])
  /\ pc[c] = "approveWrite" /\ asked[c].limit = Keep => limit[c] = tenant.seatLimit
  /\ pc[c] \in {"uploadCount", "uploadRow", "uploadCreate"} => limit[c] = tenant.seatLimit
  /\ pc[c] \in {"uploadRow", "uploadCreate"} => Cardinality(roster) <= counted[c]
  /\ pc[c] = "uploadCreate" => SeatLeft(c)
Counted == \A c \in Calls : Fresh(c) => Knows(c)

KeyInv == HoldsIssued /\ KeyLedger /\ KeyKnown /\ KeyFates
SeatInv == Counted /\ SeatsKept
LicensingIInv == TypeOK /\ Held /\ KeyInv /\ Uncleared /\ StatusKnown /\ SeatInv

Inputs == [key : Keys \cup {None}, limit : SeatLimits \cup {Keep},
           term : Terms \cup {None, Keep}, row : Emails \cup {None}]

-----------------------------------------------------------------------------
(* Types *)

\* A client starts with well-typed rows and nobody acting on it.
LEMMA LicensingTypeInit ==
  ASSUME LicensingAssumption, Init
  PROVE  TypeOK
<1> USE DEF LicensingAssumption, SeatLimits, Days
<1>1. tenant \in [there : BOOLEAN, status : {"active"} \cup Stopped,
                  selfSignup : BOOLEAN, approved : BOOLEAN,
                  trialEnds : Days, licenceEnds : Days, seatLimit : SeatLimits]
  <2>1. CASE tenant = Onboarded
    BY <2>1 DEF Onboarded
  <2>2. ASSUME NEW n \in Limits, tenant = SignedUp(n)
        PROVE  tenant \in [there : BOOLEAN, status : {"active"} \cup Stopped,
                           selfSignup : BOOLEAN, approved : BOOLEAN,
                           trialEnds : Days, licenceEnds : Days, seatLimit : SeatLimits]
    BY <2>2 DEF SignedUp
  <2> QED BY <2>1, <2>2 DEF Init
<1>2. asked \in [Calls -> Inputs]
  BY DEF Init, NoInput, Inputs
<1>3. key \in [Keys -> [issued : BOOLEAN, limit : SeatLimits, term : Terms \cup {None},
                        expires : Nat, redeemed : BOOLEAN, revoked : BOOLEAN]]
  BY DEF Init, Unissued
<1>4. /\ pc \in [Calls -> Steps] /\ limit \in [Calls -> SeatLimits]
      /\ counted \in [Calls -> Nat] /\ rows \in [Calls -> SUBSET Emails]
      /\ activations \in [Keys -> Nat]
  BY DEF Init, Steps
<1>5. now \in 0 .. MaxTime /\ roster \subseteq Emails /\ stale \subseteq Calls /\ crossed \subseteq Keys
  BY DEF Init
<1>6. overtaken \in BOOLEAN /\ cleared \in BOOLEAN
  BY DEF Init
<1> QED BY <1>1, <1>2, <1>3, <1>4, <1>5, <1>6 DEF TypeOK, Inputs

\* A call that ends leaves every call's locals well typed.
LEMMA FinishTypes ==
  ASSUME LicensingAssumption, TypeOK, NEW c \in Calls, Finish(c)
  PROVE  /\ pc' \in [Calls -> Steps] /\ asked' \in [Calls -> Inputs]
         /\ limit' \in [Calls -> SeatLimits] /\ counted' \in [Calls -> Nat]
         /\ rows' \in [Calls -> SUBSET Emails]
BY DEF TypeOK, Finish, NoInput, Steps, SeatLimits, Inputs

\* A call that begins, or goes on to its next query, does too.
LEMMA BeginTypes ==
  ASSUME LicensingAssumption, TypeOK, NEW c \in Calls, NEW step \in Steps, NEW input \in Inputs,
         Begin(c, step, input)
  PROVE  pc' \in [Calls -> Steps] /\ asked' \in [Calls -> Inputs]
BY DEF TypeOK, Begin, Inputs

\* Every step keeps the types.
LEMMA LicensingTypeNext ==
  ASSUME LicensingAssumption, TypeOK, Held, [Next]_vars
  PROVE  TypeOK'
<1> USE DEF LicensingAssumption, SeatLimits, Days
<1> DEFINE Rows == [issued : BOOLEAN, limit : SeatLimits, term : Terms \cup {None},
                    expires : Nat, redeemed : BOOLEAN, revoked : BOOLEAN]
             TenantRows == [there : BOOLEAN, status : {"active"} \cup Stopped,
                         selfSignup : BOOLEAN, approved : BOOLEAN,
                         trialEnds : Days, licenceEnds : Days, seatLimit : SeatLimits]
<1>0. NoInput \in Inputs /\ Unissued \in Rows
  BY DEF NoInput, Inputs, Unissued
<1>1. ASSUME NEW k \in Keys, NEW grant \in Grants, Issue(k, grant) PROVE TypeOK'
  <2>1. grant[1] \in SeatLimits /\ grant[2] \in Terms \cup {None}
    OBVIOUS
  <2>2. now + Validity \in Nat
    BY DEF TypeOK
  <2>3. key' \in [Keys -> Rows]
    BY <1>1, <2>1, <2>2 DEF Issue, Unissued, TypeOK
  <2> QED BY <1>1, <2>3 DEF TypeOK, Issue, callVars, history
<1>2. ASSUME NEW s \in {"active"} \cup Stopped, SetStatus(s) PROVE TypeOK'
  <2>1. tenant' \in TenantRows
    BY <1>2 DEF SetStatus, TypeOK
  <2> QED BY <1>2, <2>1 DEF TypeOK, SetStatus, callVars, Busy
<1>3. ASSUME NEW e \in Emails, RemoveEmployee(e) PROVE TypeOK'
  <2>1. overtaken' \in BOOLEAN
    BY <1>3, Zenon DEF RemoveEmployee
  <2> QED BY <1>3, <2>1 DEF TypeOK, RemoveEmployee, callVars
<1>4. ASSUME Tick PROVE TypeOK'
  BY <1>4 DEF TypeOK, Tick, callVars, history
<1>5. ASSUME NEW c \in Calls, NEW k \in Keys, Revoke(c, k) \/ Redeem(c, k) PROVE TypeOK'
  <2>1. [NoInput EXCEPT !.key = k] \in Inputs
    BY DEF NoInput, Inputs
  <2>2. /\ pc' \in [Calls -> Steps] /\ asked' \in [Calls -> Inputs]
        /\ UNCHANGED <<accountVars, limit, counted, rows, history>>
    BY <1>5, <2>1, BeginTypes DEF Revoke, Redeem, Steps
  <2> QED BY <2>2 DEF TypeOK, Inputs, accountVars, history
<1>6. ASSUME NEW c \in Calls, NEW change \in Changes, SetLicence(c, change) PROVE TypeOK'
  <2>1. [NoInput EXCEPT !.limit = change[1], !.term = change[2]] \in Inputs
    BY DEF NoInput, Inputs
  <2>2. /\ pc' \in [Calls -> Steps] /\ asked' \in [Calls -> Inputs]
        /\ UNCHANGED <<accountVars, limit, counted, rows, history>>
    BY <1>6, <2>1, BeginTypes DEF SetLicence, Steps
  <2> QED BY <2>2 DEF TypeOK, Inputs, accountVars, history
<1>7. ASSUME NEW c \in Calls, NEW l \in Limits \cup {Keep}, Approve(c, l) PROVE TypeOK'
  <2>1. [NoInput EXCEPT !.limit = l] \in Inputs
    BY DEF NoInput, Inputs
  <2>2. pc' \in [Calls -> Steps] /\ asked' \in [Calls -> Inputs]
    BY <1>7, <2>1, BeginTypes DEF Approve, Steps
  <2>3. limit' \in [Calls -> SeatLimits]
    BY <1>7 DEF Approve, TypeOK
  <2> QED BY <1>7, <2>2, <2>3 DEF TypeOK, Approve, Inputs, accountVars, history
<1>8. ASSUME NEW c \in Calls, Remove(c) PROVE TypeOK'
  <2>1. /\ pc' \in [Calls -> Steps] /\ asked' \in [Calls -> Inputs]
        /\ UNCHANGED <<accountVars, limit, counted, rows, history>>
    BY <1>8, <1>0, BeginTypes DEF Remove, Steps
  <2> QED BY <2>1 DEF TypeOK, Inputs, accountVars, history
<1>9. ASSUME NEW c \in Calls, NEW file \in SUBSET Emails, BulkUpload(c, file) PROVE TypeOK'
  <2>1. pc' \in [Calls -> Steps] /\ asked' \in [Calls -> Inputs]
    BY <1>9, <1>0, BeginTypes DEF BulkUpload, Steps
  <2>2. limit' \in [Calls -> SeatLimits] /\ rows' \in [Calls -> SUBSET Emails]
    BY <1>9 DEF BulkUpload, TypeOK
  <2> QED BY <1>9, <2>1, <2>2 DEF TypeOK, BulkUpload, Inputs, accountVars, history
<1>10. ASSUME NEW c \in Calls, RedeemCount(c) \/ LicenceCount(c) \/ ApproveCount(c) PROVE TypeOK'
  <2>1. /\ pc' \in [Calls -> Steps]
        /\ UNCHANGED <<accountVars, asked, limit, counted, rows, history>>
    BY <1>10 DEF RedeemCount, LicenceCount, ApproveCount, Go, TypeOK, Steps
  <2> QED BY <2>1 DEF TypeOK, accountVars, history
<1>11. ASSUME NEW c \in Calls, UploadCount(c) PROVE TypeOK'
  <2>1. Cardinality(roster) \in Nat
    BY FS_Subset, FS_CardinalityType DEF TypeOK
  <2>2. pc' \in [Calls -> Steps] /\ counted' \in [Calls -> Nat]
    BY <1>11, <2>1 DEF UploadCount, Go, TypeOK, Steps
  <2> QED BY <1>11, <2>2 DEF TypeOK, UploadCount, accountVars, history
<1>12. ASSUME NEW c \in Calls, NEW e \in Emails, UploadSkip(c, e) \/ UploadRow(c, e) PROVE TypeOK'
  <2>1. /\ pc' \in [Calls -> Steps] /\ asked' \in [Calls -> Inputs] /\ rows' \in [Calls -> SUBSET Emails]
        /\ UNCHANGED <<accountVars, limit, counted, history>>
    <3>1. CASE UploadSkip(c, e)
      BY <3>1 DEF UploadSkip, TypeOK, Inputs
    <3>2. CASE UploadRow(c, e)
      <4>1. pc' \in [Calls -> Steps] /\ rows' \in [Calls -> SUBSET Emails]
        BY <3>2 DEF UploadRow, Go, TypeOK, Steps
      <4>2. asked \in [Calls -> Inputs] /\ asked' = [asked EXCEPT ![c].row = e]
        BY <3>2 DEF UploadRow, TypeOK, Inputs
      <4>3. asked' \in [Calls -> Inputs]
        BY <4>2 DEF Inputs
      <4> QED BY <3>2, <4>1, <4>3 DEF UploadRow
    <3> QED BY <1>12, <3>1, <3>2
  <2> QED BY <2>1 DEF TypeOK, Inputs, accountVars, history
<1>13. ASSUME NEW c \in Calls, RevokeWrite(c) PROVE TypeOK'
  <2>1. key' \in [Keys -> Rows]
    <3>1. key \in [Keys -> Rows] /\ key' = [key EXCEPT ![asked[c].key].revoked = TRUE]
      BY <1>13 DEF RevokeWrite, TypeOK
    <3>2. ASSUME NEW row \in Rows PROVE [row EXCEPT !.revoked = TRUE] \in Rows
      BY ZenonT(60)
    <3> QED BY <3>1, <3>2
  <2>2. stale' \subseteq Calls
    BY <1>13 DEF RevokeWrite, TypeOK, Overtake, Busy
  <2>3. crossed' \subseteq Keys
    BY <1>13 DEF RevokeWrite, TypeOK, Held
  <2> QED BY <1>13, <2>1, <2>2, <2>3, FinishTypes DEF TypeOK, RevokeWrite, Inputs
<1>14. ASSUME NEW c \in Calls, Claim(c) PROVE TypeOK'
  <2>0. PICK k \in Keys : ClaimKey(c, k, ~key[k].redeemed)
    BY <1>14 DEF Claim
  <2>1. key' \in [Keys -> Rows]
    <3>1. key \in [Keys -> Rows] /\ key' = [key EXCEPT ![k].redeemed = TRUE]
      BY <2>0 DEF ClaimKey, TypeOK
    <3> QED BY <3>1, ZenonT(60)
  <2>2. tenant' \in TenantRows
    <3>1. tenant \in TenantRows /\ key[k] \in Rows /\ now \in Nat
      BY DEF TypeOK
    <3>2. (IF key[k].term = None THEN None ELSE now + key[k].term) \in Days
      <4>1. key[k].term \in Terms \cup {None}
        BY <3>1
      <4>2. CASE key[k].term = None
        BY <4>2
      <4>3. CASE key[k].term # None
        <5>1. key[k].term \in Nat
          BY <4>1, <4>3
        <5> QED BY <3>1, <4>3, <5>1
      <4> QED BY <4>2, <4>3
    <3>3. tenant' = Licensed(k)
      BY <2>0 DEF ClaimKey
    <3> QED BY <3>1, <3>2, <3>3, ZenonT(60) DEF Licensed
  <2>3. activations' \in [Keys -> Nat] /\ crossed' \subseteq Keys
    BY <2>0 DEF ClaimKey, TypeOK
  <2>4. stale' \subseteq Calls
    BY <2>0 DEF ClaimKey, TypeOK, Overtake, Busy
  <2>5. overtaken' \in BOOLEAN /\ cleared' \in BOOLEAN
    BY <2>0, Zenon DEF ClaimKey, GiveOut
  <2>6. UNCHANGED <<now, roster>> /\ Finish(c)
    BY <2>0 DEF ClaimKey
  <2> QED BY <2>1, <2>2, <2>3, <2>4, <2>5, <2>6, FinishTypes DEF TypeOK, Inputs
<1>15. ASSUME NEW c \in Calls, LicenceWrite(c) PROVE TypeOK'
  <2>1. tenant' \in TenantRows
    <3>1. tenant \in TenantRows /\ now \in Nat /\ asked[c] \in Inputs
      BY DEF TypeOK, Inputs
    <3>2. /\ (IF asked[c].limit = Keep THEN tenant.seatLimit ELSE asked[c].limit) \in SeatLimits
          /\ (CASE asked[c].term = Keep -> tenant.licenceEnds
                [] asked[c].term = None -> None
                [] OTHER -> now + asked[c].term) \in Days
      BY <3>1 DEF Inputs
    <3> QED BY <1>15, <3>1, <3>2 DEF LicenceWrite
  <2>2. stale' \subseteq Calls
    BY <1>15 DEF LicenceWrite, TypeOK, Overtake, Busy
  <2>3. overtaken' \in BOOLEAN
    BY <1>15, Zenon DEF LicenceWrite, GiveOut
  <2>4. cleared' \in BOOLEAN
    BY <1>15, Zenon DEF LicenceWrite
  <2> QED BY <1>15, <2>1, <2>2, <2>3, <2>4, FinishTypes DEF TypeOK, Inputs, LicenceWrite
<1>16. ASSUME NEW c \in Calls, ApproveWrite(c) PROVE TypeOK'
  <2>1. tenant' \in TenantRows
    BY <1>16 DEF ApproveWrite, TypeOK
  <2>2. stale' \subseteq Calls
    BY <1>16 DEF ApproveWrite, TypeOK, Overtake, Busy
  <2>3. overtaken' \in BOOLEAN /\ cleared' \in BOOLEAN
    BY <1>16, Zenon DEF ApproveWrite, GiveOut
  <2> QED BY <1>16, <2>1, <2>2, <2>3, FinishTypes DEF TypeOK, Inputs, ApproveWrite
<1>17. ASSUME NEW c \in Calls, Erase(c) PROVE TypeOK'
  <2>1. tenant' \in TenantRows
    BY <1>17 DEF Erase, Onboarded
  <2>2. stale' \subseteq Calls
    BY <1>17 DEF Erase, TypeOK, Overtake, Busy
  <2>3. /\ key' \in [Keys -> Rows] /\ activations' \in [Keys -> Nat]
        /\ roster' \subseteq Emails /\ crossed' \subseteq Keys /\ now' \in 0 .. MaxTime
    BY <1>0, <1>17 DEF Erase, TypeOK
  <2>4. cleared' \in BOOLEAN /\ overtaken' \in BOOLEAN
    BY <1>17 DEF Erase
  <2> QED BY <1>17, <2>1, <2>2, <2>3, <2>4, FinishTypes DEF TypeOK, Inputs, Erase
<1>18. ASSUME NEW c \in Calls, UploadCreate(c) PROVE TypeOK'
  <2>1. roster' \subseteq Emails
    BY <1>18 DEF UploadCreate, TypeOK, Held
  <2>2. pc' \in [Calls -> Steps] /\ counted' \in [Calls -> Nat] /\ stale' \subseteq Calls
    BY <1>18 DEF UploadCreate, Go, TypeOK, Steps, Busy
  <2>3. asked' \in [Calls -> Inputs]
    <3>1. asked \in [Calls -> Inputs] /\ asked' = [asked EXCEPT ![c].row = None]
      BY <1>18 DEF UploadCreate, TypeOK, Inputs
    <3> QED BY <3>1 DEF Inputs
  <2>4. overtaken' \in BOOLEAN
    BY <1>18, Zenon DEF UploadCreate, GiveOut
  <2> QED BY <1>18, <2>1, <2>2, <2>3, <2>4 DEF TypeOK, Inputs, UploadCreate
<1>19. ASSUME NEW c \in Calls, CallDies(c) PROVE TypeOK'
  <2>1. /\ Finish(c) /\ stale' \subseteq Calls
        /\ UNCHANGED <<accountVars, activations, overtaken, crossed, cleared>>
    BY <1>19 DEF CallDies, ReturnOrThrow, TypeOK
  <2> QED BY <2>1, FinishTypes DEF TypeOK, Inputs, accountVars
<1>20. CASE UNCHANGED vars
  BY <1>20 DEF TypeOK, vars, accountVars, callVars, history
<1> QED
  BY <1>1, <1>2, <1>3, <1>4, <1>5, <1>6, <1>7, <1>8, <1>9, <1>10, <1>11, <1>12, <1>13,
     <1>14, <1>15, <1>16, <1>17, <1>18, <1>19, <1>20 DEF Next, Staff, Client, Step

\* What a call holds stays its own.
LEMMA HeldNext ==
  ASSUME LicensingAssumption, TypeOK, Held, [Next]_vars
  PROVE  Held'
<1> SUFFICES ASSUME NEW d \in Calls
             PROVE  /\ pc'[d] \in {"revoke", "redeemCount", "claim"} => asked'[d].key \in Keys
                    /\ pc'[d] = "uploadCreate" => asked'[d].row \in Emails
                    /\ pc'[d] = "approveCount" => asked'[d].limit # Keep
  BY DEF Held
<1> USE DEF Held, TypeOK
<1>1. CASE \/ UNCHANGED vars \/ Tick
           \/ \E k \in Keys, grant \in Grants : Issue(k, grant)
           \/ \E s \in {"active"} \cup Stopped : SetStatus(s)
           \/ \E e \in Emails : RemoveEmployee(e)
  <2>1. UNCHANGED <<pc, asked>>
    BY <1>1 DEF vars, callVars, Tick, Issue, SetStatus, RemoveEmployee
  <2> QED BY <2>1
<1>2. ASSUME NEW c \in Calls, NEW k \in Keys, Revoke(c, k) \/ Redeem(c, k) PROVE Held'
  BY <1>2 DEF Revoke, Redeem, Begin, NoInput
<1>3. ASSUME NEW c \in Calls,
             \/ \E change \in Changes : SetLicence(c, change)
             \/ \E l \in Limits \cup {Keep} : Approve(c, l)
             \/ Remove(c)
             \/ \E file \in SUBSET Emails : BulkUpload(c, file)
      PROVE  Held'
  <2>1. \E step \in {"licenceCount", "licenceWrite", "approveCount", "approveWrite", "erase",
                     "uploadCount"}, input \in Inputs :
          Begin(c, step, input) /\ (step = "approveCount" => input.limit # Keep)
    <3>1. ASSUME NEW change \in Changes, SetLicence(c, change)
          PROVE  /\ Begin(c, "licenceCount", [NoInput EXCEPT !.limit = change[1], !.term = change[2]])
                    \/ Begin(c, "licenceWrite", [NoInput EXCEPT !.limit = change[1], !.term = change[2]])
                 /\ [NoInput EXCEPT !.limit = change[1], !.term = change[2]] \in Inputs
      BY <3>1 DEF SetLicence, NoInput, Inputs, LicensingAssumption, SeatLimits
    <3>2. ASSUME NEW l \in Limits \cup {Keep}, Approve(c, l)
          PROVE  /\ \/ l # Keep /\ Begin(c, "approveCount", [NoInput EXCEPT !.limit = l])
                    \/ Begin(c, "approveWrite", [NoInput EXCEPT !.limit = l])
                 /\ [NoInput EXCEPT !.limit = l] \in Inputs /\ [NoInput EXCEPT !.limit = l].limit = l
      BY <3>2 DEF Approve, NoInput, Inputs, SeatLimits
    <3>3. NoInput \in Inputs
      BY DEF NoInput, Inputs
    <3> QED BY <1>3, <3>1, <3>2, <3>3 DEF Remove, BulkUpload
  <2> QED BY <2>1 DEF Begin
<1>4. ASSUME NEW c \in Calls,
             RedeemCount(c) \/ LicenceCount(c) \/ ApproveCount(c) \/ UploadCount(c)
      PROVE  Held'
  BY <1>4 DEF RedeemCount, LicenceCount, ApproveCount, UploadCount, Go
<1>5. ASSUME NEW c \in Calls, NEW e \in Emails, UploadSkip(c, e) \/ UploadRow(c, e) PROVE Held'
  BY <1>5 DEF UploadSkip, UploadRow, Go
<1>6. ASSUME NEW c \in Calls,
             RevokeWrite(c) \/ Claim(c) \/ LicenceWrite(c) \/ ApproveWrite(c) \/ Erase(c) \/ CallDies(c)
      PROVE  Held'
  <2>1. Finish(c)
    BY <1>6 DEF RevokeWrite, Claim, ClaimKey, LicenceWrite, ApproveWrite, Erase, CallDies, ReturnOrThrow
  <2> QED BY <2>1 DEF Finish
<1>7. ASSUME NEW c \in Calls, UploadCreate(c) PROVE Held'
  BY <1>7 DEF UploadCreate, Go
<1> QED
  BY <1>1, <1>2, <1>3, <1>4, <1>5, <1>6, <1>7 DEF Next, Staff, Client, Step

-----------------------------------------------------------------------------
(* Keys *)

\* What happens to keys: the steps of a call that writes none leave the keys,
\* and the calls that have come to a step that matters to one, as they are.
LEMMA KeyInvNext ==
  ASSUME LicensingAssumption, TypeOK, Held, KeyInv, [Next]_vars
  PROVE  KeyInv'
<1> USE DEF KeyInv, TypeOK
<1> DEFINE Quiet == /\ UNCHANGED <<key, activations, crossed, tenant.there>>
                    /\ stale \subseteq stale'
                    /\ \A d \in Calls : pc'[d] \in {"revoke", "redeemCount", "claim"} =>
                         pc[d] = pc'[d] /\ asked[d].key = asked'[d].key
<1>1. Quiet => KeyInv'
  BY DEF HoldsIssued, KeyLedger, KeyKnown, KeyFates, Fresh
<1>2. CASE UNCHANGED vars \/ Tick
  BY <1>1, <1>2 DEF vars, accountVars, callVars, history, Tick
<1>3. ASSUME NEW k \in Keys, NEW grant \in Grants, Issue(k, grant) PROVE KeyInv'
  <2>1. /\ ~key[k].issued /\ tenant.there
        /\ \A l \in Keys : l # k => key'[l] = key[l]
        /\ key'[k].issued /\ ~key'[k].redeemed /\ ~key'[k].revoked
        /\ UNCHANGED <<tenant, pc, asked, activations, stale, crossed>>
    BY <1>3 DEF Issue, Unissued, callVars, history
  <2>2. ~key[k].redeemed /\ ~key[k].revoked
    BY <2>1 DEF KeyLedger
  <2>3. \A d \in Calls : pc[d] \in {"revoke", "redeemCount", "claim"} =>
           asked[d].key \in Keys /\ asked[d].key # k
    BY <2>1 DEF Held, HoldsIssued
  <2> QED BY <2>1, <2>2, <2>3, ZenonT(60) DEF HoldsIssued, KeyLedger, KeyKnown, KeyFates, Fresh
<1>4. ASSUME NEW s \in {"active"} \cup Stopped, SetStatus(s) PROVE KeyInv'
  BY <1>1, <1>4 DEF SetStatus, callVars
<1>5. ASSUME NEW e \in Emails, RemoveEmployee(e) PROVE KeyInv'
  BY <1>1, <1>5 DEF RemoveEmployee, callVars
<1>6. ASSUME NEW c \in Calls, NEW k \in Keys, Revoke(c, k) \/ Redeem(c, k) PROVE KeyInv'
  <2>1. /\ UNCHANGED <<key, activations, crossed, tenant, stale>>
        /\ key[k].issued /\ ~key[k].redeemed
        /\ \A d \in Calls : d # c => pc'[d] = pc[d] /\ asked'[d] = asked[d]
        /\ pc'[c] \in {"revoke", "redeemCount", "claim"} /\ asked'[c].key = k
        /\ pc'[c] # "revoke" => ~key[k].revoked
    BY <1>6 DEF Revoke, Redeem, Redeemable, Begin, NoInput, accountVars, history
  <2> QED BY <2>1, SMTT(60) DEF HoldsIssued, KeyLedger, KeyKnown, KeyFates, Fresh
<1>7. ASSUME NEW c \in Calls, RedeemCount(c) PROVE KeyInv'
  <2>1. /\ UNCHANGED <<key, activations, crossed, tenant, stale, asked>>
        /\ pc[c] = "redeemCount" /\ pc' = [pc EXCEPT ![c] = "claim"]
    BY <1>7 DEF RedeemCount, Go, accountVars, history
  <2> QED BY <2>1 DEF HoldsIssued, KeyLedger, KeyKnown, KeyFates, Fresh
<1>8. ASSUME NEW c \in Calls,
             \/ \E change \in Changes : SetLicence(c, change)
             \/ \E l \in Limits \cup {Keep} : Approve(c, l)
             \/ Remove(c)
             \/ \E file \in SUBSET Emails : BulkUpload(c, file)
      PROVE  KeyInv'
  <2>1. /\ UNCHANGED <<key, activations, crossed, tenant, stale>>
        /\ \A d \in Calls : d # c => pc'[d] = pc[d] /\ asked'[d] = asked[d]
        /\ pc'[c] \notin {"revoke", "redeemCount", "claim"}
    BY <1>8, ZenonT(60) DEF SetLicence, Approve, Remove, BulkUpload, Begin, accountVars, history
  <2> QED BY <1>1, <2>1
<1>9. ASSUME NEW c \in Calls, LicenceCount(c) \/ ApproveCount(c) \/ UploadCount(c) PROVE KeyInv'
  BY <1>1, <1>9 DEF LicenceCount, ApproveCount, UploadCount, Go, accountVars, history
<1>10. ASSUME NEW c \in Calls, NEW e \in Emails, UploadSkip(c, e) \/ UploadRow(c, e) PROVE KeyInv'
  BY <1>1, <1>10 DEF UploadSkip, UploadRow, Go, accountVars, history
<1>11. ASSUME NEW c \in Calls, UploadCreate(c) PROVE KeyInv'
  BY <1>1, <1>11 DEF UploadCreate, Go
<1>12. ASSUME NEW c \in Calls, CallDies(c) PROVE KeyInv'
  <2>1. /\ UNCHANGED <<key, activations, crossed, tenant>> /\ stale' = stale \ {c}
        /\ Finish(c)
    BY <1>12 DEF CallDies, ReturnOrThrow, accountVars
  <2> QED BY <2>1 DEF Finish, HoldsIssued, KeyLedger, KeyKnown, KeyFates, Fresh
<1>13. ASSUME NEW c \in Calls, LicenceWrite(c) \/ ApproveWrite(c) PROVE KeyInv'
  <2>1. /\ UNCHANGED <<key, activations, crossed>> /\ tenant.there /\ tenant'.there
        /\ stale' = (stale \cup Busy) \ {c} /\ Finish(c)
    BY <1>13 DEF LicenceWrite, ApproveWrite, Overtake
  <2> QED BY <2>1 DEF Finish, HoldsIssued, KeyLedger, KeyKnown, KeyFates, Fresh
<1>14. ASSUME NEW c \in Calls, RevokeWrite(c) PROVE KeyInv'
  <2>1. asked[c].key \in Keys /\ key[asked[c].key].issued
    BY <1>14 DEF RevokeWrite, Held, HoldsIssued
  <2>2. PICK k \in Keys : /\ k = asked[c].key /\ key[k].issued
                          /\ pc[c] = "revoke" /\ tenant.there
    BY <1>14, <2>1 DEF RevokeWrite
  <2>3. /\ \A l \in Keys : l # k => key'[l] = key[l]
        /\ key'[k] = [key[k] EXCEPT !.revoked = TRUE]
        /\ key'[k].revoked /\ key'[k].issued /\ key'[k].redeemed = key[k].redeemed
        /\ UNCHANGED <<tenant, activations>> /\ stale' = (stale \cup Busy) \ {c} /\ Finish(c)
        /\ crossed' = IF c \in stale THEN crossed \cup {k} ELSE crossed
    BY <1>14, <2>2, ZenonT(60) DEF RevokeWrite, Overtake
  <2>4. \A d \in Calls : pc'[d] # "idle" => d # c /\ pc'[d] = pc[d] /\ asked'[d] = asked[d] /\ d \in stale'
    BY <2>3 DEF Finish, Busy
  <2>5. HoldsIssued'
    BY <2>2, <2>3, <2>4 DEF HoldsIssued, Held
  <2>6. KeyLedger'
    BY <2>2, <2>3 DEF KeyLedger
  <2>7. KeyKnown'
    BY <2>4 DEF KeyKnown, Fresh
  <2>8. key[k].redeemed => c \in stale
    BY <2>2 DEF KeyKnown, Fresh
  <2>9. KeyFates'
    BY <2>3, <2>8 DEF KeyFates
  <2> QED BY <2>5, <2>6, <2>7, <2>9
<1>15. ASSUME NEW c \in Calls, Claim(c) PROVE KeyInv'
  <2>1. PICK k \in Keys : ClaimKey(c, k, ~key[k].redeemed)
    BY <1>15 DEF Claim
  <2>2. k = asked[c].key /\ key[k].issued /\ pc[c] = "claim" /\ tenant.there /\ ~key[k].redeemed
    BY <2>1 DEF ClaimKey, HoldsIssued
  <2>3. /\ \A l \in Keys : l # k => key'[l] = key[l] /\ activations'[l] = activations[l]
        /\ key'[k] = [key[k] EXCEPT !.redeemed = TRUE]
        /\ key'[k].redeemed /\ key'[k].issued /\ key'[k].revoked = key[k].revoked
        /\ activations'[k] = activations[k] + 1
        /\ stale' = (stale \cup Busy) \ {c} /\ Finish(c)
        /\ crossed' = IF c \in stale THEN crossed \cup {k} ELSE crossed
    BY <2>1, <2>2 DEF ClaimKey, Overtake
  <2>4. \A d \in Calls : pc'[d] # "idle" => d # c /\ pc'[d] = pc[d] /\ asked'[d] = asked[d] /\ d \in stale'
    BY <2>3 DEF Finish, Busy
  <2>5. HoldsIssued'
    BY <2>2, <2>3, <2>4, SMTT(60) DEF HoldsIssued, Held
  <2>6. KeyLedger'
    BY <2>2, <2>3, SMTT(60) DEF KeyLedger
  <2>7. KeyKnown'
    BY <2>4 DEF KeyKnown, Fresh
  <2>8. key[k].revoked => c \in stale
    BY <2>2 DEF KeyKnown, Fresh
  <2>9. KeyFates'
    BY <2>3, <2>8 DEF KeyFates
  <2> QED BY <2>5, <2>6, <2>7, <2>9
<1>16. ASSUME NEW c \in Calls, Erase(c) PROVE KeyInv'
  <2>1. /\ ~tenant'.there
        /\ \A k \in Keys : /\ ~key'[k].issued /\ ~key'[k].redeemed /\ ~key'[k].revoked
                           /\ activations'[k] = 0
    BY <1>16 DEF Erase, Onboarded, Unissued
  <2> QED BY <2>1 DEF HoldsIssued, KeyLedger, KeyKnown, KeyFates, Fresh
<1> QED
  BY <1>2, <1>3, <1>4, <1>5, <1>6, <1>7, <1>8, <1>9, <1>10, <1>11, <1>12, <1>13, <1>14,
     <1>15, <1>16 DEF Next, Staff, Client, Step

-----------------------------------------------------------------------------
(* Approval and deletion *)

\* What staff decide, and what a key grants, is what clears a client.
LEMMA UnclearedNext ==
  ASSUME LicensingAssumption, TypeOK, Uncleared, [Next]_vars
  PROVE  Uncleared'
<1> USE DEF Uncleared
<1>1. (cleared' <=> cleared) /\ UNCHANGED <<tenant.selfSignup, tenant.approved, tenant.licenceEnds>>
      => Uncleared'
  OBVIOUS
<1>2. CASE UNCHANGED vars \/ Tick \/ \E k \in Keys, grant \in Grants : Issue(k, grant)
  BY <1>1, <1>2 DEF vars, accountVars, history, Tick, Issue
<1>3. ASSUME NEW s \in {"active"} \cup Stopped, SetStatus(s) PROVE Uncleared'
  BY <1>1, <1>3 DEF SetStatus, TypeOK
<1>4. ASSUME NEW e \in Emails, RemoveEmployee(e) PROVE Uncleared'
  BY <1>1, <1>4 DEF RemoveEmployee
<1>5. ASSUME NEW c \in Calls,
             \/ \E k \in Keys : Revoke(c, k) \/ Redeem(c, k)
             \/ \E change \in Changes : SetLicence(c, change)
             \/ \E l \in Limits \cup {Keep} : Approve(c, l)
             \/ Remove(c)
             \/ \E file \in SUBSET Emails : BulkUpload(c, file)
      PROVE  Uncleared'
  BY <1>1, <1>5 DEF Revoke, Redeem, SetLicence, Approve, Remove, BulkUpload, accountVars, history
<1>6. ASSUME NEW c \in Calls,
             \/ RedeemCount(c) \/ LicenceCount(c) \/ ApproveCount(c) \/ UploadCount(c)
             \/ UploadCreate(c) \/ CallDies(c) \/ RevokeWrite(c)
             \/ \E e \in Emails : UploadSkip(c, e) \/ UploadRow(c, e)
      PROVE  Uncleared'
  BY <1>1, <1>6 DEF RedeemCount, LicenceCount, ApproveCount, UploadCount, UploadCreate, CallDies,
                    ReturnOrThrow, RevokeWrite, UploadSkip, UploadRow, accountVars, history
<1>7. ASSUME NEW c \in Calls, Claim(c) \/ ApproveWrite(c) PROVE Uncleared'
  BY <1>7 DEF Claim, ClaimKey, ApproveWrite
<1>8. ASSUME NEW c \in Calls, LicenceWrite(c) PROVE Uncleared'
  <2>1. asked[c].term \in Terms \cup {None, Keep}
    BY DEF TypeOK
  <2>2. CASE asked[c].term \in Terms
    BY <1>8, <2>2 DEF LicenceWrite
  <2>3. CASE asked[c].term = Keep
    BY <1>1, <1>8, <2>3 DEF LicenceWrite, TypeOK, LicensingAssumption
  <2>4. CASE asked[c].term = None
    <3>1. /\ tenant'.licenceEnds = None /\ UNCHANGED <<tenant.selfSignup, tenant.approved>>
          /\ (cleared' <=> cleared)
      BY <1>8, <2>4 DEF LicenceWrite, TypeOK, LicensingAssumption
    <3> QED BY <3>1
  <2> QED BY <2>1, <2>2, <2>3, <2>4
<1>9. ASSUME NEW c \in Calls, Erase(c) PROVE Uncleared'
  BY <1>9 DEF Erase, Onboarded
<1> QED
  BY <1>2, <1>3, <1>4, <1>5, <1>6, <1>7, <1>8, <1>9 DEF Next, Staff, Client, Step

\* A deletion still knows the status that it checked, unless it was overtaken.
LEMMA StatusKnownNext ==
  ASSUME LicensingAssumption, TypeOK, StatusKnown, [Next]_vars
  PROVE  StatusKnown'
<1> USE DEF StatusKnown, Fresh, TypeOK
<1> DEFINE Quiet == /\ UNCHANGED tenant /\ stale \subseteq stale'
                    /\ \A d \in Calls : pc'[d] = "erase" => pc[d] = "erase"
<1>1. Quiet => StatusKnown'
  OBVIOUS
<1>2. CASE UNCHANGED vars \/ Tick \/ \E k \in Keys, grant \in Grants : Issue(k, grant)
  BY <1>1, <1>2 DEF vars, accountVars, callVars, history, Tick, Issue
<1>3. ASSUME NEW s \in {"active"} \cup Stopped, SetStatus(s) PROVE StatusKnown'
  BY <1>3 DEF SetStatus, Busy, callVars
<1>4. ASSUME NEW e \in Emails, RemoveEmployee(e) PROVE StatusKnown'
  BY <1>1, <1>4 DEF RemoveEmployee, callVars
<1>5. ASSUME NEW c \in Calls,
             \/ \E k \in Keys : Revoke(c, k) \/ Redeem(c, k)
             \/ \E change \in Changes : SetLicence(c, change)
             \/ \E l \in Limits \cup {Keep} : Approve(c, l)
             \/ \E file \in SUBSET Emails : BulkUpload(c, file)
      PROVE  StatusKnown'
  BY <1>1, <1>5, ZenonT(60) DEF Revoke, Redeem, SetLicence, Approve, BulkUpload, Begin, accountVars, history
<1>6. ASSUME NEW c \in Calls, Remove(c) PROVE StatusKnown'
  BY <1>6 DEF Remove, Begin, accountVars, history
<1>7. ASSUME NEW c \in Calls,
             \/ RedeemCount(c) \/ LicenceCount(c) \/ ApproveCount(c) \/ UploadCount(c)
             \/ \E e \in Emails : UploadSkip(c, e) \/ UploadRow(c, e)
      PROVE  StatusKnown'
  BY <1>1, <1>7 DEF RedeemCount, LicenceCount, ApproveCount, UploadCount, UploadSkip, UploadRow,
                    Go, accountVars, history
<1>8. ASSUME NEW c \in Calls, UploadCreate(c) PROVE StatusKnown'
  BY <1>1, <1>8 DEF UploadCreate, Go
<1>9. ASSUME NEW c \in Calls, CallDies(c) PROVE StatusKnown'
  BY <1>9 DEF CallDies, ReturnOrThrow, Finish, accountVars
<1>10. ASSUME NEW c \in Calls,
              RevokeWrite(c) \/ Claim(c) \/ LicenceWrite(c) \/ ApproveWrite(c) \/ Erase(c)
       PROVE  StatusKnown'
  <2>1. stale' = (stale \cup Busy) \ {c} /\ Finish(c)
    BY <1>10 DEF RevokeWrite, Claim, ClaimKey, LicenceWrite, ApproveWrite, Erase, Overtake
  <2> QED BY <2>1 DEF Finish, Busy
<1> QED
  BY <1>2, <1>3, <1>4, <1>5, <1>6, <1>7, <1>8, <1>9, <1>10 DEF Next, Staff, Client, Step

-----------------------------------------------------------------------------
(* Seats *)

\* The roster is finite, so that its size is a number to compare.
LEMMA RosterSize ==
  ASSUME LicensingAssumption, TypeOK
  PROVE  IsFiniteSet(roster) /\ Cardinality(roster) \in Nat
BY FS_Subset, FS_CardinalityType DEF LicensingAssumption, TypeOK

\* A seat limit that fits a roster fits a smaller one.
LEMMA FitsFewer ==
  ASSUME NEW m \in Nat, NEW n \in Nat, NEW l, l = None \/ l \in Nat, m <= n, Fits(n, l)
  PROVE  Fits(m, l)
BY DEF Fits

\* What a call knows stays true while the client's seats, the limits of its
\* keys and the call itself stay as they are, and the roster does not grow.
LEMMA KnowsKept ==
  ASSUME LicensingAssumption, TypeOK, TypeOK', Held, NEW d \in Calls, Knows(d),
         tenant'.seatLimit = tenant.seatLimit,
         pc[d] = "claim" => key'[asked[d].key].limit = key[asked[d].key].limit,
         Cardinality(roster') <= Cardinality(roster),
         pc'[d] = pc[d], asked'[d] = asked[d], limit'[d] = limit[d], counted'[d] = counted[d]
  PROVE  Knows(d)'
<1>1. Cardinality(roster) \in Nat /\ IsFiniteSet(roster)
  BY RosterSize
<1>2. Cardinality(roster') \in Nat
  BY FS_Subset, FS_CardinalityType DEF LicensingAssumption, TypeOK
<1>3. counted[d] \in Nat /\ limit[d] \in Nat \cup {None} /\ asked[d].limit \in Nat \cup {None, Keep}
  BY DEF TypeOK, SeatLimits, LicensingAssumption
<1>4. pc[d] = "claim" => asked[d].key \in Keys /\ key[asked[d].key].limit \in Nat \cup {None}
  BY DEF TypeOK, Held, SeatLimits, LicensingAssumption
<1>5. (pc[d] = "claim" => Fits(Cardinality(roster), key[asked[d].key].limit))'
  BY <1>1, <1>2, <1>4 DEF Knows, Fits
<1>6. (pc[d] = "licenceWrite" /\ asked[d].limit # Keep => Fits(Cardinality(roster), asked[d].limit))'
  BY <1>1, <1>2, <1>3 DEF Knows, Fits
<1>7. (pc[d] = "approveWrite" /\ asked[d].limit # Keep => Fits(Cardinality(roster), limit[d]))'
  BY <1>1, <1>2, <1>3 DEF Knows, Fits
<1>8. (pc[d] \in {"uploadRow", "uploadCreate"} => Cardinality(roster) <= counted[d])'
  BY <1>1, <1>2, <1>3 DEF Knows
<1> QED BY <1>5, <1>6, <1>7, <1>8 DEF Knows, SeatLeft

\* The roster fits the limit, and each call that gives seats out still knows
\* what it counted, unless it was overtaken.
LEMMA SeatInvNext ==
  ASSUME LicensingAssumption, TypeOK, TypeOK', Held, HoldsIssued, SeatInv, [Next]_vars
  PROVE  SeatInv'
<1> USE DEF SeatInv
<1>0. IsFiniteSet(roster) /\ Cardinality(roster) \in Nat
  BY RosterSize
<1> DEFINE Same(d) == /\ pc'[d] = pc[d] /\ asked'[d] = asked[d]
                      /\ limit'[d] = limit[d] /\ counted'[d] = counted[d]
           Rest == /\ UNCHANGED <<roster, tenant, overtaken>> /\ stale \subseteq stale'
                   /\ \A d \in Calls : Fresh(d) /\ pc[d] = "claim" =>
                        key'[asked[d].key].limit = key[asked[d].key].limit
\* Nothing that seats depend on changes, and the call that moves knows what it counted.
<1>1. ASSUME Rest, \A d \in Calls : Same(d) \/ (Fresh(d)' => Knows(d)')
      PROVE  SeatInv'
  <2>1. ASSUME NEW d \in Calls, Fresh(d)', Same(d) PROVE Knows(d)'
    BY <1>0, <1>1, <2>1, KnowsKept DEF Fresh, Counted
  <2> QED BY <1>1, <2>1 DEF Counted, SeatsKept
\* A write of c overtakes every other call; what is left is that the roster fits.
<1>2. ASSUME NEW c \in Calls, Finish(c), Overtake(c), SeatsKept' PROVE SeatInv'
  <2>1. ASSUME NEW d \in Calls, Fresh(d)' PROVE Knows(d)'
    <3>1. pc'[d] = "idle"
      BY <1>2, <2>1 DEF Finish, Overtake, Busy, Fresh, TypeOK
    <3> QED BY <3>1 DEF Knows
  <2> QED BY <1>2, <2>1 DEF Counted
<1>3. CASE UNCHANGED vars \/ Tick
  BY <1>1, <1>3 DEF vars, accountVars, callVars, history, Tick
<1>4. ASSUME NEW k \in Keys, NEW grant \in Grants, Issue(k, grant) PROVE SeatInv'
  <2>1. /\ ~key[k].issued /\ tenant.there /\ UNCHANGED <<roster, tenant, callVars, history>>
        /\ \A l \in Keys : l # k => key'[l] = key[l]
    BY <1>4 DEF Issue
  <2>2. \A d \in Calls : pc[d] = "claim" => asked[d].key \in Keys /\ asked[d].key # k
    BY <2>1 DEF Held, HoldsIssued
  <2> QED BY <1>1, <2>1, <2>2 DEF callVars, history
<1>5. ASSUME NEW s \in {"active"} \cup Stopped, SetStatus(s) PROVE SeatInv'
  <2>1. /\ UNCHANGED <<key, roster, pc, asked, limit, counted, overtaken>>
        /\ tenant.there /\ tenant'.seatLimit = tenant.seatLimit /\ stale' = stale \cup Busy
    BY <1>5 DEF SetStatus, callVars, TypeOK
  <2>2. ASSUME NEW d \in Calls, Fresh(d)' PROVE Knows(d)'
    <3>1. pc'[d] = "idle"
      BY <2>1, <2>2 DEF Busy, Fresh
    <3> QED BY <3>1 DEF Knows
  <2> QED BY <2>1, <2>2 DEF Counted, SeatsKept
<1>6. ASSUME NEW e \in Emails, RemoveEmployee(e) PROVE SeatInv'
  <2>1. /\ e \in roster /\ roster' = roster \ {e} /\ UNCHANGED <<tenant, key, callVars, stale>>
        /\ overtaken' = (overtaken /\ ~Fits(Cardinality(roster'), tenant.seatLimit))
    BY <1>6 DEF RemoveEmployee
  <2>2. Cardinality(roster') = Cardinality(roster) - 1
    BY <1>0, <2>1, FS_RemoveElement
  <2>3. ASSUME NEW d \in Calls, Fresh(d)' PROVE Knows(d)'
    <3>1. Knows(d)
      BY <2>1, <2>3 DEF Fresh, Counted
    <3>2. Cardinality(roster') <= Cardinality(roster)
      BY <1>0, <2>2
    <3> QED BY <2>1, <3>1, <3>2, KnowsKept DEF callVars
  <2>4. Fits(Cardinality(roster), tenant.seatLimit) => Fits(Cardinality(roster'), tenant.seatLimit)
    <3>1. tenant.seatLimit \in Nat \/ tenant.seatLimit = None
      BY DEF TypeOK, SeatLimits, LicensingAssumption
    <3> QED BY <1>0, <2>2, <3>1 DEF Fits
  <2> QED BY <2>1, <2>3, <2>4 DEF Counted, SeatsKept
<1>7. ASSUME NEW c \in Calls, NEW k \in Keys, Redeem(c, k) PROVE SeatInv'
  <2>1. /\ UNCHANGED <<accountVars, limit, counted, history>>
        /\ \A d \in Calls : d # c => Same(d)
        /\ pc'[c] \in {"claim", "redeemCount"} /\ asked'[c].key = k
        /\ pc'[c] = "claim" => key[k].limit = None
    BY <1>7 DEF Redeem, Begin, NoInput, TypeOK
  <2>2. Knows(c)'
    BY <2>1 DEF Knows, Fits, accountVars
  <2> QED BY <1>1, <2>1, <2>2 DEF accountVars, history
<1>8. ASSUME NEW c \in Calls,
             \/ \E k \in Keys : Revoke(c, k)
             \/ Remove(c)
      PROVE  SeatInv'
  <2>1. /\ UNCHANGED <<accountVars, limit, counted, history>>
        /\ \A d \in Calls : d # c => Same(d)
        /\ pc'[c] \in {"revoke", "erase"}
    BY <1>8 DEF Revoke, Remove, Begin, TypeOK
  <2>2. Knows(c)'
    BY <2>1 DEF Knows
  <2> QED BY <1>1, <2>1, <2>2 DEF accountVars, history
<1>9. ASSUME NEW c \in Calls, NEW change \in Changes, SetLicence(c, change) PROVE SeatInv'
  <2>1. /\ UNCHANGED <<accountVars, limit, counted, history>>
        /\ \A d \in Calls : d # c => Same(d)
        /\ asked'[c].limit = change[1]
        /\ pc'[c] = IF change[1] \in Limits THEN "licenceCount" ELSE "licenceWrite"
    BY <1>9 DEF SetLicence, Begin, NoInput, TypeOK
  <2>2. change[1] \in Limits \cup {None, Keep}
    BY DEF LicensingAssumption
  <2>3. Knows(c)'
    BY <2>1, <2>2 DEF Knows, Fits
  <2> QED BY <1>1, <2>1, <2>3 DEF accountVars, history
<1>10. ASSUME NEW c \in Calls, NEW l \in Limits \cup {Keep}, Approve(c, l) PROVE SeatInv'
  <2>1. /\ UNCHANGED <<accountVars, counted, history>>
        /\ \A d \in Calls : d # c => Same(d)
        /\ asked'[c].limit = l
        /\ pc'[c] = IF l = Keep THEN "approveWrite" ELSE "approveCount"
        /\ l = Keep => limit'[c] = tenant.seatLimit
    BY <1>10 DEF Approve, Begin, NoInput, TypeOK
  <2>2. Knows(c)'
    BY <2>1 DEF Knows, accountVars
  <2> QED BY <1>1, <2>1, <2>2 DEF accountVars, history
<1>11. ASSUME NEW c \in Calls, NEW file \in SUBSET Emails, BulkUpload(c, file) PROVE SeatInv'
  <2>1. /\ UNCHANGED <<accountVars, counted, history>>
        /\ \A d \in Calls : d # c => Same(d)
        /\ pc'[c] = "uploadCount" /\ limit'[c] = tenant.seatLimit
    BY <1>11 DEF BulkUpload, Begin, TypeOK
  <2>2. Knows(c)'
    BY <2>1 DEF Knows, accountVars
  <2> QED BY <1>1, <2>1, <2>2 DEF accountVars, history
<1>12. ASSUME NEW c \in Calls, RedeemCount(c) \/ LicenceCount(c) \/ ApproveCount(c) PROVE SeatInv'
  <2>1. /\ UNCHANGED <<accountVars, asked, limit, counted, history>>
        /\ \A d \in Calls : d # c => Same(d)
        /\ \/ pc'[c] = "claim" /\ Fits(Cardinality(roster), key[asked[c].key].limit)
           \/ pc'[c] = "licenceWrite" /\ Fits(Cardinality(roster), asked[c].limit)
           \/ pc[c] = "approveCount" /\ pc'[c] = "approveWrite" /\ Fits(Cardinality(roster), limit[c])
    BY <1>12 DEF RedeemCount, LicenceCount, ApproveCount, Go, TypeOK
  <2>2. pc[c] = "approveCount" => asked[c].limit # Keep
    BY DEF Held
  <2>3. Knows(c)'
    BY <2>1, <2>2 DEF Knows, accountVars
  <2> QED BY <1>1, <2>1, <2>3 DEF accountVars, history
<1>13. ASSUME NEW c \in Calls, UploadCount(c) PROVE SeatInv'
  <2>1. /\ UNCHANGED <<accountVars, asked, limit, history>>
        /\ \A d \in Calls : d # c => Same(d)
        /\ pc[c] = "uploadCount" /\ pc'[c] = "uploadRow" /\ counted'[c] = Cardinality(roster)
    BY <1>13 DEF UploadCount, Go, TypeOK
  <2>2. Fresh(c) => Knows(c)'
    BY <1>0, <2>1 DEF Knows, accountVars, Counted
  <2> QED BY <1>1, <2>1, <2>2 DEF accountVars, history, Fresh
<1>14. ASSUME NEW c \in Calls, NEW e \in Emails, UploadSkip(c, e) PROVE SeatInv'
  <2>1. UNCHANGED <<accountVars, pc, asked, limit, counted, history>>
    BY <1>14 DEF UploadSkip
  <2> QED BY <1>1, <2>1 DEF accountVars, history
<1>15. ASSUME NEW c \in Calls, NEW e \in Emails, UploadRow(c, e) PROVE SeatInv'
  <2>1. /\ UNCHANGED <<accountVars, limit, counted, history>>
        /\ \A d \in Calls : d # c => Same(d)
        /\ pc[c] = "uploadRow" /\ pc'[c] = "uploadCreate" /\ SeatLeft(c)
    BY <1>15 DEF UploadRow, Go, TypeOK
  <2>2. Fresh(c) => Knows(c)'
    BY <2>1 DEF Knows, accountVars, Counted, SeatLeft
  <2> QED BY <1>1, <2>1, <2>2 DEF accountVars, history, Fresh
<1>16. ASSUME NEW c \in Calls, CallDies(c) PROVE SeatInv'
  <2>1. /\ UNCHANGED <<key, roster, tenant, overtaken>> /\ stale' = stale \ {c} /\ Finish(c)
    BY <1>16 DEF CallDies, ReturnOrThrow, accountVars
  <2>2. ASSUME NEW d \in Calls, Fresh(d)' PROVE Knows(d)'
    <3>1. CASE d = c
      BY <2>1, <3>1 DEF Finish, Knows, TypeOK
    <3>2. CASE d # c
      BY <1>0, <2>1, <2>2, <3>2, KnowsKept DEF Finish, Fresh, Counted, TypeOK
    <3> QED BY <3>1, <3>2
  <2> QED BY <2>1, <2>2 DEF Counted, SeatsKept
<1>17. ASSUME NEW c \in Calls, RevokeWrite(c) PROVE SeatInv'
  <2>1. SeatsKept'
    BY <1>17 DEF RevokeWrite, SeatsKept
  <2> QED BY <1>2, <1>17, <2>1 DEF RevokeWrite
<1>18. ASSUME NEW c \in Calls, Claim(c) PROVE SeatInv'
  <2>1. PICK k \in Keys : ClaimKey(c, k, ~key[k].redeemed)
    BY <1>18 DEF Claim
  <2>2. c \notin stale => Fits(Cardinality(roster'), tenant'.seatLimit)
    BY <2>1 DEF ClaimKey, Licensed, Counted, Knows, Fresh, TypeOK
  <2>3. SeatsKept'
    BY <2>1, <2>2 DEF ClaimKey, GiveOut, SeatsKept
  <2> QED BY <1>2, <2>1, <2>3 DEF ClaimKey
<1>19. ASSUME NEW c \in Calls, LicenceWrite(c) PROVE SeatInv'
  <2>1. /\ roster' = roster /\ pc[c] = "licenceWrite" /\ tenant.there
        /\ tenant'.seatLimit = IF asked[c].limit = Keep THEN tenant.seatLimit ELSE asked[c].limit
        /\ GiveOut(c) /\ Overtake(c) /\ Finish(c)
    BY <1>19 DEF LicenceWrite, TypeOK
  <2>2. \/ Fits(Cardinality(roster'), tenant'.seatLimit)
        \/ c \in stale
        \/ overtaken
    BY <2>1 DEF Counted, Knows, Fresh, SeatsKept
  <2>3. SeatsKept'
    BY <2>1, <2>2 DEF GiveOut, SeatsKept
  <2> QED BY <1>2, <2>1, <2>3
<1>20. ASSUME NEW c \in Calls, ApproveWrite(c) PROVE SeatInv'
  <2>1. /\ roster' = roster /\ pc[c] = "approveWrite" /\ tenant.there
        /\ tenant'.seatLimit = limit[c]
        /\ GiveOut(c) /\ Overtake(c) /\ Finish(c)
    BY <1>20 DEF ApproveWrite, TypeOK
  <2>2. \/ Fits(Cardinality(roster'), tenant'.seatLimit)
        \/ c \in stale
        \/ overtaken
    BY <2>1 DEF Counted, Knows, Fresh, SeatsKept
  <2>3. SeatsKept'
    BY <2>1, <2>2 DEF GiveOut, SeatsKept
  <2> QED BY <1>2, <2>1, <2>3
<1>21. ASSUME NEW c \in Calls, Erase(c) PROVE SeatInv'
  <2>1. SeatsKept'
    BY <1>21 DEF Erase, Onboarded, SeatsKept, Fits
  <2> QED BY <1>2, <1>21, <2>1 DEF Erase
<1>22. ASSUME NEW c \in Calls, UploadCreate(c) PROVE SeatInv'
  <2>1. /\ pc[c] = "uploadCreate" /\ tenant.there /\ asked[c].row \notin roster
        /\ roster' = roster \cup {asked[c].row} /\ UNCHANGED <<tenant, key, limit>>
        /\ counted'[c] = counted[c] + 1 /\ pc'[c] = "uploadRow"
        /\ stale' = stale \cup (Busy \ {c}) /\ GiveOut(c)
        /\ \A d \in Calls : d # c => pc'[d] = pc[d]
    BY <1>22 DEF UploadCreate, Go, TypeOK
  <2>2. Cardinality(roster') = Cardinality(roster) + 1
    BY <1>0, <2>1, FS_AddElement
  <2>3. counted[c] \in Nat /\ (limit[c] \in Nat \/ limit[c] = None)
    BY DEF TypeOK, SeatLimits, LicensingAssumption
  <2>4. c \notin stale => /\ limit[c] = tenant.seatLimit /\ Cardinality(roster) <= counted[c]
                          /\ Fits(counted[c] + 1, limit[c])
    BY <2>1 DEF Counted, Knows, Fresh, SeatLeft
  <2>5. c \notin stale => Fits(Cardinality(roster'), tenant'.seatLimit)
    BY <1>0, <2>1, <2>2, <2>3, <2>4 DEF Fits
  <2>6. SeatsKept'
    BY <2>1, <2>5 DEF GiveOut, SeatsKept
  <2>7. ASSUME NEW d \in Calls, Fresh(d)' PROVE Knows(d)'
    <3>1. CASE d = c
      BY <1>0, <2>1, <2>2, <2>3, <2>4, <2>7, <3>1 DEF Knows, Fresh
    <3>2. CASE d # c
      <4>1. pc'[d] = "idle"
        BY <2>1, <2>7, <3>2 DEF Busy, Fresh
      <4> QED BY <4>1 DEF Knows
    <3> QED BY <3>1, <3>2
  <2> QED BY <2>6, <2>7 DEF Counted
<1> QED
  BY <1>3, <1>4, <1>5, <1>6, <1>7, <1>8, <1>9, <1>10, <1>11, <1>12, <1>13, <1>14, <1>15,
     <1>16, <1>17, <1>18, <1>19, <1>20, <1>21, <1>22 DEF Next, Staff, Client, Step

-----------------------------------------------------------------------------
(* Steps *)

\* Only a claim, or a write of staff that was given a limit, changes the limit.
LEMMA SeatsDecidedNext ==
  ASSUME LicensingAssumption, TypeOK, SeatInv, Next
  PROVE  SeatsAreDecided
<1> SUFFICES ASSUME tenant'.there, tenant'.seatLimit # tenant.seatLimit
             PROVE  \E c \in Calls : \/ pc[c] = "claim"
                                     \/ pc[c] \in {"licenceWrite", "approveWrite"} /\ asked[c].limit # Keep
                                     \/ pc[c] = "approveWrite" /\ c \in stale
  BY DEF SeatsAreDecided
<1> DEFINE Goal == \E c \in Calls : \/ pc[c] = "claim"
                                    \/ pc[c] \in {"licenceWrite", "approveWrite"} /\ asked[c].limit # Keep
                                    \/ pc[c] = "approveWrite" /\ c \in stale
<1>1. ASSUME NEW c \in Calls, Claim(c) PROVE Goal
  BY <1>1 DEF Claim, ClaimKey
<1>2. ASSUME NEW c \in Calls, LicenceWrite(c) PROVE Goal
  BY <1>2 DEF LicenceWrite, TypeOK
<1>3. ASSUME NEW c \in Calls, ApproveWrite(c) PROVE Goal
  BY <1>3 DEF ApproveWrite, TypeOK, SeatInv, Counted, Knows, Fresh
<1>4. ASSUME NEW c \in Calls, Erase(c) PROVE Goal
  BY <1>4 DEF Erase, Onboarded
<1>5. CASE \/ Tick
           \/ \E k \in Keys, grant \in Grants : Issue(k, grant)
           \/ \E s \in {"active"} \cup Stopped : SetStatus(s)
           \/ \E e \in Emails : RemoveEmployee(e)
  BY <1>5, ZenonT(60) DEF Tick, Issue, SetStatus, RemoveEmployee, TypeOK
<1>6. ASSUME NEW c \in Calls,
             \/ \E k \in Keys : Revoke(c, k) \/ Redeem(c, k)
             \/ \E change \in Changes : SetLicence(c, change)
             \/ \E l \in Limits \cup {Keep} : Approve(c, l)
             \/ Remove(c)
             \/ \E file \in SUBSET Emails : BulkUpload(c, file)
             \/ RedeemCount(c) \/ LicenceCount(c) \/ ApproveCount(c) \/ UploadCount(c)
             \/ UploadCreate(c) \/ CallDies(c) \/ RevokeWrite(c)
             \/ \E e \in Emails : UploadSkip(c, e) \/ UploadRow(c, e)
      PROVE  Goal
  <2>1. UNCHANGED tenant
    BY <1>6 DEF Revoke, Redeem, SetLicence, Approve, Remove, BulkUpload, RedeemCount, LicenceCount,
                ApproveCount, UploadCount, UploadCreate, CallDies, ReturnOrThrow, RevokeWrite,
                UploadSkip, UploadRow, accountVars
  <2> QED BY <2>1, SMTT(60)
<1> QED BY <1>1, <1>2, <1>3, <1>4, <1>5, <1>6 DEF Next, Staff, Client, Step

\* Only a deletion takes the client away, and it knows the status unless it was overtaken.
LEMMA ErasesStoppedNext ==
  ASSUME LicensingAssumption, TypeOK, StatusKnown, Next
  PROVE  ErasesStopped
<1> SUFFICES ASSUME tenant.there, ~tenant'.there, tenant.status = "active"
             PROVE  \E c \in Calls : pc[c] = "erase" /\ c \in stale
  BY DEF ErasesStopped
<1>1. ASSUME NEW c \in Calls, Erase(c) PROVE \E d \in Calls : pc[d] = "erase" /\ d \in stale
  BY <1>1 DEF Erase, StatusKnown, Fresh
<1>2. ASSUME NEW c \in Calls, Claim(c) \/ LicenceWrite(c) \/ ApproveWrite(c) PROVE tenant'.there
  BY <1>2, ZenonT(60) DEF Claim, ClaimKey, Licensed, LicenceWrite, ApproveWrite, TypeOK
<1>3. CASE \/ Tick
           \/ \E k \in Keys, grant \in Grants : Issue(k, grant)
           \/ \E s \in {"active"} \cup Stopped : SetStatus(s)
           \/ \E e \in Emails : RemoveEmployee(e)
  BY <1>3 DEF Tick, Issue, SetStatus, RemoveEmployee, TypeOK
<1>4. ASSUME NEW c \in Calls,
             \/ \E k \in Keys : Revoke(c, k) \/ Redeem(c, k)
             \/ \E change \in Changes : SetLicence(c, change)
             \/ \E l \in Limits \cup {Keep} : Approve(c, l)
             \/ Remove(c)
             \/ \E file \in SUBSET Emails : BulkUpload(c, file)
             \/ RedeemCount(c) \/ LicenceCount(c) \/ ApproveCount(c) \/ UploadCount(c)
             \/ UploadCreate(c) \/ CallDies(c) \/ RevokeWrite(c)
             \/ \E e \in Emails : UploadSkip(c, e) \/ UploadRow(c, e)
      PROVE  UNCHANGED tenant
  BY <1>4 DEF Revoke, Redeem, SetLicence, Approve, Remove, BulkUpload, RedeemCount, LicenceCount,
              ApproveCount, UploadCount, UploadCreate, CallDies, ReturnOrThrow, RevokeWrite,
              UploadSkip, UploadRow, accountVars
<1> QED BY <1>1, <1>2, <1>3, <1>4 DEF Next, Staff, Client, Step

\* What a client may do only lapses with time.
LEMMA TimeNeverPromotesNext ==
  ASSUME LicensingAssumption, TypeOK, Next
  PROVE  TimeNeverPromotes
<1> SUFFICES ASSUME now' # now PROVE Rank[Level(tenant', now')] <= Rank[Access]
  BY SMTT(60) DEF TimeNeverPromotes
<1>1. now' = now + 1 /\ tenant' = tenant
  BY ZenonT(60) DEF Next, Staff, Client, Step, Tick, Issue, SetStatus, RemoveEmployee, Revoke, Redeem, SetLicence,
         Approve, Remove, BulkUpload, RedeemCount, LicenceCount, ApproveCount, UploadCount,
         UploadCreate, CallDies, ReturnOrThrow, RevokeWrite, Claim, ClaimKey, LicenceWrite,
         ApproveWrite, Erase, UploadSkip, UploadRow, accountVars
<1>2. /\ tenant.status \in {"active", "suspended", "offboarded"} /\ tenant.there \in BOOLEAN
      /\ now \in Nat
      /\ tenant.licenceEnds \in Nat \/ tenant.licenceEnds = None
      /\ tenant.trialEnds \in Nat \/ tenant.trialEnds = None
  <2>1. tenant.status \in {"active", "suspended", "offboarded"}
    BY DEF TypeOK, LicensingAssumption
  <2>2. tenant.there \in BOOLEAN /\ now \in Nat
    BY DEF TypeOK, LicensingAssumption
  <2>3. tenant.licenceEnds \in Days /\ tenant.trialEnds \in Days
    BY DEF TypeOK
  <2> QED BY <2>1, <2>2, <2>3 DEF Days
<1>3. /\ Rank["offboarded"] = 0 /\ Rank["suspended"] = 0 /\ Rank["readonly"] = 1
      /\ Rank["trial"] = 2 /\ Rank["full"] = 3
  BY DEF Rank
<1>4. CASE ~tenant.there \/ tenant.status = "offboarded"
  BY <1>1, <1>2, <1>3, <1>4 DEF Access, Level
<1>5. CASE tenant.there /\ tenant.status = "suspended"
  BY <1>1, <1>2, <1>3, <1>5 DEF Access, Level
<1>6. CASE tenant.there /\ tenant.status = "active"
  BY <1>1, <1>2, <1>3, <1>6 DEF Access, Level
<1> QED BY <1>2, <1>4, <1>5, <1>6

-----------------------------------------------------------------------------
(* What holds of every client *)

\* The inductive invariant of a client's account: types, what calls hold and
\* know, the ledger of keys, and what has not been cleared.
THEOREM LicensingInductive ==
  ASSUME LicensingAssumption
  PROVE  Spec => []LicensingIInv
<1>1. Init => LicensingIInv
  <2> SUFFICES ASSUME Init PROVE LicensingIInv
    OBVIOUS
  <2>1. TypeOK
    BY LicensingTypeInit
  <2>2. \A c \in Calls : pc[c] = "idle"
    BY DEF Init
  <2>3. Held /\ HoldsIssued /\ KeyKnown /\ StatusKnown /\ Counted
    BY <2>2 DEF Held, HoldsIssued, KeyKnown, StatusKnown, Counted, Knows
  <2>4. KeyLedger /\ KeyFates
    BY DEF Init, Unissued, KeyLedger, KeyFates
  <2>5. Uncleared
    BY DEF Init, Onboarded, SignedUp, Uncleared
  <2>6. SeatsKept
    <3>1. Cardinality(roster) = 0
      BY FS_EmptySet DEF Init
    <3>2. tenant.seatLimit \in Nat \/ tenant.seatLimit = None
      BY <2>1 DEF TypeOK, SeatLimits, LicensingAssumption
    <3> QED BY <3>1, <3>2 DEF SeatsKept, Fits
  <2> QED BY <2>1, <2>3, <2>4, <2>5, <2>6 DEF LicensingIInv, KeyInv, SeatInv
<1>2. LicensingIInv /\ [Next]_vars => LicensingIInv'
  BY LicensingTypeNext, HeldNext, KeyInvNext, UnclearedNext, StatusKnownNext, SeatInvNext
     DEF LicensingIInv, KeyInv
<1> QED BY <1>1, <1>2, PTL DEF Spec

\* Seats bound the roster unless a call was overtaken, a key activates once and
\* is not both redeemed and revoked unless the two calls overlapped, and a
\* client that signed itself up has full access only once it was cleared.
THEOREM LicencesKept ==
  ASSUME LicensingAssumption
  PROVE  Spec => []LicencesHold
<1>1. LicensingIInv => LicencesHold
  <2> SUFFICES ASSUME LicensingIInv PROVE LicencesHold
    OBVIOUS
  <2>1. KeyActivatesOnce
    BY DEF LicensingIInv, KeyInv, KeyLedger, KeyActivatesOnce
  <2>2. LockedUntilCleared
    <3> SUFFICES ASSUME tenant.selfSignup, ~cleared PROVE Access # "full"
      BY DEF LockedUntilCleared
    <3>1. ~tenant.approved /\ tenant.licenceEnds = None
      BY DEF LicensingIInv, Uncleared
    <3>2. tenant.status \in {"active", "suspended", "offboarded"} /\ tenant.there \in BOOLEAN
      BY DEF LicensingIInv, TypeOK, LicensingAssumption
    <3>3. CASE ~tenant.there \/ tenant.status = "offboarded"
      BY <3>2, <3>3 DEF Access, Level
    <3>4. CASE tenant.there /\ tenant.status = "suspended"
      BY <3>4 DEF Access, Level
    <3>5. CASE tenant.there /\ tenant.status = "active"
      BY <3>1, <3>5 DEF Access, Level
    <3> QED BY <3>2, <3>3, <3>4, <3>5
  <2> QED BY <2>1, <2>2 DEF LicensingIInv, KeyInv, SeatInv, LicencesHold
<1> QED BY <1>1, LicensingInductive, PTL

\* Only a decision changes the seat limit, only a client that is not active is
\* deleted unless it became active meanwhile, and time promotes nobody.
THEOREM LicenceStepsKept ==
  ASSUME LicensingAssumption
  PROVE  Spec => LicenceSteps
<1>1. LicensingIInv /\ [Next]_vars => [LicensingStep]_vars
  <2> SUFFICES ASSUME LicensingIInv, Next PROVE LicensingStep
    OBVIOUS
  <2> QED BY SeatsDecidedNext, ErasesStoppedNext, TimeNeverPromotesNext
             DEF LicensingIInv, LicensingStep
<1> QED BY <1>1, LicensingInductive, PTL DEF Spec, LicenceSteps

\* What is a behaviour of Clients is one of the licence: the others leave it alone.
THEOREM ClientsLicensing == ClientsSpec => Spec
<1>1. ClientsInit => Init
  BY DEF ClientsInit
<1>2. [ClientsNext]_allVars => [Next]_vars
  BY DEF ClientsNext, allVars
<1> QED BY <1>1, <1>2, PTL DEF ClientsSpec, Spec

\* So licences, keys and seats hold there.
THEOREM ClientsLicensed == ClientsSpec => []LicencesHold /\ LicenceSteps
<1>0. LicensingAssumption
  BY ClientsAssumption DEF ClientsAssumption
<1>1. Spec => []LicencesHold
  BY <1>0, LicencesKept
<1>2. Spec => LicenceSteps
  BY <1>0, LicenceStepsKept
<1> QED BY <1>1, <1>2, ClientsLicensing, PTL

\* A step is one of the component that the behaviour is of, and stays with it.
LEMMA StepsOfOne ==
  ASSUME ClientsNext
  PROVE  /\ focus' = focus
         /\ focus = "training" => Training!Next
         /\ focus = "videos" => Videos!Next
         /\ focus = "portal" => Dashboard!Next
BY DEF ClientsNext

\* So is a stutter, of every component.
LEMMA Focused ==
  ASSUME [ClientsNext]_allVars
  PROVE  /\ focus' = focus
         /\ focus = "training" => [Training!Next]_(Training!vars)
         /\ focus = "videos" => [Videos!Next]_(Videos!vars)
         /\ focus = "portal" => [Dashboard!Next]_(Dashboard!vars)
<1>1. CASE ClientsNext
  BY <1>1, StepsOfOne
<1>2. CASE UNCHANGED allVars
  BY <1>2 DEF allVars, portalVars, trainingVars, videosVars,
              Training!vars, Videos!vars, Dashboard!vars, Videos!rowVars, Videos!callVars, Videos!history, Dashboard!linkVars, Dashboard!courseVars, Dashboard!callVars, Dashboard!history
<1> QED BY <1>1, <1>2

\* A behaviour begins in an initial state of its component.
LEMMA Begun ==
  ASSUME ClientsInit
  PROVE  /\ focus = "training" => Training!Init
         /\ focus = "videos" => Videos!Init
         /\ focus = "portal" => Dashboard!Init
BY DEF ClientsInit

-----------------------------------------------------------------------------
(* Videos and the rows that point at them *)

\* What a call holds: an object of the client or platform it uploads for, a shared object to
\* clone, the row it removes, the objects of the client it removes or of the platform.
HeldBy(c) ==
  /\ videos_pc[c] \in {"verify", "create"} =>
       /\ videos_video[c] \in Objects /\ videos_place[c] \in Tenants \cup {Videos!Platform}
       /\ videos_owner[videos_video[c]] = videos_place[c]
  /\ videos_pc[c] = "clone" =>
       /\ videos_video[c] \in Objects /\ videos_place[c] \in Tenants
       /\ videos_owner[videos_video[c]] = Videos!Platform
  /\ videos_pc[c] \in {"create", "clone"} => videos_video[c] \in videos_stored \cup videos_purged
  /\ videos_pc[c] = "create" /\ videos_place[c] \in Tenants /\ Videos!There(videos_place[c]) =>
       videos_video[c] \in videos_stored
  /\ videos_pc[c] = "delete" => videos_row[c] \in Lessons /\ videos_video[c] \in Objects
  /\ videos_pc[c] \in {"erase", "objects"} =>
       videos_place[c] \in Tenants /\ \A o \in videos_list[c] :
         videos_owner[o] \in {videos_place[c], Videos!Platform}
  /\ videos_pc[c] = "objects" => ~Videos!There(videos_place[c])
LibraryHeld == \A c \in Calls : HeldBy(c)

\* A module belongs to a client that is there, and plays what was uploaded for that client
\* or shared by the platform; the client's own uploads are still stored.
RowsKnown ==
  \A r \in Lessons : ~Videos!Unused(r) =>
    /\ videos_module[r].of \in Tenants /\ Videos!There(videos_module[r].of)
    /\ videos_module[r].video \in Objects \cap (videos_stored \cup videos_purged)
    /\ videos_owner[videos_module[r].video] \in {videos_module[r].of, Videos!Platform}
    /\ videos_owner[videos_module[r].video] = videos_module[r].of =>
         videos_module[r].video \in videos_stored

\* A shared module plays an upload of the platform.
SharedKnown ==
  \A s \in Shareds : videos_shared[s] \in Objects =>
    videos_owner[videos_shared[s]] = Videos!Platform /\
      videos_shared[s] \in videos_stored \cup videos_purged

\* What is stored for a client is in a module of it, in the hands of the call that uploads it
\* or deletes it, was reported, is known to be loose, or was in a module of it that came
\* too late for its removal.
Traced(o) ==
  \/ o \in videos_reported \cup videos_loose \cup videos_late
  \/ \E c \in Calls : videos_pc[c] \in {"verify", "create"} /\ videos_video[c] = o
  \/ \E r \in Lessons :
       ~Videos!Unused(r) /\ videos_module[r].of = videos_owner[o] /\ videos_module[r].video = o
  \/ \E c \in Calls :
       videos_pc[c] = "objects" /\ videos_place[c] = videos_owner[o] /\ o \in videos_list[c]
StoredTraced ==
  \A o \in videos_stored : videos_owner[o] # None /\ (videos_owner[o] \in Tenants => Traced(o))

\* What the videos need to be inductive.
LibraryIInv ==
  Videos!TypeOK /\ LibraryHeld /\ RowsKnown /\ SharedKnown /\ StoredTraced /\ Videos!RulesResolve

\* A row that is in use is a client's and has a video.
LEMMA VideosKnown ==
  ASSUME Videos!LibraryAssumption, Videos!TypeOK, RowsKnown, NEW t \in Tenants
  PROVE  Videos!VideosOf(t) \subseteq Objects
<1> SUFFICES ASSUME NEW r \in Lessons,
               videos_module[r].of = t PROVE videos_module[r].video \in Objects
  BY DEF Videos!VideosOf
<1>1. ~Videos!Unused(r)
  BY DEF Videos!Unused, Videos!NoRow, Videos!LibraryAssumption
<1> QED BY <1>1 DEF RowsKnown

\* Every step keeps the types.
LEMMA LibraryTypes ==
  ASSUME Videos!LibraryAssumption, Videos!TypeOK, LibraryHeld, RowsKnown,
           [Videos!Next]_(Videos!vars)
  PROVE  Videos!TypeOK'
<1> USE DEF Videos!LibraryAssumption, Videos!TypeOK, Videos!Goes, Videos!Steps
<1>1. ASSUME NEW c \in Calls, Videos!Put(c) PROVE Videos!TypeOK'
  <2>1. videos_faults' \in 0 .. MaxFaults
    BY <1>1 DEF Videos!Put, Videos!Fails
  <2>2. PICK o \in Objects, p \in Tenants \cup {Videos!Platform} :
          /\ videos_owner' = [videos_owner EXCEPT ![o] = p]
          /\ videos_stored' \in {videos_stored, videos_stored \cup {o}}
          /\ Videos!Goes(c, "verify", p, o, None)
    BY <1>1 DEF Videos!Put
  <2>3. UNCHANGED <<Videos!rowVars, Videos!history>>
    BY <1>1 DEF Videos!Put
  <2> QED BY <2>1, <2>2, <2>3 DEF Videos!rowVars, Videos!history
<1>2. ASSUME NEW c \in Calls, Videos!Verify(c) PROVE Videos!TypeOK'
  <2>1. videos_faults' \in 0 .. MaxFaults
    BY <1>2 DEF Videos!Verify, Videos!Fails
  <2>2. videos_loose' \subseteq Objects
    BY <1>2 DEF Videos!Verify, LibraryHeld, HeldBy
  <2>3. Videos!Goes(c, "create", videos_place[c], videos_video[c], None) \/
          Videos!Goes(c, "idle", None, None, None)
    BY <1>2 DEF Videos!Verify, Videos!Returns
  <2> QED BY <1>2, <2>1, <2>2, <2>3, SMTT(60) DEF Videos!Verify, Videos!rowVars
<1>3. ASSUME NEW c \in Calls, Videos!CreateShared(c) PROVE Videos!TypeOK'
  <2>1. videos_shared' \in [Shareds -> Objects \cup {None, "removed"}]
    BY <1>3 DEF Videos!CreateShared, LibraryHeld, HeldBy
  <2> QED BY <1>3, <2>1 DEF Videos!CreateShared, Videos!Returns, Videos!history
<1>4. ASSUME NEW c \in Calls, Videos!CreateModule(c) PROVE Videos!TypeOK'
  <2>1. videos_place[c] \in Tenants /\ videos_video[c] \in Objects
    BY <1>4 DEF Videos!CreateModule, LibraryHeld, HeldBy
  <2>2. videos_loose' \subseteq Objects
    BY <1>4, <2>1 DEF Videos!CreateModule
  <2>3. videos_module' \in [Lessons -> [of : Tenants \cup {None}, video : Objects \cup {None}]]
    BY <1>4, <2>1 DEF Videos!CreateModule
  <2> QED BY <1>4, <2>2, <2>3 DEF Videos!CreateModule, Videos!Returns
<1>5. ASSUME NEW c \in Calls, Videos!CloneFromShared(c) PROVE Videos!TypeOK'
  BY <1>5 DEF Videos!CloneFromShared, Videos!rowVars, Videos!history
<1>6. ASSUME NEW c \in Calls, Videos!CountRules(c) PROVE Videos!TypeOK'
  BY <1>6 DEF Videos!CountRules, Videos!rowVars, Videos!history
<1>7. ASSUME NEW c \in Calls, Videos!DeleteModule(c) PROVE Videos!TypeOK'
  <2>1. videos_loose' \subseteq Objects /\ videos_row[c] \in Lessons
    BY <1>7 DEF Videos!DeleteModule, LibraryHeld, HeldBy
  <2>2. videos_module' \in [Lessons -> [of : Tenants \cup {None}, video : Objects \cup {None}]]
    BY <1>7, <2>1 DEF Videos!DeleteModule, Videos!NoRow
  <2> QED BY <1>7, <2>1, <2>2 DEF Videos!DeleteModule, Videos!Returns
<1>8. ASSUME NEW c \in Calls, Videos!Collect(c) PROVE Videos!TypeOK'
  BY <1>8, VideosKnown DEF Videos!Collect, Videos!rowVars, Videos!history
<1>9. ASSUME NEW c \in Calls, Videos!DeleteRows(c) PROVE Videos!TypeOK'
  <2>0. videos_place[c] \in Tenants
    BY <1>9 DEF Videos!DeleteRows, LibraryHeld, HeldBy
  <2>1. CASE Videos!There(videos_place[c])
    <3>1. videos_late' \subseteq Objects
      BY <1>9, <2>0, <2>1, VideosKnown DEF Videos!DeleteRows
    <3>2. videos_module' \in [Lessons -> [of : Tenants \cup {None}, video : Objects \cup {None}]]
      BY <1>9, <2>1 DEF Videos!DeleteRows, Videos!NoRow
    <3>3. /\ videos_client' \in [Tenants -> {"active", "stopped", "gone"}]
          /\ videos_rule' \in [Tenants -> Lessons \cup {None}]
          /\ videos_pc' \in [Calls -> Videos!Steps \cup {"idle"}]
      BY <1>9, <2>0, <2>1, ZenonT(60) DEF Videos!DeleteRows
    <3> QED BY <1>9, <2>1, <3>1, <3>2, <3>3 DEF Videos!DeleteRows
  <2>2. CASE ~Videos!There(videos_place[c])
    BY <1>9, <2>2, SMTT(60) DEF Videos!DeleteRows, Videos!Returns
  <2> QED BY <2>1, <2>2
<1>10. ASSUME NEW c \in Calls, Videos!DeleteObjects(c) PROVE Videos!TypeOK'
  <2>1. /\ videos_faults' \in 0 .. MaxFaults /\ videos_stored' \subseteq Objects
        /\ videos_purged' \subseteq Objects /\ videos_reported' \subseteq Objects
        /\ UNCHANGED <<videos_owner, Videos!rowVars, videos_loose, videos_late>>
    BY <1>10 DEF Videos!DeleteObjects, Videos!DeleteObjectsThat, Videos!Fails
  <2>2. CASE Videos!Returns(c)
    BY <2>1, <2>2 DEF Videos!Returns, Videos!rowVars
  <2>3. ASSUME NEW gone \in SUBSET Objects, videos_list' = [videos_list EXCEPT ![c] = @ \ gone],
               UNCHANGED <<videos_pc, videos_place, videos_video, videos_row>>
        PROVE  Videos!TypeOK'
    BY <2>1, <2>3 DEF Videos!rowVars
  <2>4. \A o \in videos_list[c] : {o} \in SUBSET Objects
    OBVIOUS
  <2>5. \/ Videos!Returns(c)
        \/ /\ \E o \in videos_list[c] : videos_list' = [videos_list EXCEPT ![c] = @ \ {o}]
           /\ UNCHANGED <<videos_pc, videos_place, videos_video, videos_row>>
    BY <1>10 DEF Videos!DeleteObjects, Videos!DeleteObjectsThat
  <2> QED BY <2>2, <2>3, <2>4, <2>5
<1>11. CASE Videos!RemoveShared
  BY <1>11 DEF Videos!RemoveShared, Videos!callVars, Videos!history
<1>12. CASE Videos!SetRule
  BY <1>12 DEF Videos!SetRule, Videos!callVars, Videos!history
<1>13. CASE Videos!SetStatus
  BY <1>13 DEF Videos!SetStatus, Videos!callVars, Videos!history
<1>14. CASE UNCHANGED Videos!vars
  BY <1>14 DEF Videos!vars, Videos!rowVars, Videos!callVars, Videos!history
<1> QED BY <1>1, <1>2, <1>3, <1>4, <1>5, <1>6, <1>7, <1>8, <1>9, <1>10, <1>11, <1>12, <1>13,
           <1>14 DEF Videos!Next

\* Every step keeps the rules of a client on its own modules: the foreign key of a rule
\* that was made after the count refuses the deletion.
LEMMA RulesStep ==
  ASSUME Videos!LibraryAssumption, Videos!TypeOK, LibraryHeld, Videos!RulesResolve,
           [Videos!Next]_(Videos!vars)
  PROVE  Videos!RulesResolve'
<1> USE DEF Videos!LibraryAssumption, Videos!TypeOK, Videos!RulesResolve
<1>1. ASSUME NEW c \in Calls, Videos!CreateModule(c) PROVE Videos!RulesResolve'
  BY <1>1 DEF Videos!CreateModule, Videos!Unused, Videos!NoRow
<1>2. ASSUME NEW c \in Calls, Videos!DeleteModule(c) PROVE Videos!RulesResolve'
  <2>1. CASE UNCHANGED videos_module
    BY <1>2, <2>1 DEF Videos!DeleteModule
  <2>2. CASE videos_module' = [videos_module EXCEPT ![videos_row[c]] = Videos!NoRow] /\
               \A t \in Tenants : videos_rule[t] # videos_row[c]
    BY <1>2, <2>2 DEF Videos!DeleteModule
  <2> QED BY <1>2, <2>1, <2>2 DEF Videos!DeleteModule
<1>3. ASSUME NEW c \in Calls, Videos!DeleteRows(c) PROVE Videos!RulesResolve'
  <2>1. CASE UNCHANGED <<videos_module, videos_rule>>
    BY <2>1
  <2>2. CASE /\ videos_module' = [r \in Lessons |-> IF videos_module[r].of = videos_place[c] THEN Videos!NoRow ELSE videos_module[r]]
             /\ videos_rule' = [videos_rule EXCEPT ![videos_place[c]] = None]
    BY <2>2
  <2> QED BY <1>3, <2>1, <2>2 DEF Videos!DeleteRows
<1>4. CASE Videos!SetRule
  BY <1>4 DEF Videos!SetRule
<1>5. CASE UNCHANGED <<videos_module, videos_rule>>
  BY <1>5
<1>6. ASSUME NEW c \in Calls, \/ Videos!Put(c) \/ Videos!Verify(c) \/ Videos!CreateShared(c)
                              \/ Videos!CloneFromShared(c)
                              \/ Videos!CountRules(c) \/ Videos!Collect(c)
                              \/ Videos!DeleteObjects(c)
      PROVE  UNCHANGED <<videos_module, videos_rule>>
  BY <1>6 DEF Videos!Put, Videos!Verify, Videos!CreateShared, Videos!CloneFromShared,
     Videos!CountRules, Videos!Collect, Videos!DeleteObjects, 
     Videos!DeleteObjectsThat, Videos!rowVars
<1>7. CASE Videos!RemoveShared \/ Videos!SetStatus \/ UNCHANGED Videos!vars
  BY <1>5, <1>7 DEF Videos!RemoveShared, Videos!SetStatus, Videos!vars, Videos!rowVars
<1> QED BY <1>1, <1>2, <1>3, <1>4, <1>5, <1>6, <1>7 DEF Videos!Next

\* What no step undoes: an object stays its owner's, it is stored until a removal purges it,
\* a client that is gone stays gone, and what a removal purges is the platform's or of a
\* client that is gone.
Lasting ==
  /\ \A o \in Objects : videos_owner[o] # None => videos_owner'[o] = videos_owner[o]
  /\ videos_stored \subseteq videos_stored' \cup videos_purged'
  /\ videos_purged \subseteq videos_purged'
  /\ \A t \in Tenants : Videos!There(t)' => Videos!There(t)
  /\ \A o \in videos_stored \ videos_stored' :
       videos_owner[o] = Videos!Platform \/
         (videos_owner[o] \in Tenants /\ ~Videos!There(videos_owner[o]))

\* Every step is lasting.
LEMMA StepLasts ==
  ASSUME Videos!LibraryAssumption, Videos!TypeOK, LibraryHeld, [Videos!Next]_(Videos!vars)
  PROVE  Lasting
<1> USE DEF Videos!LibraryAssumption, Videos!TypeOK, Lasting, Videos!There
<1>1. ASSUME NEW c \in Calls, Videos!Put(c) PROVE Lasting
  <2>1. PICK o \in Objects, p \in Tenants \cup {Videos!Platform} :
          videos_owner[o] = None /\ videos_owner' = [videos_owner EXCEPT ![o] = p] /\
            videos_stored \subseteq videos_stored'
    BY <1>1 DEF Videos!Put
  <2> QED BY <1>1, <2>1 DEF Videos!Put, Videos!rowVars, Videos!history
<1>2. ASSUME NEW c \in Calls, Videos!DeleteRows(c) PROVE Lasting
  <2>1. UNCHANGED <<videos_stored, videos_owner, videos_purged>>
    BY <1>2 DEF Videos!DeleteRows
  <2>2. \A t \in Tenants : videos_client'[t] \in {videos_client[t], "gone"}
    BY <1>2 DEF Videos!DeleteRows
  <2> QED BY <2>1, <2>2
<1>3. ASSUME NEW c \in Calls, Videos!DeleteObjects(c) PROVE Lasting
  <2>1. UNCHANGED <<videos_client, videos_owner>>
    BY <1>3 DEF Videos!DeleteObjects, Videos!DeleteObjectsThat, Videos!rowVars
  <2>2. \/ UNCHANGED <<videos_stored, videos_purged>>
        \/ \E o \in videos_list[c] :
             videos_stored' = videos_stored \ {o} /\ videos_purged' = videos_purged \cup {o}
    BY <1>3 DEF Videos!DeleteObjects, Videos!DeleteObjectsThat
  <2>3. /\ videos_place[c] \in Tenants /\ ~Videos!There(videos_place[c])
        /\ \A o \in videos_list[c] : videos_owner[o] \in {videos_place[c], Videos!Platform}
    BY <1>3 DEF Videos!DeleteObjects, Videos!DeleteObjectsThat, LibraryHeld, HeldBy
  <2>4. videos_stored \subseteq videos_stored' \cup videos_purged' /\
          videos_purged \subseteq videos_purged'
    BY <2>2
  <2>5. \A o \in videos_stored \ videos_stored' :
          videos_owner[o] = Videos!Platform \/
            (videos_owner[o] \in Tenants /\ ~Videos!There(videos_owner[o]))
    <3>1. \A o \in videos_stored \ videos_stored' : o \in videos_list[c]
      BY <2>2
    <3> QED BY <2>3, <3>1
  <2> QED BY <2>1, <2>4, <2>5
<1>4. CASE Videos!SetStatus
  BY <1>4 DEF Videos!SetStatus, Videos!history
<1>5. ASSUME UNCHANGED <<videos_client, videos_stored, videos_owner, videos_purged>> PROVE Lasting
  BY <1>5
<1>6. ASSUME NEW c \in Calls, \/ Videos!Verify(c) \/ Videos!CreateShared(c)
                              \/ Videos!CreateModule(c)
                              \/ Videos!CloneFromShared(c) \/ Videos!CountRules(c)
                              \/ Videos!DeleteModule(c)
                              \/ Videos!Collect(c)
      PROVE  UNCHANGED <<videos_client, videos_stored, videos_owner, videos_purged>>
  BY <1>6 DEF Videos!Verify, Videos!CreateShared, Videos!CreateModule, Videos!CloneFromShared,
     Videos!CountRules, Videos!DeleteModule, 
     Videos!Collect, Videos!rowVars, Videos!history
<1>7. CASE Videos!RemoveShared \/ Videos!SetRule \/ UNCHANGED Videos!vars
  BY <1>5, <1>7 DEF Videos!RemoveShared, Videos!SetRule, Videos!vars, Videos!rowVars, Videos!history
<1> QED BY <1>1, <1>2, <1>3, <1>4, <1>5, <1>6, <1>7 DEF Videos!Next

\* A call that a step is not of goes on holding what it held.
LEMMA HeldElsewhere ==
  ASSUME Videos!LibraryAssumption, Videos!TypeOK, Lasting, NEW d \in Calls, HeldBy(d),
         videos_pc'[d] = videos_pc[d], videos_place'[d] = videos_place[d],
           videos_video'[d] = videos_video[d], videos_row'[d] = videos_row[d],
         videos_list'[d] = videos_list[d]
  PROVE  HeldBy(d)'
<1> USE DEF Videos!LibraryAssumption, Videos!TypeOK, Lasting, HeldBy
<1>1. (videos_pc[d] \in {"verify", "create"} =>
         /\ videos_video[d] \in Objects /\ videos_place[d] \in Tenants \cup {Videos!Platform}
         /\ videos_owner[videos_video[d]] = videos_place[d])'
  OBVIOUS
<1>2. (videos_pc[d] = "clone" =>
         videos_video[d] \in Objects /\ videos_place[d] \in Tenants /\
           videos_owner[videos_video[d]] = Videos!Platform)'
  OBVIOUS
<1>3. (videos_pc[d] \in {"create", "clone"} => videos_video[d] \in videos_stored \cup videos_purged)'
  OBVIOUS
<1>4. (videos_pc[d] = "create" /\ videos_place[d] \in Tenants /\ Videos!There(videos_place[d]) => videos_video[d] \in videos_stored)'
  OBVIOUS
<1>5. (videos_pc[d] \in {"erase", "objects"} =>
         videos_place[d] \in Tenants /\ \A o \in videos_list[d] :
           videos_owner[o] \in {videos_place[d], Videos!Platform})'
  OBVIOUS
<1>6. (videos_pc[d] = "objects" => ~Videos!There(videos_place[d]))'
  OBVIOUS
<1> QED BY <1>1, <1>2, <1>3, <1>4, <1>5, <1>6

\* A step that only moves one call on leaves what the others hold.
LEMMA HeldGoes ==
  ASSUME Videos!LibraryAssumption, Videos!TypeOK, LibraryHeld, Lasting, NEW c \in Calls, HeldBy(c)',
         NEW step, NEW p, NEW v, NEW r, Videos!Goes(c, step, p, v, r)
  PROVE  LibraryHeld'
<1> SUFFICES ASSUME NEW d \in Calls, d # c PROVE HeldBy(d)'
  BY DEF LibraryHeld
<1>1. videos_pc'[d] = videos_pc[d] /\ videos_place'[d] = videos_place[d] /\
        videos_video'[d] = videos_video[d] /\ videos_row'[d] = videos_row[d]
      /\ videos_list'[d] = videos_list[d]
  BY DEF Videos!Goes, Videos!TypeOK
<1> QED BY <1>1, HeldElsewhere DEF LibraryHeld

\* A call that returns holds nothing.
LEMMA HeldReturns ==
  ASSUME Videos!LibraryAssumption, Videos!TypeOK, LibraryHeld, Lasting, NEW c \in Calls,
           Videos!Returns(c)
  PROVE  LibraryHeld'
<1>1. videos_pc'[c] = "idle"
  BY DEF Videos!Returns, Videos!Goes, Videos!TypeOK
<1>2. HeldBy(c)'
  BY <1>1 DEF HeldBy
<1> QED BY <1>2, HeldGoes DEF Videos!Returns

\* A module of a client plays an object of that client, or of the platform.
LEMMA VideosOwned ==
  ASSUME Videos!LibraryAssumption, Videos!TypeOK, RowsKnown, NEW t \in Tenants,
           NEW o \in Videos!VideosOf(t)
  PROVE  o \in Objects /\ videos_owner[o] \in {t, Videos!Platform}
<1>1. PICK r \in Lessons : videos_module[r].of = t /\ videos_module[r].video = o
  BY DEF Videos!VideosOf
<1>2. ~Videos!Unused(r)
  BY <1>1 DEF Videos!Unused, Videos!NoRow, Videos!LibraryAssumption
<1> QED BY <1>1, <1>2 DEF RowsKnown

\* Every step keeps what the calls hold.
LEMMA HeldStep ==
  ASSUME Videos!LibraryAssumption, Videos!TypeOK, LibraryHeld, RowsKnown, SharedKnown, Lasting,
           [Videos!Next]_(Videos!vars)
  PROVE  LibraryHeld'
<1> USE DEF Videos!LibraryAssumption, Videos!TypeOK
<1>1. ASSUME NEW c \in Calls, Videos!Put(c) PROVE LibraryHeld'
  <2>1. PICK o \in Objects, p \in Tenants \cup {Videos!Platform} :
          videos_owner' = [videos_owner EXCEPT ![o] = p] /\ Videos!Goes(c, "verify", p, o, None)
    BY <1>1 DEF Videos!Put
  <2>2. HeldBy(c)'
    BY <2>1 DEF HeldBy, Videos!Goes
  <2> QED BY <2>1, <2>2, HeldGoes
<1>2. ASSUME NEW c \in Calls, Videos!Verify(c) PROVE LibraryHeld'
  <2>1. CASE videos_video[c] \in videos_stored /\
               Videos!Goes(c, "create", videos_place[c], videos_video[c], None)
    <3>1. UNCHANGED <<videos_stored, videos_owner>>
      BY <1>2 DEF Videos!Verify
    <3>2. HeldBy(c)'
      BY <1>2, <2>1, <3>1 DEF HeldBy, Videos!Goes, LibraryHeld, Videos!Verify
    <3> QED BY <2>1, <3>2, HeldGoes
  <2> QED BY <1>2, <2>1, HeldReturns DEF Videos!Verify
<1>3. ASSUME NEW c \in Calls, Videos!CreateShared(c) \/ Videos!CreateModule(c) \/
               Videos!DeleteModule(c)
      PROVE  LibraryHeld'
  BY <1>3, HeldReturns DEF Videos!CreateShared, Videos!CreateModule, Videos!DeleteModule
<1>4. ASSUME NEW c \in Calls, Videos!CloneFromShared(c) PROVE LibraryHeld'
  <2>1. PICK s \in Shareds, t \in Tenants :
          videos_shared[s] \in Objects /\ Videos!Goes(c, "clone", t, videos_shared[s], None)
    BY <1>4 DEF Videos!CloneFromShared
  <2>2. UNCHANGED <<videos_stored, videos_owner, videos_purged>>
    BY <1>4 DEF Videos!CloneFromShared, Videos!history
  <2>3. HeldBy(c)'
    BY <2>1, <2>2 DEF HeldBy, Videos!Goes, SharedKnown
  <2> QED BY <2>1, <2>3, HeldGoes
<1>5. ASSUME NEW c \in Calls, Videos!CountRules(c) PROVE LibraryHeld'
  <2>1. PICK r \in Lessons :
               ~Videos!Unused(r) /\
                 Videos!Goes(c, "delete", videos_module[r].of, videos_module[r].video, r)
    BY <1>5 DEF Videos!CountRules
  <2>2. HeldBy(c)'
    BY <2>1 DEF HeldBy, Videos!Goes, RowsKnown
  <2> QED BY <2>1, <2>2, HeldGoes
<1>6. ASSUME NEW c \in Calls, Videos!Collect(c) PROVE LibraryHeld'
  <2>1. PICK t \in Tenants : /\ videos_pc' = [videos_pc EXCEPT ![c] = "erase"]
                             /\ videos_place' = [videos_place EXCEPT ![c] = t]
                             /\ videos_list' = [videos_list EXCEPT ![c] = Videos!VideosOf(t)]
    BY <1>6 DEF Videos!Collect
  <2>2. UNCHANGED <<videos_video, videos_row, videos_owner>>
    BY <1>6 DEF Videos!Collect
  <2>3. HeldBy(c)'
    BY <2>1, <2>2, VideosOwned DEF HeldBy
  <2>4. ASSUME NEW d \in Calls, d # c PROVE HeldBy(d)'
    BY <2>1, <2>2, <2>4, HeldElsewhere DEF LibraryHeld
  <2> QED BY <2>3, <2>4 DEF LibraryHeld
<1>7. ASSUME NEW c \in Calls, Videos!DeleteRows(c) PROVE LibraryHeld'
  <2>1. CASE Videos!There(videos_place[c])
    <3>1. /\ videos_pc' = [videos_pc EXCEPT ![c] = "objects"]
          /\ videos_client' = [videos_client EXCEPT ![videos_place[c]] = "gone"]
          /\ UNCHANGED <<videos_place, videos_video, videos_row, videos_list, videos_owner>>
      BY <1>7, <2>1 DEF Videos!DeleteRows
    <3>2. HeldBy(c)'
      BY <1>7, <3>1 DEF HeldBy, LibraryHeld, Videos!DeleteRows, Videos!There
    <3>3. ASSUME NEW d \in Calls, d # c PROVE HeldBy(d)'
      BY <3>1, <3>3, HeldElsewhere DEF LibraryHeld
    <3> QED BY <3>2, <3>3 DEF LibraryHeld
  <2> QED BY <1>7, <2>1, HeldReturns DEF Videos!DeleteRows
<1>8. ASSUME NEW c \in Calls, Videos!DeleteObjects(c) PROVE LibraryHeld'
  <2>1. CASE Videos!Returns(c)
    BY <2>1, HeldReturns
  <2>2. CASE (\E o \in videos_list[c] : videos_list' = [videos_list EXCEPT ![c] = @ \ {o}])
             /\ UNCHANGED <<videos_pc, videos_place, videos_video, videos_row>>
    <3>1. UNCHANGED <<videos_owner, videos_client>>
      BY <1>8 DEF Videos!DeleteObjects, Videos!DeleteObjectsThat, Videos!rowVars
    <3>2. HeldBy(c)'
      BY <1>8, <2>2, <3>1 DEF HeldBy, LibraryHeld, Videos!DeleteObjects, Videos!DeleteObjectsThat,
         Videos!There
    <3>3. ASSUME NEW d \in Calls, d # c PROVE HeldBy(d)'
      BY <2>2, <3>3, HeldElsewhere DEF LibraryHeld
    <3> QED BY <3>2, <3>3 DEF LibraryHeld
  <2> QED BY <1>8, <2>1, <2>2 DEF Videos!DeleteObjects, Videos!DeleteObjectsThat
<1>9. CASE UNCHANGED Videos!callVars
  BY <1>9, HeldElsewhere DEF LibraryHeld, Videos!callVars
<1> QED BY <1>1, <1>2, <1>3, <1>4, <1>5, <1>6, <1>7, <1>8, <1>9 DEF Videos!Next,
    Videos!RemoveShared, Videos!SetRule, 
           Videos!SetStatus, Videos!vars

\* A row that stays keeps its video, and its client is there.
LEMMA RowKept ==
  ASSUME Videos!LibraryAssumption, Videos!TypeOK, RowsKnown, Lasting, NEW r \in Lessons,
           ~Videos!Unused(r),
         videos_module'[r] = videos_module[r], Videos!There(videos_module[r].of)'
  PROVE  /\ videos_module'[r].of \in Tenants /\ Videos!There(videos_module[r].of)'
         /\ videos_module'[r].video \in Objects \cap (videos_stored' \cup videos_purged')
         /\ videos_owner'[videos_module'[r].video] \in {videos_module'[r].of, Videos!Platform}
         /\ videos_owner'[videos_module'[r].video] = videos_module'[r].of =>
              videos_module'[r].video \in videos_stored'
<1> USE DEF Videos!LibraryAssumption, Videos!TypeOK
<1>1. /\ videos_module[r].of \in Tenants /\ Videos!There(videos_module[r].of)
      /\ videos_module[r].video \in Objects \cap (videos_stored \cup videos_purged)
      /\ videos_owner[videos_module[r].video] \in {videos_module[r].of, Videos!Platform}
      /\ videos_owner[videos_module[r].video] = videos_module[r].of =>
           videos_module[r].video \in videos_stored
  BY DEF RowsKnown
<1>2. videos_owner'[videos_module[r].video] = videos_owner[videos_module[r].video]
  BY <1>1 DEF Lasting
<1>3. videos_module[r].video \in videos_stored' \cup videos_purged'
  BY <1>1 DEF Lasting
<1>4. videos_owner[videos_module[r].video] = videos_module[r].of =>
        videos_module[r].video \in videos_stored'
  <2> SUFFICES ASSUME videos_owner[videos_module[r].video] = videos_module[r].of,
                 videos_module[r].video \notin videos_stored'
               PROVE  FALSE
    OBVIOUS
  <2>1. videos_module[r].video \in videos_stored \ videos_stored'
    BY <1>1
  <2>2. videos_owner[videos_module[r].video] # Videos!Platform /\
          Videos!There(videos_owner[videos_module[r].video])
    BY <1>1
  <2> QED BY <2>1, <2>2 DEF Lasting
<1> QED BY <1>1, <1>2, <1>3, <1>4

\* Every step keeps the modules of the clients playing.
LEMMA RowsStep ==
  ASSUME Videos!LibraryAssumption, Videos!TypeOK, LibraryHeld, RowsKnown, Lasting,
           [Videos!Next]_(Videos!vars)
  PROVE  RowsKnown'
<1> USE DEF Videos!LibraryAssumption, Videos!TypeOK
<1>1. ASSUME NEW c \in Calls, Videos!CreateModule(c) PROVE RowsKnown'
  <2>1. /\ UNCHANGED <<videos_client, videos_stored, videos_purged, videos_owner>>
        /\ videos_place[c] \in Tenants /\ videos_video[c] \in Objects
        /\ videos_video[c] \in videos_stored \cup videos_purged
        /\ videos_owner[videos_video[c]] \in {videos_place[c], Videos!Platform}
        /\ videos_owner[videos_video[c]] = videos_place[c] /\ Videos!There(videos_place[c]) =>
             videos_video[c] \in videos_stored
    BY <1>1 DEF Videos!CreateModule, LibraryHeld, HeldBy
  <2>2. CASE UNCHANGED videos_module
    BY <2>1, <2>2 DEF RowsKnown, Videos!Unused, Videos!There
  <2>3. ASSUME NEW r \in Lessons, Videos!There(videos_place[c]),
               videos_module' = [videos_module EXCEPT ![r] = [of |-> videos_place[c], video |-> videos_video[c]]]
        PROVE  RowsKnown'
    <3> SUFFICES ASSUME NEW q \in Lessons, ~Videos!Unused(q)'
                 PROVE  (/\ videos_module[q].of \in Tenants /\ Videos!There(videos_module[q].of)
                         /\ videos_module[q].video \in Objects \cap (videos_stored \cup videos_purged)
                         /\ videos_owner[videos_module[q].video] \in {videos_module[q].of, Videos!Platform}
                         /\ videos_owner[videos_module[q].video] = videos_module[q].of =>
                              videos_module[q].video \in videos_stored)'
      BY DEF RowsKnown
    <3>1. CASE q = r
      <4>1. videos_module'[q].of = videos_place[c] /\ videos_module'[q].video = videos_video[c]
        BY <2>3, <3>1
      <4> QED BY <2>1, <2>3, <4>1 DEF Videos!There
    <3>2. CASE q # r
      <4>1. videos_module'[q] = videos_module[q]
        BY <2>3, <3>2
      <4>2. ~Videos!Unused(q) /\ Videos!There(videos_module[q].of)'
        BY <2>1, <4>1 DEF Videos!Unused, Videos!There, RowsKnown
      <4> QED BY <4>1, <4>2, RowKept
    <3> QED BY <3>1, <3>2
  <2> QED BY <1>1, <2>2, <2>3 DEF Videos!CreateModule
<1>2. ASSUME NEW c \in Calls, Videos!DeleteModule(c) PROVE RowsKnown'
  <2> SUFFICES ASSUME NEW q \in Lessons, ~Videos!Unused(q)'
               PROVE  (/\ videos_module[q].of \in Tenants /\ Videos!There(videos_module[q].of)
                       /\ videos_module[q].video \in Objects \cap (videos_stored \cup videos_purged)
                       /\ videos_owner[videos_module[q].video] \in {videos_module[q].of, Videos!Platform}
                       /\ videos_owner[videos_module[q].video] = videos_module[q].of =>
                            videos_module[q].video \in videos_stored)'
    BY DEF RowsKnown
  <2>1. UNCHANGED videos_client
    BY <1>2 DEF Videos!DeleteModule
  <2>2. videos_module'[q] = videos_module[q]
    BY <1>2 DEF Videos!DeleteModule, Videos!Unused, Videos!NoRow
  <2>3. ~Videos!Unused(q) /\ Videos!There(videos_module[q].of)'
    BY <2>1, <2>2 DEF Videos!Unused, Videos!There, RowsKnown
  <2> QED BY <2>2, <2>3, RowKept
<1>3. ASSUME NEW c \in Calls, Videos!DeleteRows(c) PROVE RowsKnown'
  <2> SUFFICES ASSUME NEW q \in Lessons, ~Videos!Unused(q)'
               PROVE  (/\ videos_module[q].of \in Tenants /\ Videos!There(videos_module[q].of)
                       /\ videos_module[q].video \in Objects \cap (videos_stored \cup videos_purged)
                       /\ videos_owner[videos_module[q].video] \in {videos_module[q].of, Videos!Platform}
                       /\ videos_owner[videos_module[q].video] = videos_module[q].of =>
                            videos_module[q].video \in videos_stored)'
    BY DEF RowsKnown
  <2>1. CASE /\ videos_client' = [videos_client EXCEPT ![videos_place[c]] = "gone"]
             /\ videos_module' = [r \in Lessons |-> IF videos_module[r].of = videos_place[c] THEN Videos!NoRow ELSE videos_module[r]]
    <3>1. videos_module'[q] = videos_module[q] /\ videos_module[q].of # videos_place[c]
      BY <2>1 DEF Videos!Unused
    <3>2. ~Videos!Unused(q) /\ Videos!There(videos_module[q].of)'
      BY <2>1, <3>1 DEF Videos!Unused, Videos!There, RowsKnown
    <3> QED BY <3>1, <3>2, RowKept
  <2>2. CASE UNCHANGED <<videos_client, videos_module>>
    <3>1. ~Videos!Unused(q) /\ Videos!There(videos_module[q].of)' /\
            videos_module'[q] = videos_module[q]
      BY <2>2 DEF Videos!Unused, Videos!There, RowsKnown
    <3> QED BY <3>1, RowKept
  <2> QED BY <1>3, <2>1, <2>2 DEF Videos!DeleteRows
<1>4. ASSUME UNCHANGED videos_module, \A t \in Tenants :
               Videos!There(t) => Videos!There(t)' PROVE RowsKnown'
  <2> SUFFICES ASSUME NEW q \in Lessons, ~Videos!Unused(q)'
               PROVE  (/\ videos_module[q].of \in Tenants /\ Videos!There(videos_module[q].of)
                       /\ videos_module[q].video \in Objects \cap (videos_stored \cup videos_purged)
                       /\ videos_owner[videos_module[q].video] \in {videos_module[q].of, Videos!Platform}
                       /\ videos_owner[videos_module[q].video] = videos_module[q].of =>
                            videos_module[q].video \in videos_stored)'
    BY DEF RowsKnown
  <2>1. ~Videos!Unused(q) /\ Videos!There(videos_module[q].of)' /\
          videos_module'[q] = videos_module[q]
    BY <1>4 DEF Videos!Unused, RowsKnown
  <2> QED BY <2>1, RowKept
<1>5. ASSUME NEW c \in Calls, \/ Videos!Put(c) \/ Videos!Verify(c) \/ Videos!CreateShared(c)
                              \/ Videos!CloneFromShared(c)
                              \/ Videos!CountRules(c) \/ Videos!Collect(c)
                              \/ Videos!DeleteObjects(c)
      PROVE  UNCHANGED <<videos_client, videos_module>>
  BY <1>5 DEF Videos!Put, Videos!Verify, Videos!CreateShared, Videos!CloneFromShared,
     Videos!CountRules, Videos!Collect, Videos!DeleteObjects, 
     Videos!DeleteObjectsThat, Videos!rowVars
<1>6. CASE Videos!RemoveShared \/ Videos!SetRule \/ UNCHANGED Videos!vars
  BY <1>4, <1>6 DEF Videos!RemoveShared, Videos!SetRule, Videos!vars, Videos!rowVars, Videos!There
<1>7. CASE Videos!SetStatus
  <2>1. UNCHANGED videos_module /\ \A t \in Tenants : Videos!There(t) => Videos!There(t)'
    BY <1>7 DEF Videos!SetStatus, Videos!There
  <2> QED BY <1>4, <2>1
<1>8. ASSUME UNCHANGED <<videos_client, videos_module>> PROVE RowsKnown'
  BY <1>4, <1>8 DEF Videos!There
<1> QED BY <1>1, <1>2, <1>3, <1>5, <1>6, <1>7, <1>8 DEF Videos!Next

\* Every step keeps the shared modules playing.
LEMMA SharedStep ==
  ASSUME Videos!LibraryAssumption, Videos!TypeOK, LibraryHeld, SharedKnown, Lasting,
           [Videos!Next]_(Videos!vars)
  PROVE  SharedKnown'
<1> USE DEF Videos!LibraryAssumption, Videos!TypeOK
<1>1. ASSUME NEW s \in Shareds, videos_shared'[s] = videos_shared[s], videos_shared[s] \in Objects
      PROVE  videos_owner'[videos_shared'[s]] = Videos!Platform /\
               videos_shared'[s] \in videos_stored' \cup videos_purged'
  BY <1>1 DEF SharedKnown, Lasting
<1>2. ASSUME NEW c \in Calls, Videos!CreateShared(c) PROVE SharedKnown'
  <2>1. /\ UNCHANGED <<videos_stored, videos_purged, videos_owner>>
        /\ videos_owner[videos_video[c]] = Videos!Platform
        /\ videos_video[c] \in videos_stored \cup videos_purged
    BY <1>2 DEF Videos!CreateShared, LibraryHeld, HeldBy, Videos!history
  <2>2. PICK s \in Shareds : videos_shared' = [videos_shared EXCEPT ![s] = videos_video[c]]
    BY <1>2 DEF Videos!CreateShared
  <2> QED BY <2>1, <2>2 DEF SharedKnown
<1>3. CASE Videos!RemoveShared
  <2>1. \A s \in Shareds : videos_shared'[s] \in {videos_shared[s], "removed"}
    BY <1>3 DEF Videos!RemoveShared
  <2> QED BY <1>1, <2>1 DEF SharedKnown
<1>4. CASE UNCHANGED videos_shared
  BY <1>1, <1>4 DEF SharedKnown
<1>5. ASSUME NEW c \in Calls, \/ Videos!Put(c) \/ Videos!Verify(c) \/ Videos!CreateModule(c)
                              \/ Videos!CloneFromShared(c)
                              \/ Videos!CountRules(c) \/ Videos!DeleteModule(c) \/ Videos!Collect(c)
                              \/ Videos!DeleteRows(c) \/ Videos!DeleteObjects(c)
      PROVE  UNCHANGED videos_shared
  BY <1>5 DEF Videos!Put, Videos!Verify, Videos!CreateModule, Videos!CloneFromShared,
     Videos!CountRules, Videos!DeleteModule, Videos!Collect, 
     Videos!DeleteRows, Videos!DeleteObjects, Videos!DeleteObjectsThat, Videos!rowVars
<1>6. CASE Videos!SetRule \/ Videos!SetStatus \/ UNCHANGED Videos!vars
  BY <1>4, <1>6 DEF Videos!SetRule, Videos!SetStatus, Videos!vars, Videos!rowVars
<1> QED BY <1>2, <1>3, <1>4, <1>5, <1>6 DEF Videos!Next

\* An object that is stored goes on being traced, by a call that a step is not of.
LEMMA TracedElsewhere ==
  ASSUME Videos!LibraryAssumption, Videos!TypeOK, LibraryHeld, Lasting, NEW c \in Calls,
           NEW o \in Objects,
         videos_owner[o] # None, Traced(o),
         \A d \in Calls \ {c} : /\ videos_pc'[d] = videos_pc[d]
                                /\ videos_place'[d] = videos_place[d]
                                /\ videos_video'[d] = videos_video[d]
                                /\ videos_list'[d] = videos_list[d],
         videos_pc[c] \in {"verify", "create"} /\ videos_video[c] = o =>
           \/ o \in videos_reported' \cup videos_loose' \cup videos_late'
           \/ videos_pc'[c] \in {"verify", "create"} /\ videos_video'[c] = o
           \/ \E r \in Lessons :
                ~Videos!Unused(r)' /\ videos_module'[r].of = videos_owner[o] /\
                  videos_module'[r].video = o,
         \A r \in Lessons :
           ~Videos!Unused(r) /\ videos_module[r].of = videos_owner[o] /\
             videos_module[r].video = o =>
           \/ o \in videos_reported' \cup videos_loose' \cup videos_late'
           \/ ~Videos!Unused(r)' /\ videos_module'[r].of = videos_owner[o] /\
                videos_module'[r].video = o
           \/ videos_pc'[c] = "objects" /\ videos_place'[c] = videos_owner[o] /\
                o \in videos_list'[c],
         videos_pc[c] = "objects" /\ videos_place[c] = videos_owner[o] /\ o \in videos_list[c] =>
           \/ o \in videos_reported' \cup videos_loose' \cup videos_late'
           \/ videos_pc'[c] = "objects" /\ videos_place'[c] = videos_owner[o] /\
                o \in videos_list'[c],
         videos_reported \subseteq videos_reported', videos_loose \subseteq videos_loose',
         videos_late \subseteq videos_late'
  PROVE  Traced(o)'
<1>0. videos_owner'[o] = videos_owner[o]
  BY DEF Lasting
<1>1. CASE o \in videos_reported \cup videos_loose \cup videos_late
  BY <1>1 DEF Traced
<1>2. ASSUME NEW d \in Calls, videos_pc[d] \in {"verify", "create"} /\
               videos_video[d] = o PROVE Traced(o)'
  <2>1. CASE d = c
    BY <1>0, <1>2, <2>1 DEF Traced
  <2>2. CASE d # c
    BY <1>2, <2>2 DEF Traced
  <2> QED BY <2>1, <2>2
<1>3. ASSUME NEW r \in Lessons, ~Videos!Unused(r) /\ videos_module[r].of = videos_owner[o] /\
               videos_module[r].video = o
      PROVE  Traced(o)'
  BY <1>0, <1>3 DEF Traced
<1>4. ASSUME NEW d \in Calls, videos_pc[d] = "objects" /\ videos_place[d] = videos_owner[o] /\
               o \in videos_list[d]
      PROVE  Traced(o)'
  <2>1. CASE d = c
    BY <1>0, <1>4, <2>1 DEF Traced
  <2>2. CASE d # c
    BY <1>0, <1>4, <2>2 DEF Traced
  <2> QED BY <2>1, <2>2
<1> QED BY <1>1, <1>2, <1>3, <1>4 DEF Traced

\* Every step keeps what is stored traced: an upload is in the hands of its call until a row
\* takes it or it is loose, a row's video until the removal of its client or its own.
LEMMA TracedStep ==
  ASSUME Videos!LibraryAssumption, Videos!TypeOK, LibraryHeld, RowsKnown, StoredTraced, Lasting,
           [Videos!Next]_(Videos!vars)
  PROVE  StoredTraced'
<1> USE DEF Videos!LibraryAssumption, Videos!TypeOK, Videos!Goes
<1>0. /\ None \notin Tenants /\ Videos!Platform # None /\ Videos!Platform \notin Tenants
      /\ \A c \in Calls :
           videos_pc[c] = "idle" => videos_pc[c] \notin {"verify", "create", "objects"}
  OBVIOUS
<1>1. ASSUME NEW c \in Calls, Videos!Put(c) PROVE StoredTraced'
  <2>1. PICK o \in Objects, p \in Tenants \cup {Videos!Platform} :
          /\ videos_owner[o] = None /\ videos_owner' = [videos_owner EXCEPT ![o] = p]
          /\ videos_stored' \subseteq videos_stored \cup {o} /\ Videos!Goes(c, "verify", p, o, None)
    BY <1>1 DEF Videos!Put
  <2>2. UNCHANGED <<videos_module, videos_reported, videos_loose, videos_late>> /\ videos_pc[c] = "idle"
    BY <1>1 DEF Videos!Put, Videos!rowVars, Videos!history
  <2>3. videos_owner'[o] \in Tenants \cup {Videos!Platform} /\ Traced(o)'
    BY <2>1 DEF Traced
  <2>4. ASSUME NEW x \in videos_stored, x # o PROVE videos_owner'[x] # None /\
                 (videos_owner'[x] \in Tenants => Traced(x)')
    <3>1. videos_owner'[x] = videos_owner[x] /\ videos_owner[x] # None
      BY <2>1, <2>4 DEF StoredTraced
    <3>2. ASSUME videos_owner[x] \in Tenants PROVE Traced(x)'
      <4>1. Traced(x)
        BY <3>2 DEF StoredTraced
      <4> QED BY <2>1, <2>2, <3>1, <4>1, TracedElsewhere DEF Videos!Unused
    <3> QED BY <3>1, <3>2
  <2> QED BY <2>1, <2>3, <2>4 DEF StoredTraced
<1>a. ASSUME UNCHANGED videos_owner, videos_stored' \subseteq videos_stored,
             \A o \in videos_stored' : videos_owner[o] \in Tenants /\ Traced(o) => Traced(o)'
      PROVE  StoredTraced'
  BY <1>a DEF StoredTraced
<1>2. ASSUME NEW c \in Calls, Videos!Verify(c) PROVE StoredTraced'
  <2>1. UNCHANGED <<videos_stored, videos_owner, videos_module, videos_reported, videos_late>> /\
          videos_loose \subseteq videos_loose' /\ videos_pc[c] = "verify"
    BY <1>2 DEF Videos!Verify, Videos!rowVars
  <2>2. \/ Videos!Goes(c, "create", videos_place[c], videos_video[c], None)
        \/ Videos!Goes(c, "idle", None, None, None) /\ videos_video[c] \in videos_loose'
    BY <1>2 DEF Videos!Verify, Videos!Returns
  <2>3. ASSUME NEW o \in videos_stored, videos_owner[o] \in Tenants, Traced(o) PROVE Traced(o)'
    BY <1>0, <2>1, <2>2, <2>3, TracedElsewhere DEF Videos!Unused
  <2> QED BY <1>a, <2>1, <2>3
<1>3. ASSUME NEW c \in Calls, Videos!CreateShared(c) PROVE StoredTraced'
  <2>1. UNCHANGED <<videos_stored, videos_owner, videos_module, videos_reported, videos_loose, videos_late>> /\
          videos_pc[c] = "create"
        /\ videos_owner[videos_video[c]] = Videos!Platform
        /\ Videos!Goes(c, "idle", None, None, None)
    BY <1>3 DEF Videos!CreateShared, Videos!history, Videos!Returns, LibraryHeld, HeldBy
  <2>3. ASSUME NEW o \in videos_stored, videos_owner[o] \in Tenants, Traced(o) PROVE Traced(o)'
    <3>1. videos_video[c] # o
      BY <1>0, <2>1, <2>3
    <3> QED BY <1>0, <2>1, <2>3, <3>1, TracedElsewhere DEF Videos!Unused
  <2> QED BY <1>a, <2>1, <2>3
<1>4. ASSUME NEW c \in Calls, Videos!CreateModule(c) PROVE StoredTraced'
  <2>1. /\ UNCHANGED <<videos_stored, videos_owner, videos_reported, videos_late>>
        /\ videos_loose \subseteq videos_loose'
        /\ videos_pc[c] \in {"create", "clone"} /\ Videos!Goes(c, "idle", None, None, None)
        /\ videos_place[c] \in Tenants /\ videos_video[c] \in Objects
        /\ videos_pc[c] = "create" => videos_owner[videos_video[c]] = videos_place[c]
    BY <1>4 DEF Videos!CreateModule, Videos!Returns, LibraryHeld, HeldBy
  <2>2. \/ UNCHANGED videos_module /\ videos_video[c] \in videos_loose'
        \/ \E r \in Lessons : /\ Videos!Unused(r)
                              /\ videos_module' = [videos_module EXCEPT ![r] = [of |-> videos_place[c], video |-> videos_video[c]]]
    BY <1>4 DEF Videos!CreateModule
  <2>3. ASSUME NEW o \in videos_stored, videos_owner[o] \in Tenants, Traced(o) PROVE Traced(o)'
    <3>1. CASE UNCHANGED videos_module /\ videos_video[c] \in videos_loose'
      BY <1>0, <2>1, <2>3, <3>1, TracedElsewhere DEF Videos!Unused
    <3>2. ASSUME NEW r \in Lessons, Videos!Unused(r),
                 videos_module' = [videos_module EXCEPT ![r] = [of |-> videos_place[c], video |-> videos_video[c]]]
          PROVE  Traced(o)'
      <4>1. \A q \in Lessons :
              ~Videos!Unused(q) => ~Videos!Unused(q)' /\ videos_module'[q] = videos_module[q]
        BY <3>2 DEF Videos!Unused
      <4>2. ~Videos!Unused(r)' /\ videos_module'[r].of = videos_place[c] /\
              videos_module'[r].video = videos_video[c]
        BY <2>1, <3>2 DEF Videos!Unused, Videos!NoRow
      <4>3. videos_pc[c] \in {"verify", "create"} /\ videos_video[c] = o =>
              \E q \in Lessons :
                ~Videos!Unused(q)' /\ videos_module'[q].of = videos_owner[o] /\
                  videos_module'[q].video = o
        BY <2>1, <4>2
      <4> QED BY <1>0, <2>1, <2>3, <4>1, <4>3, TracedElsewhere, SMTT(60)
    <3> QED BY <2>2, <3>1, <3>2
  <2> QED BY <1>a, <2>1, <2>3
<1>5. ASSUME NEW c \in Calls, Videos!CloneFromShared(c) \/ Videos!CountRules(c) PROVE StoredTraced'
  <2>1. UNCHANGED <<videos_stored, videos_owner, videos_module, videos_reported, videos_loose, videos_late>> /\
          videos_pc[c] = "idle"
    BY <1>5 DEF Videos!CloneFromShared, Videos!CountRules, Videos!rowVars, Videos!history
  <2>2. PICK step, p, v, r : Videos!Goes(c, step, p, v, r)
    BY <1>5 DEF Videos!CloneFromShared, Videos!CountRules
  <2>3. ASSUME NEW o \in videos_stored, videos_owner[o] \in Tenants, Traced(o) PROVE Traced(o)'
    BY <1>0, <2>1, <2>2, <2>3, TracedElsewhere DEF Videos!Unused
  <2> QED BY <1>a, <2>1, <2>3
<1>6. ASSUME NEW c \in Calls, Videos!DeleteModule(c) PROVE StoredTraced'
  <2>1. /\ UNCHANGED <<videos_stored, videos_owner, videos_reported, videos_late>>
        /\ videos_loose \subseteq videos_loose'
        /\ videos_pc[c] = "delete" /\ Videos!Goes(c, "idle", None, None, None)
    BY <1>6 DEF Videos!DeleteModule, Videos!Returns
  <2>2. ASSUME NEW r \in Lessons, ~Videos!Unused(r)
        PROVE  videos_module[r].video \in videos_loose' \/
                 (~Videos!Unused(r)' /\ videos_module'[r] = videos_module[r])
    BY <1>6, <2>2 DEF Videos!DeleteModule, Videos!Unused
  <2>3. ASSUME NEW o \in videos_stored, videos_owner[o] \in Tenants, Traced(o) PROVE Traced(o)'
    BY <1>0, <2>1, <2>2, <2>3, TracedElsewhere
  <2> QED BY <1>a, <2>1, <2>3
<1>7. ASSUME NEW c \in Calls, Videos!Collect(c) PROVE StoredTraced'
  <2>1. UNCHANGED <<videos_stored, videos_owner, videos_module, videos_reported, videos_loose, videos_late>> /\
          videos_pc[c] = "idle"
    BY <1>7 DEF Videos!Collect, Videos!rowVars, Videos!history
  <2>2. \A d \in Calls \ {c} : /\ videos_pc'[d] = videos_pc[d] /\ videos_place'[d] = videos_place[d]
                               /\ videos_video'[d] = videos_video[d]
                               /\ videos_list'[d] = videos_list[d]
    BY <1>7 DEF Videos!Collect
  <2>3. ASSUME NEW o \in videos_stored, videos_owner[o] \in Tenants, Traced(o) PROVE Traced(o)'
    BY <1>0, <2>1, <2>2, <2>3, TracedElsewhere DEF Videos!Unused
  <2> QED BY <1>a, <2>1, <2>3
<1>8. ASSUME NEW c \in Calls, Videos!DeleteRows(c) PROVE StoredTraced'
  <2>1. UNCHANGED <<videos_stored, videos_owner, videos_reported, videos_loose>> /\
          videos_late \subseteq videos_late' /\ videos_pc[c] = "erase"
    BY <1>8 DEF Videos!DeleteRows
  <2>2. \A d \in Calls \ {c} : /\ videos_pc'[d] = videos_pc[d] /\ videos_place'[d] = videos_place[d]
                               /\ videos_video'[d] = videos_video[d]
                               /\ videos_list'[d] = videos_list[d]
    BY <1>8 DEF Videos!DeleteRows, Videos!Returns
  <2>3. ASSUME NEW o \in videos_stored, videos_owner[o] \in Tenants, Traced(o) PROVE Traced(o)'
    <3>1. CASE Videos!There(videos_place[c])
      <4>1. /\ videos_module' = [r \in Lessons |-> IF videos_module[r].of = videos_place[c] THEN Videos!NoRow ELSE videos_module[r]]
            /\ videos_late' = videos_late \cup (Videos!VideosOf(videos_place[c]) \ videos_list[c])
            /\ videos_pc'[c] = "objects" /\ UNCHANGED <<videos_place, videos_list>>
        BY <1>8, <3>1 DEF Videos!DeleteRows
      <4>2. ASSUME NEW r \in Lessons, ~Videos!Unused(r), videos_module[r].of = videos_owner[o],
                     videos_module[r].video = o
            PROVE  \/ o \in videos_late'
                   \/ ~Videos!Unused(r)' /\ videos_module'[r].of = videos_owner[o] /\
                        videos_module'[r].video = o
                   \/ videos_pc'[c] = "objects" /\ videos_place'[c] = videos_owner[o] /\
                        o \in videos_list'[c]
        <5>1. CASE videos_module[r].of = videos_place[c]
          <6>1. o \in Videos!VideosOf(videos_place[c])
            BY <4>2, <5>1 DEF Videos!VideosOf
          <6> QED BY <4>1, <4>2, <5>1, <6>1
        <5>2. CASE videos_module[r].of # videos_place[c]
          BY <4>1, <4>2, <5>2 DEF Videos!Unused
        <5> QED BY <5>1, <5>2
      <4> QED BY <2>1, <2>2, <2>3, <4>2, TracedElsewhere
    <3>2. CASE ~Videos!There(videos_place[c])
      <4>1. UNCHANGED videos_module
        BY <1>8, <3>2 DEF Videos!DeleteRows
      <4> QED BY <2>1, <2>2, <2>3, <4>1, TracedElsewhere DEF Videos!Unused
    <3> QED BY <3>1, <3>2
  <2> QED BY <1>a, <2>1, <2>3
<1>9. ASSUME NEW c \in Calls, Videos!DeleteObjects(c) PROVE StoredTraced'
  <2>1. UNCHANGED <<videos_owner, videos_module, videos_loose, videos_late>> /\
          videos_stored' \subseteq videos_stored /\ videos_reported \subseteq videos_reported'
        /\ videos_pc[c] = "objects"
    BY <1>9 DEF Videos!DeleteObjects, Videos!DeleteObjectsThat, Videos!rowVars
  <2>2. \A d \in Calls \ {c} : /\ videos_pc'[d] = videos_pc[d] /\ videos_place'[d] = videos_place[d]
                               /\ videos_video'[d] = videos_video[d]
                               /\ videos_list'[d] = videos_list[d]
    BY <1>9 DEF Videos!DeleteObjects, Videos!DeleteObjectsThat, Videos!Returns
  <2>4. ASSUME NEW o \in videos_stored', o \in videos_list[c]
        PROVE  o \in videos_reported' \/
                 (videos_pc'[c] = "objects" /\ videos_place'[c] = videos_place[c] /\ o \in videos_list'[c])
    BY <1>9, <2>4 DEF Videos!DeleteObjects, Videos!DeleteObjectsThat
  <2>3. ASSUME NEW o \in videos_stored', videos_owner[o] \in Tenants, Traced(o) PROVE Traced(o)'
    BY <1>0, <2>1, <2>2, <2>3, <2>4, TracedElsewhere DEF Videos!Unused
  <2> QED BY <1>a, <2>1, <2>3
<1>10. ASSUME UNCHANGED <<videos_stored, videos_owner, videos_module, videos_reported, videos_loose,
                         videos_late, Videos!callVars>>
       PROVE  StoredTraced'
  BY <1>10 DEF StoredTraced, Traced, Videos!Unused, Videos!callVars
<1>11. CASE Videos!RemoveShared \/ Videos!SetRule \/ Videos!SetStatus \/ UNCHANGED Videos!vars
  BY <1>10, <1>11 DEF Videos!RemoveShared, Videos!SetRule, Videos!SetStatus, Videos!vars,
     Videos!rowVars, Videos!callVars, Videos!history
<1> QED BY <1>1, <1>2, <1>3, <1>4, <1>5, <1>6, <1>7, <1>8, <1>9, <1>11 DEF Videos!Next

\* The invariant holds initially.
LEMMA LibraryIInvInit ==
  ASSUME Videos!LibraryAssumption, Videos!Init
  PROVE  LibraryIInv
<1> USE DEF Videos!LibraryAssumption, Videos!Init
<1>1. Videos!TypeOK
  BY DEF Videos!TypeOK, Videos!NoRow
<1>2. LibraryHeld /\ RowsKnown /\ SharedKnown /\ StoredTraced /\ Videos!RulesResolve
  BY DEF LibraryHeld, HeldBy, RowsKnown, Videos!Unused, SharedKnown, StoredTraced,
     Videos!RulesResolve
<1> QED BY <1>1, <1>2 DEF LibraryIInv

\* Every step keeps it.
LEMMA LibraryIInvNext ==
  ASSUME Videos!LibraryAssumption, LibraryIInv, [Videos!Next]_(Videos!vars)
  PROVE  LibraryIInv'
<1> USE DEF LibraryIInv
<1>1. Lasting
  BY StepLasts
<1>2. Videos!TypeOK'
  BY LibraryTypes
<1>3. LibraryHeld'
  BY <1>1, HeldStep
<1>4. RowsKnown'
  BY <1>1, RowsStep
<1>5. SharedKnown'
  BY <1>1, SharedStep
<1>6. StoredTraced'
  BY <1>1, TracedStep
<1>7. Videos!RulesResolve'
  BY RulesStep
<1> QED BY <1>2, <1>3, <1>4, <1>5, <1>6, <1>7

\* It gives what the run checks.
LEMMA LibraryIInvGives ==
  ASSUME Videos!LibraryAssumption, LibraryIInv
  PROVE  Videos!LibraryInv
<1> USE DEF LibraryIInv, Videos!LibraryAssumption
<1>1. Videos!ModulesPlay
  BY DEF Videos!ModulesPlay, RowsKnown, SharedKnown
<1>2. Videos!OthersKeepTheirs
  BY DEF Videos!OthersKeepTheirs, RowsKnown
<1>3. Videos!ErasedLeavesNothing
  <2> SUFFICES ASSUME NEW t \in Tenants, videos_client[t] = "gone",
                      \A c \in Calls : videos_place[c] = t => videos_pc[c] \in {"verify", "create"},
                      NEW o \in videos_stored, videos_owner[o] = t
               PROVE  o \in videos_reported \cup videos_loose \cup videos_late \cup {videos_video[c] : c \in Calls}
    BY DEF Videos!ErasedLeavesNothing, Videos!ErasedBut
  <2>1. Traced(o)
    BY DEF StoredTraced
  <2>2. ~\E c \in Calls :
          videos_pc[c] = "objects" /\ videos_place[c] = videos_owner[o] /\ o \in videos_list[c]
    OBVIOUS
  <2>3. ~\E r \in Lessons :
          ~Videos!Unused(r) /\ videos_module[r].of = videos_owner[o] /\ videos_module[r].video = o
    BY DEF RowsKnown, Videos!There
  <2> QED BY <2>1, <2>2, <2>3 DEF Traced
<1> QED BY <1>1, <1>2, <1>3 DEF Videos!LibraryInv

\* Whose every object is, what the calls hold of it, and where its trace leads.
THEOREM VideosInductive == ClientsSpec => [](focus = "videos" => LibraryIInv)
<1> DEFINE I == focus = "videos" => LibraryIInv
<1>1. ClientsInit => I
  BY ClientsAssumption, Begun, LibraryIInvInit DEF ClientsAssumption
<1>2. I /\ [ClientsNext]_allVars => I'
  BY ClientsAssumption, Focused, LibraryIInvNext DEF ClientsAssumption
<1> QED BY <1>1, <1>2, PTL DEF ClientsSpec

\* Modules play as long as they are there, nobody's upload is taken away by the removal of another
\* client, and what storage still holds of a client that is gone was reported, had no row when
\* the removal began, or got one only after the removal had collected what to delete.
THEOREM VideosKept == ClientsSpec => []VideosHold
<1>1. (focus = "videos" => LibraryIInv) => VideosHold
  BY ClientsAssumption, LibraryIInvGives DEF ClientsAssumption, VideosHold
<1> QED BY <1>1, VideosInductive, PTL

-----------------------------------------------------------------------------
(* The employees' dashboard *)

\* The component counts as this module does.
LEMMA CountsAlike ==
  \A S : /\ Dashboard!Cardinality(S) = Cardinality(S)
         /\ Dashboard!IsFiniteSet(S) <=> IsFiniteSet(S)
BY DEF Dashboard!Cardinality, Cardinality, Dashboard!IsFiniteSet, IsFiniteSet

\* What a request or a dashboard holds at each of its steps.
PortalHeld ==
  \A c \in Calls :
    /\ portal_pc[c] = "mail" => portal_held[c] \in 1 .. portal_minted
    /\ portal_pc[c] # "mail" => portal_held[c] = 0
    /\ portal_pc[c] \in {"mail", "rows", "attempts", "shown"} => portal_at[c] \in People
    /\ portal_pc[c] \in {"idle", "rows", "attempts", "shown"} => portal_list[c] = {}

\* A token has one owner: the row that has it, and whoever is about to mail it, agree.
TokensOwned ==
  /\ \A e \in People : portal_token[e] <= portal_minted
  /\ \A e \in People, c \in Calls :
       portal_pc[c] = "mail" /\ portal_held[c] = portal_token[e] => portal_at[c] = e

\* There are tokens left for the rows that the requests under way have still to serve.
Owed == {owed \in Calls \X People : /\ portal_pc[owed[1]] \in {"issue", "mail"}
                                    /\ owed[2] \in portal_list[owed[1]]
                                    /\ owed[2] \in portal_listed}
TokensLeft == portal_minted + Cardinality(Owed) <= MaxTokens

\* What completes a course by its quiz, or is certified, was passed.
PassesStand ==
  /\ \A e \in People : portal_course[e] = "quiz" => e \in portal_passed
  /\ portal_certificate \subseteq portal_passed

\* What a dashboard has read of a row that is still there is still so.
PageRead ==
  \A c \in Calls :
    /\ portal_pc[c] \notin {"rows", "attempts", "shown"} => portal_page[c] = Dashboard!Blank
    /\ portal_pc[c] \in {"attempts", "shown"} =>
         portal_page[c].course # None /\ portal_page[c].certified # None
    /\ portal_pc[c] = "shown" => portal_page[c].best \in BOOLEAN
    /\ /\ c \notin portal_gone /\ portal_pc[c] \in {"rows", "attempts"}
       /\ portal_page[c].course = "quiz" \/ portal_page[c].certified = TRUE
       => portal_at[c] \in portal_passed

\* What the dashboard needs to be inductive.
PortalIInv ==
  /\ Dashboard!TypeOK /\ PortalHeld /\ TokensOwned /\ TokensLeft /\ Dashboard!LinksDelivered
  /\ Dashboard!EveryClientServed
  /\ PassesStand /\ PageRead /\ Dashboard!PageConsistent

\* Unfinished business is one of finitely many pairs.
LEMMA OwedFinite ==
  ASSUME Dashboard!PortalAssumption
  PROVE  /\ IsFiniteSet(Owed) /\ Cardinality(Owed) \in Nat
         /\ IsFiniteSet(Owed') /\ Cardinality(Owed') \in Nat
<1>1. IsFiniteSet(Calls \X People)
  BY CountsAlike, FS_Product DEF Dashboard!PortalAssumption
<1>2. Owed \subseteq Calls \X People /\ Owed' \subseteq Calls \X People
  BY DEF Owed
<1> QED BY <1>1, <1>2, FS_Subset, FS_CardinalityType

\* A token is minted for a row that was owed one, and is owed none any more.
LEMMA Paid ==
  ASSUME Dashboard!PortalAssumption, Dashboard!TypeOK, TokensLeft, NEW c \in Calls,
           portal_pc[c] = "issue",
         NEW e \in portal_list[c], e \in portal_listed
  PROVE  /\ portal_minted + 1 \in 1 .. MaxTokens
         /\ IsFiniteSet(Owed \ {<<c, e>>})
         /\ portal_minted + 1 + Cardinality(Owed \ {<<c, e>>}) <= MaxTokens
<1>1. <<c, e>> \in Owed
  BY DEF Dashboard!TypeOK, Owed
<1>2. /\ IsFiniteSet(Owed) /\ Cardinality(Owed) \in Nat /\ IsFiniteSet(Owed \ {<<c, e>>})
      /\ Cardinality(Owed \ {<<c, e>>}) = Cardinality(Owed) - 1
  BY <1>1, OwedFinite, FS_RemoveElement
<1>3. Cardinality(Owed \ {<<c, e>>}) \in Nat
  BY <1>2, FS_CardinalityType
<1>4. portal_minted \in Nat /\ MaxTokens \in Nat /\ portal_minted + Cardinality(Owed) <= MaxTokens
  BY DEF Dashboard!PortalAssumption, Dashboard!TypeOK, TokensLeft
<1> HIDE DEF Owed
<1> QED BY <1>2, <1>3, <1>4

\* Whatever becomes of a mail, the request goes on with its next row.
LEMMA Mailed ==
  ASSUME NEW c \in Calls, Dashboard!Mail(c)
  PROVE  /\ portal_pc[c] = "mail"
         /\ \/ portal_inbox' = portal_inbox \cup {<<portal_at[c], portal_held[c]>>} /\
                 UNCHANGED <<portal_lost, portal_faults>>
            \/ /\ portal_faults < MaxFaults /\ portal_faults' = portal_faults + 1
               /\ portal_lost' = portal_lost \cup {portal_held[c]} /\ portal_inbox' = portal_inbox
         /\ \E step \in {"idle", "issue"} :
              Dashboard!Goes(c, step, None, portal_list[c], 0) /\
                (step = "idle" => portal_list[c] = {})
         /\ portal_skipped' = portal_skipped
         /\ UNCHANGED <<portal_listed, portal_token, portal_minted, portal_lapsed, Dashboard!courseVars, portal_gone>>
<1>1. /\ portal_pc[c] = "mail" /\ Dashboard!Served(c)
      /\ UNCHANGED <<portal_listed, portal_token, portal_minted, portal_lapsed, Dashboard!courseVars, portal_gone>>
      /\ \/ portal_inbox' = portal_inbox \cup {<<portal_at[c], portal_held[c]>>} /\
              UNCHANGED <<portal_lost, portal_faults>>
         \/ /\ portal_faults < MaxFaults /\ portal_faults' = portal_faults + 1
            /\ portal_lost' = portal_lost \cup {portal_held[c]} /\ portal_inbox' = portal_inbox
  BY DEF Dashboard!Mail, Dashboard!MailThen, Dashboard!Fails
<1>2. CASE portal_list[c] = {}
  <2>1. Dashboard!Goes(c, "idle", None, portal_list[c], 0) /\ portal_skipped' = portal_skipped
    BY <1>1, <1>2 DEF Dashboard!Served, Dashboard!Returns
  <2> QED BY <1>1, <1>2, <2>1
<1>3. CASE portal_list[c] # {}
  <2>1. Dashboard!Goes(c, "issue", None, portal_list[c], 0) /\ portal_skipped' = portal_skipped
    BY <1>1, <1>3 DEF Dashboard!Served
  <2> QED BY <1>1, <2>1
<1> QED BY <1>2, <1>3

\* Every step keeps the types; a token that is minted was owed, so the bound leaves room for it.
LEMMA PortalTypes ==
  ASSUME Dashboard!PortalAssumption, Dashboard!TypeOK, PortalHeld, TokensLeft,
           [Dashboard!Next]_(Dashboard!vars)
  PROVE  Dashboard!TypeOK'
<1> USE DEF Dashboard!PortalAssumption, Dashboard!TypeOK, PortalHeld, Dashboard!Courses,
    Dashboard!Goes
<1>1. ASSUME NEW c \in Calls, Dashboard!RequestLink(c) PROVE Dashboard!TypeOK'
  BY <1>1 DEF Dashboard!RequestLink, Dashboard!linkVars, Dashboard!courseVars
<1>2. ASSUME NEW c \in Calls, Dashboard!IssueToken(c) PROVE Dashboard!TypeOK'
  <2> PICK e \in portal_list[c] :
         IF e \in portal_listed
           THEN /\ portal_minted' = portal_minted + 1
                /\ portal_token' = [portal_token EXCEPT ![e] = portal_minted']
                /\ Dashboard!Goes(c, "mail", e, portal_list[c] \ {e}, portal_minted')
                /\ UNCHANGED <<portal_skipped, portal_gone>>
           ELSE /\ Dashboard!Returns(c) /\ portal_gone' = portal_gone \cup {c}
                /\ UNCHANGED <<portal_minted, portal_token>>
    BY <1>2 DEF Dashboard!IssueToken
  <2>0. e \in People /\ portal_pc[c] = "issue" /\
          UNCHANGED <<portal_listed, portal_lapsed, portal_inbox, Dashboard!courseVars, portal_faults, portal_lost>>
    BY <1>2 DEF Dashboard!IssueToken
  <2>1. CASE e \in portal_listed
    <3>1. portal_minted' \in 1 .. MaxTokens /\ portal_minted' = portal_minted + 1
      BY <2>0, <2>1, Paid
    <3>2. /\ portal_token' \in [People -> 0 .. MaxTokens] /\ portal_minted' \in 0 .. MaxTokens
          /\ portal_lapsed' \in 0 .. portal_minted'
      BY <2>0, <2>1, <3>1
    <3>3. Dashboard!Goes(c, "mail", e, portal_list[c] \ {e}, portal_minted') /\
            UNCHANGED <<portal_skipped, portal_gone>>
      BY <2>1
    <3>4. /\ portal_pc' \in [Calls -> {"idle", "issue", "mail", "rows", "attempts", "shown"}]
          /\ portal_at' \in [Calls -> People \cup {None}]
          /\ portal_list' \in [Calls -> SUBSET People]
          /\ portal_page' = portal_page
      BY <2>0, <3>3
    <3>5. portal_held' \in [Calls -> 0 .. MaxTokens]
      BY <3>1, <3>3
    <3> QED BY <2>0, <3>2, <3>3, <3>4, <3>5 DEF Dashboard!courseVars
  <2>2. CASE e \notin portal_listed
    <3>1. Dashboard!Goes(c, "idle", None, {}, 0) /\ portal_skipped' \subseteq Calls
      BY <2>2 DEF Dashboard!Returns
    <3> QED BY <2>0, <2>2, <3>1 DEF Dashboard!courseVars
  <2> QED BY <2>1, <2>2
<1>3. ASSUME NEW c \in Calls, Dashboard!Mail(c) PROVE Dashboard!TypeOK'
  <2>1. portal_at[c] \in People /\ portal_held[c] \in 1 .. MaxTokens
    BY <1>3 DEF Dashboard!Mail, Dashboard!MailThen
  <2>2. portal_inbox' \subseteq People \X (1 .. MaxTokens) /\ portal_lost' \subseteq 1 .. MaxTokens
    <3>1. <<portal_at[c], portal_held[c]>> \in People \X (1 .. MaxTokens)
      BY <2>1
    <3>2. portal_inbox' \in {portal_inbox, portal_inbox \cup {<<portal_at[c], portal_held[c]>>}} /\
            portal_lost' \in {portal_lost, portal_lost \cup {portal_held[c]}}
      BY <1>3, Mailed
    <3>3. portal_inbox \subseteq People \X (1 .. MaxTokens) /\ portal_lost \subseteq 1 .. MaxTokens
      OBVIOUS
    <3> QED BY <2>1, <3>1, <3>2, <3>3, ZenonT(30)
  <2>3. portal_faults' \in 0 .. MaxFaults /\
          UNCHANGED <<portal_listed, portal_token, portal_minted, portal_lapsed, Dashboard!courseVars, portal_gone, portal_skipped>>
    BY <1>3, Mailed
  <2>4. PICK step \in {"idle", "issue"} : Dashboard!Goes(c, step, None, portal_list[c], 0)
    BY <1>3, Mailed
  <2>5. /\ portal_pc' \in [Calls -> {"idle", "issue", "mail", "rows", "attempts", "shown"}]
        /\ portal_at' \in [Calls -> People \cup {None}] /\ portal_list' \in [Calls -> SUBSET People]
        /\ portal_held' \in [Calls -> 0 .. MaxTokens] /\ portal_page' = portal_page
    BY <2>4
  <2> QED BY <2>2, <2>3, <2>5 DEF Dashboard!courseVars
<1>4. ASSUME NEW c \in Calls, Dashboard!CallDies(c) PROVE Dashboard!TypeOK'
  <2>1. portal_lost' \subseteq 1 .. MaxTokens /\ portal_faults' \in 0 .. MaxFaults
    <3>1. \A h \in {portal_held[c]} \ {0} : h \in 1 .. MaxTokens
      OBVIOUS
    <3>2. portal_lost' = portal_lost \cup ({portal_held[c]} \ {0}) /\ portal_faults < MaxFaults /\
            portal_faults' = portal_faults + 1
      BY <1>4 DEF Dashboard!CallDies, Dashboard!Fails
    <3>3. portal_lost \subseteq 1 .. MaxTokens /\ portal_faults \in 0 .. MaxFaults /\
            MaxFaults \in Nat
      OBVIOUS
    <3>4. portal_lost' \subseteq 1 .. MaxTokens
      BY <3>1, <3>2, <3>3, ZenonT(30)
    <3> QED BY <3>2, <3>3, <3>4
  <2>2. Dashboard!Goes(c, "idle", None, {}, 0) /\
          UNCHANGED <<Dashboard!linkVars, Dashboard!courseVars, portal_skipped, portal_gone>>
    BY <1>4 DEF Dashboard!CallDies
  <2> QED BY <2>1, <2>2 DEF Dashboard!linkVars, Dashboard!courseVars
<1>5. ASSUME NEW c \in Calls, Dashboard!ResolveToken(c) PROVE Dashboard!TypeOK'
  BY <1>5 DEF Dashboard!ResolveToken, Dashboard!linkVars, Dashboard!courseVars
<1>6. ASSUME NEW c \in Calls, Dashboard!ReadRows(c) PROVE Dashboard!TypeOK'
  <2>1. portal_at[c] \in People /\ portal_course[portal_at[c]] \in Dashboard!Courses \cup {None}
    BY <1>6 DEF Dashboard!ReadRows
  <2>2. portal_page' \in [Calls -> [course : Dashboard!Courses \cup {None}, certified : BOOLEAN \cup {None},
                             best : BOOLEAN \cup {None}]]
    <3>1. \/ \E k \in Dashboard!Courses \cup {None} :
               portal_page' = [portal_page EXCEPT ![c].course = k]
          \/ \E b \in BOOLEAN : portal_page' = [portal_page EXCEPT ![c].certified = b]
      BY <1>6, <2>1 DEF Dashboard!ReadRows
    <3> DEFINE Page == [course : Dashboard!Courses \cup {None}, certified : BOOLEAN \cup {None},
                        best : BOOLEAN \cup {None}]
    <3>2. portal_page[c] \in Page /\ portal_page \in [Calls -> Page]
      OBVIOUS
    <3>3. /\ \A k \in Dashboard!Courses \cup {None} : [portal_page[c] EXCEPT !.course = k] \in Page
          /\ \A b \in BOOLEAN : [portal_page[c] EXCEPT !.certified = b] \in Page
      BY <3>2
    <3>4. PICK q \in Page : portal_page' = [portal_page EXCEPT ![c] = q]
      BY <3>1, <3>3, SMTT(60)
    <3> HIDE DEF Page
    <3>5. portal_page' \in [Calls -> Page]
      BY <3>2, <3>4
    <3> QED BY <3>5 DEF Page
  <2>3. portal_pc' \in [Calls -> {"idle", "issue", "mail", "rows", "attempts", "shown"}]
    BY <1>6 DEF Dashboard!ReadRows
  <2> QED BY <1>6, <2>2, <2>3 DEF Dashboard!ReadRows, Dashboard!linkVars, Dashboard!courseVars,
      Dashboard!history
<1>7. ASSUME NEW c \in Calls, Dashboard!ReadAttempts(c) PROVE Dashboard!TypeOK'
  <2> DEFINE Page == [course : Dashboard!Courses \cup {None}, certified : BOOLEAN \cup {None},
                      best : BOOLEAN \cup {None}]
             read == Dashboard!Found(c) /\ portal_at[c] \in portal_passed
  <2>1. portal_page' = [portal_page EXCEPT ![c].best = read] /\
          portal_pc' = [portal_pc EXCEPT ![c] = "shown"]
        /\ UNCHANGED <<Dashboard!linkVars, Dashboard!courseVars, portal_at, portal_list, portal_held, portal_faults, Dashboard!history>>
    BY <1>7 DEF Dashboard!ReadAttempts
  <2>2. read \in BOOLEAN /\ portal_page[c] \in Page
    OBVIOUS
  <2> HIDE DEF read
  <2>3. [portal_page[c] EXCEPT !.best = read] \in Page
    BY <2>2
  <2>4. portal_page' \in [Calls -> Page]
    BY <2>1, <2>3
  <2> QED BY <2>1, <2>4 DEF Dashboard!linkVars, Dashboard!courseVars, Dashboard!history
<1>8. ASSUME NEW c \in Calls, Dashboard!Close(c) PROVE Dashboard!TypeOK'
  BY <1>8 DEF Dashboard!Close, Dashboard!Blank, Dashboard!linkVars, Dashboard!courseVars,
     Dashboard!history
<1>9. ASSUME NEW e \in People, Dashboard!Study(e) PROVE Dashboard!TypeOK'
  <2>1. portal_course' \in [People -> Dashboard!Courses] /\ portal_passed' \subseteq People /\
          portal_certificate' \subseteq People
    BY <1>9 DEF Dashboard!Study
  <2> QED BY <1>9, <2>1 DEF Dashboard!Study, Dashboard!linkVars, Dashboard!callVars,
      Dashboard!history
<1>10. ASSUME NEW e \in People, Dashboard!Remove(e) PROVE Dashboard!TypeOK'
  BY <1>10 DEF Dashboard!Remove, Dashboard!callVars
<1>11. CASE Dashboard!Lapse
  BY <1>11 DEF Dashboard!Lapse, Dashboard!courseVars, Dashboard!callVars, Dashboard!history
<1>12. CASE UNCHANGED Dashboard!vars
  BY <1>12 DEF Dashboard!vars, Dashboard!linkVars, Dashboard!courseVars, Dashboard!callVars,
     Dashboard!history
<1> QED BY <1>1, <1>2, <1>3, <1>4, <1>5, <1>6, <1>7, <1>8, <1>9, <1>10, <1>11, <1>12
    DEF Dashboard!Next

\* Every step keeps what requests and dashboards hold.
LEMMA PortalHeldStep ==
  ASSUME Dashboard!PortalAssumption, Dashboard!TypeOK, PortalHeld, TokensLeft,
           [Dashboard!Next]_(Dashboard!vars)
  PROVE  PortalHeld'
<1> USE DEF Dashboard!PortalAssumption, Dashboard!TypeOK, PortalHeld, Dashboard!Goes
<1>1. ASSUME NEW c \in Calls, Dashboard!RequestLink(c) PROVE PortalHeld'
  BY <1>1 DEF Dashboard!RequestLink, Dashboard!linkVars
<1>2. ASSUME NEW c \in Calls, Dashboard!IssueToken(c) PROVE PortalHeld'
  <2> PICK e \in portal_list[c] :
         IF e \in portal_listed
           THEN /\ portal_minted' = portal_minted + 1
                /\ Dashboard!Goes(c, "mail", e, portal_list[c] \ {e}, portal_minted')
           ELSE Dashboard!Returns(c) /\ portal_minted' = portal_minted
    BY <1>2 DEF Dashboard!IssueToken
  <2>1. CASE e \in portal_listed
    BY <1>2, <2>1 DEF Dashboard!IssueToken
  <2>2. CASE e \notin portal_listed
    BY <2>2 DEF Dashboard!Returns
  <2> QED BY <2>1, <2>2
<1>3. ASSUME NEW c \in Calls, Dashboard!Mail(c) PROVE PortalHeld'
  BY <1>3, Mailed
<1>4. ASSUME NEW c \in Calls, Dashboard!CallDies(c) PROVE PortalHeld'
  BY <1>4 DEF Dashboard!CallDies, Dashboard!linkVars
<1>5. ASSUME NEW c \in Calls, Dashboard!ResolveToken(c) PROVE PortalHeld'
  BY <1>5 DEF Dashboard!ResolveToken, Dashboard!linkVars
<1>6. ASSUME NEW c \in Calls, Dashboard!ReadRows(c) \/ Dashboard!ReadAttempts(c) \/
               Dashboard!Close(c) PROVE PortalHeld'
  BY <1>6 DEF Dashboard!ReadRows, Dashboard!ReadAttempts, Dashboard!Close, Dashboard!linkVars
<1>7. CASE UNCHANGED <<portal_minted, Dashboard!callVars>>
  BY <1>7 DEF Dashboard!callVars
<1>8. CASE (\E e \in People : Dashboard!Study(e) \/ Dashboard!Remove(e)) \/ Dashboard!Lapse \/
             UNCHANGED Dashboard!vars
  BY <1>7, <1>8 DEF Dashboard!Study, Dashboard!Remove, Dashboard!Lapse, Dashboard!vars,
     Dashboard!linkVars
<1> QED BY <1>1, <1>2, <1>3, <1>4, <1>5, <1>6, <1>8 DEF Dashboard!Next

\* Every step keeps one owner for a token: what is minted is new, and goes to the row that is served.
LEMMA TokensOwnedStep ==
  ASSUME Dashboard!PortalAssumption, Dashboard!TypeOK, PortalHeld, TokensOwned,
           [Dashboard!Next]_(Dashboard!vars)
  PROVE  TokensOwned'
<1> USE DEF Dashboard!TypeOK, PortalHeld, TokensOwned, Dashboard!Goes
<1>1. ASSUME NEW c \in Calls, Dashboard!IssueToken(c) PROVE TokensOwned'
  <2> PICK e \in portal_list[c] :
         IF e \in portal_listed
           THEN /\ portal_minted' = portal_minted + 1
                /\ portal_token' = [portal_token EXCEPT ![e] = portal_minted']
                /\ Dashboard!Goes(c, "mail", e, portal_list[c] \ {e}, portal_minted')
           ELSE Dashboard!Returns(c) /\ UNCHANGED <<portal_minted, portal_token>>
    BY <1>1 DEF Dashboard!IssueToken
  <2>1. CASE e \in portal_listed
    <3>0. e \in People /\ portal_minted \in Nat /\ portal_pc'[c] = "mail" /\
            portal_held'[c] = portal_minted + 1 /\ portal_at'[c] = e
      BY <2>1
    <3>1. \A f \in People : portal_token'[f] = IF f = e THEN portal_minted + 1 ELSE portal_token[f]
      BY <2>1, <3>0
    <3>2. ASSUME NEW d \in Calls, d # c PROVE portal_pc'[d] = portal_pc[d] /\
                   portal_held'[d] = portal_held[d] /\ portal_at'[d] = portal_at[d]
      BY <2>1, <3>2
    <3>3. \A f \in People :
            portal_token'[f] \in Nat /\ portal_token[f] \in Nat /\
              portal_token'[f] <= portal_minted'
      BY <2>1, <3>0, <3>1
    <3>4. ASSUME NEW f \in People, NEW d \in Calls, portal_pc'[d] = "mail",
                   portal_held'[d] = portal_token'[f]
          PROVE  portal_at'[d] = f
      <4>1. CASE d = c
        BY <3>0, <3>1, <3>3, <3>4, <4>1
      <4>2. CASE d # c
        <5>1. portal_held[d] \in 1 .. portal_minted /\ portal_pc[d] = "mail" /\
                portal_held[d] = portal_token'[f]
          BY <3>2, <3>4, <4>2
        <5> QED BY <3>0, <3>1, <3>2, <4>2, <5>1
      <4> QED BY <4>1, <4>2
    <3> QED BY <3>3, <3>4
  <2>2. CASE e \notin portal_listed
    BY <2>2 DEF Dashboard!Returns
  <2> QED BY <2>1, <2>2
<1>2. ASSUME NEW c \in Calls, portal_pc'[c] # "mail", UNCHANGED <<portal_token, portal_minted>>,
             \A d \in Calls \ {c} :
               portal_pc'[d] = portal_pc[d] /\ portal_held'[d] = portal_held[d] /\
                 portal_at'[d] = portal_at[d]
      PROVE  TokensOwned'
  BY <1>2
<1>3. ASSUME NEW c \in Calls, Dashboard!Mail(c) PROVE TokensOwned'
  BY <1>2, <1>3, Mailed
<1>4. ASSUME NEW c \in Calls, Dashboard!RequestLink(c) \/ Dashboard!CallDies(c) \/
               Dashboard!ResolveToken(c) PROVE TokensOwned'
  BY <1>2, <1>4 DEF Dashboard!RequestLink, Dashboard!CallDies, Dashboard!ResolveToken,
     Dashboard!linkVars
<1>5. ASSUME NEW c \in Calls, Dashboard!ReadRows(c) \/ Dashboard!ReadAttempts(c) \/
               Dashboard!Close(c) PROVE TokensOwned'
  <2>1. portal_pc'[c] # "mail"
    BY <1>5 DEF Dashboard!ReadRows, Dashboard!ReadAttempts, Dashboard!Close
  <2> QED BY <1>2, <1>5, <2>1 DEF Dashboard!ReadRows, Dashboard!ReadAttempts, Dashboard!Close,
      Dashboard!linkVars
<1>6. ASSUME NEW e \in People, Dashboard!Remove(e) PROVE TokensOwned'
  BY <1>6 DEF Dashboard!Remove, Dashboard!callVars
<1>7. CASE (\E e \in People : Dashboard!Study(e)) \/ Dashboard!Lapse \/ UNCHANGED Dashboard!vars
  BY <1>7 DEF Dashboard!Study, Dashboard!Lapse, Dashboard!vars, Dashboard!linkVars,
     Dashboard!callVars
<1> QED BY <1>1, <1>3, <1>4, <1>5, <1>6, <1>7 DEF Dashboard!Next
\* Requests take on no more than there are tokens for, and a row that is gone is owed none.
LEMMA TokensLeftStep ==
  ASSUME Dashboard!PortalAssumption, Dashboard!TypeOK, PortalHeld, TokensLeft,
           [Dashboard!Next]_(Dashboard!vars)
  PROVE  TokensLeft'
<1>0. /\ IsFiniteSet(Owed) /\ IsFiniteSet(Owed') /\ Cardinality(Owed) \in Nat
      /\ Cardinality(Owed') \in Nat /\ portal_minted \in Nat /\ MaxTokens \in Nat
      /\ portal_minted + Cardinality(Owed) <= MaxTokens
  BY OwedFinite DEF Dashboard!PortalAssumption, Dashboard!TypeOK, TokensLeft
<1>1. ASSUME Owed' \subseteq Owed, portal_minted' = portal_minted PROVE TokensLeft'
  <2>1. Cardinality(Owed') <= Cardinality(Owed)
    BY <1>0, <1>1, FS_Subset
  <2> QED BY <1>0, <1>1, <2>1 DEF TokensLeft
<1>2. ASSUME NEW c \in Calls, Dashboard!RequestLink(c) PROVE TokensLeft'
  <2> DEFINE Serving == {d \in Calls : portal_pc[d] \in {"issue", "mail"}} \cup {c}
  <2>1. Serving \subseteq Calls /\ portal_listed \subseteq People
    BY DEF Dashboard!TypeOK
  <2>2. /\ IsFiniteSet(Serving \X portal_listed)
        /\ Cardinality(Serving \X portal_listed) = Cardinality(Serving) * Cardinality(portal_listed)
        /\ Cardinality(Serving) \in Nat /\ Cardinality(portal_listed) \in Nat
    BY CountsAlike, <2>1, FS_Product, FS_Subset, FS_CardinalityType DEF Dashboard!PortalAssumption
  <2>3. Owed' \subseteq Serving \X portal_listed
    BY <1>2 DEF Dashboard!RequestLink, Dashboard!linkVars, Owed, Dashboard!TypeOK
  <2>4. /\ portal_minted + Cardinality(portal_listed) * Cardinality(Serving) <= MaxTokens
        /\ portal_minted' = portal_minted
    BY CountsAlike, <1>2 DEF Dashboard!RequestLink, Dashboard!linkVars
  <2> HIDE DEF Serving
  <2>5. Cardinality(Owed') <= Cardinality(Serving) * Cardinality(portal_listed)
    BY <2>2, <2>3, FS_Subset
  <2>6. Cardinality(Serving) * Cardinality(portal_listed) = Cardinality(portal_listed) * Cardinality(Serving)
    BY <2>2
  <2>7. Cardinality(portal_listed) * Cardinality(Serving) \in Nat
    BY <2>2
  <2> QED BY <1>0, <2>4, <2>5, <2>6, <2>7 DEF TokensLeft
<1>3. ASSUME NEW c \in Calls, Dashboard!IssueToken(c) PROVE TokensLeft'
  <2> PICK e \in portal_list[c] :
         IF e \in portal_listed
           THEN /\ portal_minted' = portal_minted + 1
                /\ Dashboard!Goes(c, "mail", e, portal_list[c] \ {e}, portal_minted')
           ELSE Dashboard!Returns(c) /\ portal_minted' = portal_minted
    BY <1>3 DEF Dashboard!IssueToken
  <2>0. portal_pc[c] = "issue" /\ portal_listed' = portal_listed
    BY <1>3 DEF Dashboard!IssueToken
  <2>1. CASE e \in portal_listed
    <3>1. Owed' \subseteq Owed \ {<<c, e>>}
      BY <2>0, <2>1 DEF Owed, Dashboard!Goes, Dashboard!TypeOK
    <3>2. /\ IsFiniteSet(Owed \ {<<c, e>>})
          /\ portal_minted + 1 + Cardinality(Owed \ {<<c, e>>}) <= MaxTokens
      BY <2>0, <2>1, Paid
    <3>3. /\ Cardinality(Owed') <= Cardinality(Owed \ {<<c, e>>})
          /\ Cardinality(Owed \ {<<c, e>>}) \in Nat
      BY <3>1, <3>2, FS_Subset, FS_CardinalityType
    <3> QED BY <1>0, <2>1, <3>2, <3>3 DEF TokensLeft
  <2>2. CASE e \notin portal_listed
    <3>1. Owed' \subseteq Owed
      BY <2>0, <2>2 DEF Owed, Dashboard!Returns, Dashboard!Goes, Dashboard!TypeOK
    <3> QED BY <1>1, <2>2, <3>1
  <2> QED BY <2>1, <2>2
<1>4. ASSUME NEW c \in Calls, Dashboard!Mail(c) PROVE TokensLeft'
  <2>1. portal_minted' = portal_minted /\ portal_listed' = portal_listed
    BY <1>4, Mailed
  <2>2. PICK step \in {"idle", "issue"} : Dashboard!Goes(c, step, None, portal_list[c], 0)
    BY <1>4, Mailed
  <2>3. portal_pc[c] = "mail"
    BY <1>4, Mailed
  <2>4. Owed' \subseteq Owed
    BY <2>1, <2>2, <2>3 DEF Dashboard!Goes, Owed, Dashboard!TypeOK
  <2> QED BY <1>1, <2>1, <2>4
<1>5. ASSUME NEW c \in Calls, Dashboard!CallDies(c) \/ Dashboard!ResolveToken(c) PROVE TokensLeft'
  <2>1. Owed' \subseteq Owed
    BY <1>5 DEF Dashboard!CallDies, Dashboard!ResolveToken, Dashboard!Goes, Owed, Dashboard!TypeOK,
       Dashboard!linkVars
  <2> QED BY <1>1, <1>5, <2>1 DEF Dashboard!CallDies, Dashboard!ResolveToken, Dashboard!linkVars
<1>6. ASSUME NEW c \in Calls, Dashboard!ReadRows(c) \/ Dashboard!ReadAttempts(c) \/
               Dashboard!Close(c) PROVE TokensLeft'
  <2>1. Owed' \subseteq Owed
    BY <1>6 DEF Dashboard!ReadRows, Dashboard!ReadAttempts, Dashboard!Close, Owed, Dashboard!TypeOK,
       Dashboard!linkVars
  <2> QED BY <1>1, <1>6, <2>1 DEF Dashboard!ReadRows, Dashboard!ReadAttempts, Dashboard!Close,
      Dashboard!linkVars
<1>7. ASSUME NEW e \in People, Dashboard!Remove(e) PROVE TokensLeft'
  <2>1. Owed' \subseteq Owed
    BY <1>7 DEF Dashboard!Remove, Dashboard!callVars, Owed
  <2> QED BY <1>1, <1>7, <2>1 DEF Dashboard!Remove
<1>8. CASE (\E e \in People : Dashboard!Study(e)) \/ Dashboard!Lapse \/ UNCHANGED Dashboard!vars
  <2>1. UNCHANGED <<portal_minted, portal_listed, portal_pc, portal_list>>
    BY <1>8 DEF Dashboard!Study, Dashboard!Lapse, Dashboard!vars, Dashboard!linkVars,
       Dashboard!callVars
  <2> QED BY <1>1, <2>1 DEF Owed
<1> QED BY <1>2, <1>3, <1>4, <1>5, <1>6, <1>7, <1>8 DEF Dashboard!Next

\* A new token is in the hands of the call that mails it; the mail is delivered, refused,
\* or never sent.
LEMMA LinksDeliveredStep ==
  ASSUME Dashboard!PortalAssumption, Dashboard!TypeOK, PortalHeld, TokensLeft, TokensOwned,
           Dashboard!LinksDelivered, [Dashboard!Next]_(Dashboard!vars)
  PROVE  Dashboard!LinksDelivered'
<1> SUFFICES ASSUME NEW e \in People, e \in portal_listed', portal_token'[e] # 0
             PROVE  \/ <<e, portal_token'[e]>> \in portal_inbox'
                    \/ portal_token'[e] \in portal_lost'
                    \/ \E c \in Calls : portal_held'[c] = portal_token'[e]
  <2>1. portal_listed' \subseteq People
    BY PortalTypes DEF Dashboard!TypeOK
  <2> QED BY <2>1 DEF Dashboard!LinksDelivered
<1> USE DEF Dashboard!TypeOK, PortalHeld, Dashboard!Goes
<1>0. e \in portal_listed /\ portal_token[e] # 0 =>
        <<e, portal_token[e]>> \in portal_inbox \/ portal_token[e] \in portal_lost \/
          \E d \in Calls : portal_held[d] = portal_token[e]
  BY DEF Dashboard!LinksDelivered
<1>1. ASSUME portal_token'[e] = portal_token[e], e \in portal_listed,
               portal_inbox \subseteq portal_inbox', portal_lost \subseteq portal_lost',
             \A d \in Calls : portal_held[d] # 0 => portal_held'[d] = portal_held[d]
      PROVE  \/ <<e, portal_token'[e]>> \in portal_inbox' \/ portal_token'[e] \in portal_lost'
             \/ \E c \in Calls : portal_held'[c] = portal_token'[e]
  BY <1>0, <1>1
<1>2. ASSUME NEW c \in Calls, Dashboard!IssueToken(c)
      PROVE  \/ <<e, portal_token'[e]>> \in portal_inbox' \/ portal_token'[e] \in portal_lost'
             \/ \E d \in Calls : portal_held'[d] = portal_token'[e]
  <2> PICK f \in portal_list[c] :
         IF f \in portal_listed
           THEN /\ portal_minted' = portal_minted + 1
                /\ portal_token' = [portal_token EXCEPT ![f] = portal_minted']
                /\ Dashboard!Goes(c, "mail", f, portal_list[c] \ {f}, portal_minted')
           ELSE Dashboard!Returns(c) /\ UNCHANGED <<portal_minted, portal_token>>
    BY <1>2 DEF Dashboard!IssueToken
  <2>0. portal_pc[c] = "issue" /\ UNCHANGED <<portal_listed, portal_inbox, portal_lost>> /\
          f \in People
    BY <1>2 DEF Dashboard!IssueToken
  <2>1. CASE f \in portal_listed /\ f = e
    BY <2>0, <2>1
  <2>2. CASE f \in portal_listed /\ f # e
    BY <1>1, <2>0, <2>2
  <2>3. CASE f \notin portal_listed
    BY <1>1, <2>0, <2>3 DEF Dashboard!Returns
  <2> QED BY <2>1, <2>2, <2>3
<1>3. ASSUME NEW c \in Calls, Dashboard!Mail(c)
      PROVE  \/ <<e, portal_token'[e]>> \in portal_inbox' \/ portal_token'[e] \in portal_lost'
             \/ \E d \in Calls : portal_held'[d] = portal_token'[e]
  <2>1. /\ portal_pc[c] = "mail" /\ UNCHANGED <<portal_listed, portal_token>>
        /\ \/ portal_inbox' = portal_inbox \cup {<<portal_at[c], portal_held[c]>>} /\
                portal_lost' = portal_lost
           \/ portal_lost' = portal_lost \cup {portal_held[c]} /\ portal_inbox' = portal_inbox
    BY <1>3, Mailed
  <2>2. PICK step \in {"idle", "issue"} : Dashboard!Goes(c, step, None, portal_list[c], 0)
    BY <1>3, Mailed
  <2>3. CASE portal_held[c] = portal_token[e]
    <3>1. portal_at[c] = e
      BY <2>1, <2>3 DEF TokensOwned
    <3> QED BY <2>1, <2>3, <3>1
  <2>4. CASE portal_held[c] # portal_token[e]
    <3>1. \A d \in Calls : portal_held[d] = portal_token[e] => portal_held'[d] = portal_token[e]
      BY <2>2, <2>4
    <3> QED BY <1>0, <2>1, <3>1
  <2> QED BY <2>3, <2>4
<1>4. ASSUME NEW c \in Calls, Dashboard!CallDies(c)
      PROVE  \/ <<e, portal_token'[e]>> \in portal_inbox' \/ portal_token'[e] \in portal_lost'
             \/ \E d \in Calls : portal_held'[d] = portal_token'[e]
  <2>1. UNCHANGED <<portal_listed, portal_token, portal_inbox>> /\
          portal_lost' = portal_lost \cup ({portal_held[c]} \ {0})
    BY <1>4 DEF Dashboard!CallDies, Dashboard!linkVars
  <2>2. \A d \in Calls :
          portal_held[d] = portal_held'[d] \/ portal_held[d] \in portal_lost' \/ portal_held[d] = 0
    BY <1>4, <2>1 DEF Dashboard!CallDies
  <2> QED BY <1>0, <2>1, <2>2
<1>5. ASSUME NEW c \in Calls, Dashboard!RequestLink(c) \/ Dashboard!ResolveToken(c)
      PROVE  \/ <<e, portal_token'[e]>> \in portal_inbox' \/ portal_token'[e] \in portal_lost'
             \/ \E d \in Calls : portal_held'[d] = portal_token'[e]
  BY <1>1, <1>5 DEF Dashboard!RequestLink, Dashboard!ResolveToken, Dashboard!linkVars
<1>6. ASSUME NEW c \in Calls, Dashboard!ReadRows(c) \/ Dashboard!ReadAttempts(c) \/
               Dashboard!Close(c)
      PROVE  \/ <<e, portal_token'[e]>> \in portal_inbox' \/ portal_token'[e] \in portal_lost'
             \/ \E d \in Calls : portal_held'[d] = portal_token'[e]
  <2>1. UNCHANGED <<portal_listed, portal_token, portal_inbox, portal_lost, portal_held>>
    BY <1>6 DEF Dashboard!ReadRows, Dashboard!ReadAttempts, Dashboard!Close, Dashboard!linkVars,
       Dashboard!history
  <2> QED BY <1>1, <2>1
<1>7. ASSUME NEW f \in People, Dashboard!Remove(f)
      PROVE  \/ <<e, portal_token'[e]>> \in portal_inbox' \/ portal_token'[e] \in portal_lost'
             \/ \E d \in Calls : portal_held'[d] = portal_token'[e]
  <2>1. e # f /\ portal_token'[e] = portal_token[e] /\ e \in portal_listed /\
          UNCHANGED <<portal_inbox, portal_lost, portal_held>>
    BY <1>7 DEF Dashboard!Remove, Dashboard!callVars
  <2> QED BY <1>1, <2>1
<1>8. CASE (\E f \in People : Dashboard!Study(f)) \/ Dashboard!Lapse \/ UNCHANGED Dashboard!vars
  <2>1. UNCHANGED <<portal_listed, portal_token, portal_inbox, portal_lost, portal_held>>
    BY <1>8 DEF Dashboard!Study, Dashboard!Lapse, Dashboard!vars, Dashboard!linkVars,
       Dashboard!callVars, Dashboard!history
  <2> QED BY <1>1, <2>1
<1> QED BY <1>2, <1>3, <1>4, <1>5, <1>6, <1>7, <1>8 DEF Dashboard!Next

\* Only the request that comes to a row that is gone leaves rows out.
LEMMA EveryClientServedStep ==
  ASSUME Dashboard!TypeOK, Dashboard!EveryClientServed, [Dashboard!Next]_(Dashboard!vars)
  PROVE  Dashboard!EveryClientServed'
<1> USE DEF Dashboard!EveryClientServed
<1>1. ASSUME NEW c \in Calls, Dashboard!IssueToken(c) PROVE Dashboard!EveryClientServed'
  <2> PICK e \in portal_list[c] :
         IF e \in portal_listed THEN UNCHANGED <<portal_skipped, portal_gone>>
                        ELSE Dashboard!Returns(c) /\ portal_gone' = portal_gone \cup {c}
    BY <1>1 DEF Dashboard!IssueToken
  <2>1. CASE e \in portal_listed
    BY <2>1
  <2>2. CASE e \notin portal_listed
    BY <2>2 DEF Dashboard!Returns
  <2> QED BY <2>1, <2>2
<1>2. ASSUME NEW c \in Calls, Dashboard!Mail(c) \/
               Dashboard!CallDies(c) PROVE Dashboard!EveryClientServed'
  BY <1>2, Mailed DEF Dashboard!CallDies
<1>3. ASSUME NEW c \in Calls, Dashboard!RequestLink(c) \/
               Dashboard!ResolveToken(c) PROVE Dashboard!EveryClientServed'
  BY <1>3 DEF Dashboard!RequestLink, Dashboard!ResolveToken
<1>4. ASSUME NEW e \in People, Dashboard!Remove(e) PROVE Dashboard!EveryClientServed'
  BY <1>4 DEF Dashboard!Remove
<1>5. CASE \/ \E c \in Calls :
                Dashboard!ReadRows(c) \/ Dashboard!ReadAttempts(c) \/ Dashboard!Close(c)
           \/ (\E e \in People : Dashboard!Study(e)) \/ Dashboard!Lapse \/ UNCHANGED Dashboard!vars
  BY <1>5 DEF Dashboard!ReadRows, Dashboard!ReadAttempts, Dashboard!Close, Dashboard!Study,
     Dashboard!Lapse, Dashboard!vars, Dashboard!history
<1> QED BY <1>1, <1>2, <1>3, <1>4, <1>5 DEF Dashboard!Next

\* Courses and certificates move in a study, and go with their row.
LEMMA PassesStandStep ==
  ASSUME Dashboard!TypeOK, PassesStand, [Dashboard!Next]_(Dashboard!vars)
  PROVE  PassesStand'
<1> USE DEF PassesStand, Dashboard!TypeOK
<1>1. ASSUME NEW e \in People, Dashboard!Study(e) PROVE PassesStand'
  BY <1>1 DEF Dashboard!Study
<1>2. ASSUME NEW e \in People, Dashboard!Remove(e) PROVE PassesStand'
  BY <1>2 DEF Dashboard!Remove
<1>3. CASE UNCHANGED Dashboard!courseVars
  BY <1>3 DEF Dashboard!courseVars
<1>4. ASSUME NEW c \in Calls, \/ Dashboard!RequestLink(c) \/ Dashboard!IssueToken(c)
                              \/ Dashboard!Mail(c) \/ Dashboard!CallDies(c)
                              \/ Dashboard!ResolveToken(c) \/ Dashboard!ReadRows(c)
                              \/ Dashboard!ReadAttempts(c) \/ Dashboard!Close(c)
      PROVE  UNCHANGED Dashboard!courseVars
  BY <1>4, Mailed DEF Dashboard!RequestLink, Dashboard!IssueToken, Dashboard!CallDies,
     Dashboard!ResolveToken, Dashboard!ReadRows, Dashboard!ReadAttempts, Dashboard!Close
<1>5. CASE Dashboard!Lapse \/ UNCHANGED Dashboard!vars
  BY <1>3, <1>5 DEF Dashboard!Lapse, Dashboard!vars
<1> QED BY <1>1, <1>2, <1>3, <1>4, <1>5 DEF Dashboard!Next
\* A pass that stands with what was read stays, for a row that is there.
LEMMA PageStep ==
  ASSUME Dashboard!PortalAssumption, Dashboard!TypeOK, PortalHeld, PassesStand,
           Dashboard!EveryClientServed, PageRead,
         Dashboard!PageConsistent, [Dashboard!Next]_(Dashboard!vars)
  PROVE  PageRead' /\ Dashboard!PageConsistent'
<1> USE DEF PageRead, Dashboard!PageConsistent
\* The calls but one go on with what they have, and nobody's pass is taken back unnoticed.
<1>1. ASSUME NEW c \in Calls,
             \A d \in Calls \ {c} :
               /\ portal_pc'[d] = portal_pc[d] /\ portal_page'[d] = portal_page[d]
               /\ portal_at'[d] = portal_at[d]
               /\ d \notin portal_gone' => d \notin portal_gone,
             \A d \in Calls \ portal_gone' :
               portal_at[d] \in portal_passed => portal_at[d] \in portal_passed',
             portal_pc'[c] \notin {"rows", "attempts", "shown"} =>
               portal_page'[c] = Dashboard!Blank,
             portal_pc'[c] \in {"attempts", "shown"} =>
               portal_page'[c].course # None /\ portal_page'[c].certified # None,
             portal_pc'[c] = "shown" => portal_page'[c].best \in BOOLEAN,
             /\ c \notin portal_gone' /\ portal_pc'[c] \in {"rows", "attempts"}
             /\ portal_page'[c].course = "quiz" \/ portal_page'[c].certified = TRUE
             => portal_at'[c] \in portal_passed',
             /\ c \notin portal_gone' /\ portal_pc'[c] = "shown"
             /\ portal_page'[c].course = "quiz" \/ portal_page'[c].certified
             => portal_page'[c].best
      PROVE  PageRead' /\ Dashboard!PageConsistent'
  BY <1>1
<1>2. ASSUME UNCHANGED <<portal_pc, portal_page, portal_at>>, portal_gone \subseteq portal_gone',
             \A d \in Calls \ portal_gone' :
               portal_at[d] \in portal_passed => portal_at[d] \in portal_passed'
      PROVE  PageRead' /\ Dashboard!PageConsistent'
  BY <1>2
<1>3. ASSUME NEW c \in Calls, Dashboard!RequestLink(c) \/ Dashboard!IssueToken(c) \/
               Dashboard!Mail(c) \/ Dashboard!CallDies(c)
      PROVE  PageRead' /\ Dashboard!PageConsistent'
  <2>1. /\ portal_pc[c] \in {"idle", "issue", "mail"} /\ portal_pc'[c] \in {"idle", "issue", "mail"}
        /\ \A d \in Calls \ {c} : portal_pc'[d] = portal_pc[d] /\ portal_at'[d] = portal_at[d]
        /\ portal_page' = portal_page /\ portal_passed' = portal_passed
    <3>1. CASE Dashboard!RequestLink(c)
      BY <3>1 DEF Dashboard!RequestLink, Dashboard!courseVars, Dashboard!TypeOK
    <3>2. CASE Dashboard!IssueToken(c)
      BY <3>2 DEF Dashboard!IssueToken, Dashboard!Goes, Dashboard!Returns, Dashboard!courseVars,
         Dashboard!TypeOK
    <3>3. CASE Dashboard!Mail(c)
      BY <3>3, Mailed DEF Dashboard!Goes, Dashboard!courseVars, Dashboard!TypeOK
    <3>4. CASE Dashboard!CallDies(c)
      BY <3>4 DEF Dashboard!CallDies, Dashboard!Goes, Dashboard!courseVars, Dashboard!TypeOK
    <3> QED BY <1>3, <3>1, <3>2, <3>3, <3>4
  <2>2. \A d \in Calls \ {c} : d \notin portal_gone' => d \notin portal_gone
    BY <1>3, Mailed DEF Dashboard!RequestLink, Dashboard!IssueToken, Dashboard!CallDies
  <2> QED BY <1>1, <2>1, <2>2
<1>4. ASSUME NEW c \in Calls, Dashboard!ResolveToken(c) PROVE PageRead' /\ Dashboard!PageConsistent'
  <2>1. /\ portal_pc'[c] = "rows" /\ portal_page'[c] = Dashboard!Blank
        /\ portal_passed' = portal_passed
        /\ \A d \in Calls \ {c} : /\ portal_pc'[d] = portal_pc[d] /\ portal_at'[d] = portal_at[d]
                                  /\ portal_page'[d] = portal_page[d]
                                  /\ d \notin portal_gone' => d \notin portal_gone
    BY <1>4 DEF Dashboard!ResolveToken, Dashboard!Goes, Dashboard!courseVars, Dashboard!TypeOK
  <2>2. Dashboard!Blank.course # "quiz" /\ Dashboard!Blank.certified # TRUE
    BY DEF Dashboard!Blank, Dashboard!PortalAssumption, Dashboard!Courses
  <2> QED BY <1>1, <2>1, <2>2
<1>5. ASSUME NEW c \in Calls, Dashboard!ReadRows(c) PROVE PageRead' /\ Dashboard!PageConsistent'
  <2>1. /\ portal_pc[c] = "rows" /\ UNCHANGED <<portal_at, portal_passed, portal_gone>>
        /\ portal_at[c] \in People
        /\ portal_pc'[c] \in {"rows", "attempts"}
        /\ portal_pc'[c] = "attempts" =>
             portal_page'[c].course # None /\ portal_page'[c].certified # None
        /\ \A d \in Calls \ {c} : portal_pc'[d] = portal_pc[d]
    BY <1>5 DEF Dashboard!ReadRows, Dashboard!courseVars, Dashboard!history, Dashboard!TypeOK,
       PortalHeld
  <2>2. \/ /\ portal_page' = [portal_page EXCEPT ![c].course = IF c \notin portal_gone THEN portal_course[portal_at[c]] ELSE "open"]
        \/ /\ portal_page' = [portal_page EXCEPT ![c].certified = (c \notin portal_gone /\ portal_at[c] \in portal_certificate)]
    BY <1>5 DEF Dashboard!ReadRows, Dashboard!Found
  <2>3. /\ \A d \in Calls \ {c} : portal_page'[d] = portal_page[d]
        /\ \/ /\ portal_page'[c].certified = portal_page[c].certified
              /\ c \notin portal_gone => portal_page'[c].course = portal_course[portal_at[c]]
           \/ /\ portal_page'[c].course = portal_page[c].course
              /\ portal_page'[c].certified = (c \notin portal_gone /\ portal_at[c] \in portal_certificate)
    BY <2>2 DEF Dashboard!TypeOK
  <2>4. c \notin portal_gone /\
          (portal_page'[c].course = "quiz" \/ portal_page'[c].certified = TRUE) =>
            portal_at[c] \in portal_passed
    BY <2>1, <2>3 DEF PassesStand
  <2> QED BY <1>1, <2>1, <2>3, <2>4
<1>6. ASSUME NEW c \in Calls, Dashboard!ReadAttempts(c) PROVE PageRead' /\ Dashboard!PageConsistent'
  <2>1. /\ portal_pc[c] = "attempts" /\ portal_pc'[c] = "shown"
        /\ UNCHANGED <<portal_at, portal_passed, portal_gone>>
        /\ \A d \in Calls \ {c} : portal_pc'[d] = portal_pc[d] /\ portal_page'[d] = portal_page[d]
        /\ portal_page'[c].course = portal_page[c].course
        /\ portal_page'[c].certified = portal_page[c].certified
        /\ portal_page'[c].best = (c \notin portal_gone /\ portal_at[c] \in portal_passed)
    BY <1>6 DEF Dashboard!ReadAttempts, Dashboard!Found, Dashboard!courseVars, Dashboard!history,
       Dashboard!TypeOK
  <2>2. portal_page[c].certified \in BOOLEAN
    BY <2>1 DEF Dashboard!TypeOK
  <2> QED BY <1>1, <2>1, <2>2, ZenonT(60)
<1>7. ASSUME NEW c \in Calls, Dashboard!Close(c) PROVE PageRead' /\ Dashboard!PageConsistent'
  BY <1>1, <1>7 DEF Dashboard!Close, Dashboard!courseVars, Dashboard!history, Dashboard!TypeOK
<1>8. ASSUME NEW e \in People, Dashboard!Study(e) PROVE PageRead' /\ Dashboard!PageConsistent'
  BY <1>2, <1>8 DEF Dashboard!Study, Dashboard!callVars, Dashboard!history
<1>9. ASSUME NEW e \in People, Dashboard!Remove(e) PROVE PageRead' /\ Dashboard!PageConsistent'
  BY <1>2, <1>9 DEF Dashboard!Remove, Dashboard!callVars
<1>10. CASE Dashboard!Lapse \/ UNCHANGED Dashboard!vars
  BY <1>2, <1>10 DEF Dashboard!Lapse, Dashboard!vars, Dashboard!courseVars, Dashboard!callVars,
     Dashboard!history
<1> QED BY <1>3, <1>4, <1>5, <1>6, <1>7, <1>8, <1>9, <1>10 DEF Dashboard!Next

\* The invariant holds initially.
LEMMA PortalIInvInit ==
  ASSUME Dashboard!PortalAssumption, Dashboard!Init
  PROVE  PortalIInv
<1>1. Dashboard!TypeOK /\ PortalHeld /\ TokensOwned /\ PassesStand
  BY DEF Dashboard!PortalAssumption, Dashboard!Init, Dashboard!TypeOK, PortalHeld, TokensOwned,
     PassesStand, Dashboard!Courses, Dashboard!Blank
<1>2. Dashboard!LinksDelivered /\ Dashboard!EveryClientServed /\ PageRead /\
        Dashboard!PageConsistent
  BY DEF Dashboard!Init, Dashboard!LinksDelivered, Dashboard!EveryClientServed, PageRead,
     Dashboard!PageConsistent
<1>3. TokensLeft
  <2>1. Owed = {} /\ portal_minted = 0
    BY DEF Dashboard!Init, Owed
  <2> QED BY CountsAlike, <2>1, FS_EmptySet DEF TokensLeft, Dashboard!PortalAssumption
<1> QED BY <1>1, <1>2, <1>3 DEF PortalIInv

\* Every step keeps it.
LEMMA PortalIInvNext ==
  ASSUME Dashboard!PortalAssumption, PortalIInv, [Dashboard!Next]_(Dashboard!vars)
  PROVE  PortalIInv'
BY PortalTypes, PortalHeldStep, TokensOwnedStep, TokensLeftStep, LinksDeliveredStep,
   EveryClientServedStep, PassesStandStep, PageStep DEF PortalIInv

\* What requests for a link and open dashboards hold, whose every token is, and what each page read.
THEOREM PortalInductive == ClientsSpec => [](focus = "portal" => PortalIInv)
<1> DEFINE I == focus = "portal" => PortalIInv
<1>1. ClientsInit => I
  BY ClientsAssumption, Begun, PortalIInvInit DEF ClientsAssumption
<1>2. I /\ [ClientsNext]_allVars => I'
  BY ClientsAssumption, Focused, PortalIInvNext DEF ClientsAssumption
<1> QED BY <1>1, <1>2, PTL DEF ClientsSpec

\* What a contract of links keeps by itself: tokens are told apart by their numbers.
Kept ==
  /\ portal_minted \in Nat
  /\ portal_token \in [People -> 0 .. portal_minted]
  /\ portal_inbox \subseteq People \X (1 .. portal_minted)
  /\ Links!OpensOwnOnly

\* No step of the contract lets a mail open what is another's.
LEMMA ContractKeeps ==
  ASSUME Kept, [Links!Next]_(Links!vars)
  PROVE  Kept'
<1> USE DEF Kept, Links!OpensOwnOnly
<1>1. CASE UNCHANGED Links!vars
  BY <1>1 DEF Links!vars
<1>2. ASSUME NEW o \in People, Links!Mint(o) PROVE Kept'
  BY <1>2 DEF Links!Mint
<1>3. ASSUME NEW o \in People, NEW t \in 1 .. portal_minted, Links!Mail(o, t) PROVE Kept'
  BY <1>3 DEF Links!Mail
<1>4. ASSUME NEW S \in SUBSET People, Links!Revoke(S) PROVE Kept'
  BY <1>4 DEF Links!Revoke
<1> QED BY <1>1, <1>2, <1>3, <1>4 DEF Links!Next

\* To mint, to mail and to end a token is all that the dashboard and the roster do to links.
LEMMA TokensNext ==
  ASSUME PortalIInv, [Dashboard!Next]_(Dashboard!vars)
  PROVE  [Links!Next]_(Links!vars)
<1> USE DEF Links!vars, Dashboard!linkVars
<1>1. CASE UNCHANGED Dashboard!vars
  BY <1>1 DEF Dashboard!vars
<1>2. ASSUME NEW c \in Calls, Dashboard!IssueToken(c) PROVE [Links!Next]_(Links!vars)
  <2>1. PICK e \in portal_list[c] :
          \/ e \in portal_listed /\ portal_minted' = portal_minted + 1 /\
               portal_token' = [portal_token EXCEPT ![e] = portal_minted']
          \/ UNCHANGED <<portal_minted, portal_token>>
    BY <1>2 DEF Dashboard!IssueToken
  <2>2. e \in People /\ portal_inbox' = portal_inbox
    BY <1>2 DEF Dashboard!IssueToken, PortalIInv, Dashboard!TypeOK
  <2> QED BY <2>1, <2>2 DEF Links!Next, Links!Mint
<1>3. ASSUME NEW c \in Calls, Dashboard!Mail(c) PROVE [Links!Next]_(Links!vars)
  <2>1. /\ portal_pc[c] = "mail" /\ UNCHANGED <<portal_token, portal_minted>>
        /\ \/ portal_inbox' = portal_inbox \cup {<<portal_at[c], portal_held[c]>>}
           \/ portal_inbox' = portal_inbox
    BY <1>3, Mailed
  <2>2. /\ portal_at[c] \in People /\ portal_held[c] \in 1 .. portal_minted
        /\ \A e \in People \ {portal_at[c]} : portal_token[e] # portal_held[c]
    BY <2>1 DEF PortalIInv, PortalHeld, TokensOwned
  <2> QED BY <2>1, <2>2 DEF Links!Next, Links!Mail
<1>4. ASSUME NEW e \in People, Dashboard!Remove(e) PROVE [Links!Next]_(Links!vars)
  <2>1. portal_token' = [o \in People |-> IF o \in {e} THEN 0 ELSE portal_token[o]]
    BY <1>4 DEF Dashboard!Remove, PortalIInv, Dashboard!TypeOK
  <2>2. Links!Revoke({e})
    BY <1>4, <2>1 DEF Dashboard!Remove, Links!Revoke
  <2> QED BY <2>2 DEF Links!Next
<1>5. ASSUME NEW c \in Calls,
             \/ Dashboard!RequestLink(c) \/ Dashboard!CallDies(c) \/ Dashboard!ResolveToken(c)
             \/ Dashboard!ReadRows(c) \/ Dashboard!ReadAttempts(c) \/ Dashboard!Close(c)
      PROVE  UNCHANGED Links!vars
  BY <1>5 DEF Dashboard!RequestLink, Dashboard!CallDies, Dashboard!ResolveToken,
     Dashboard!ReadRows, Dashboard!ReadAttempts, Dashboard!Close
<1>6. ASSUME (\E e \in People : Dashboard!Study(e)) \/ Dashboard!Lapse PROVE UNCHANGED Links!vars
  BY <1>6 DEF Dashboard!Study, Dashboard!Lapse
<1> QED BY <1>1, <1>2, <1>3, <1>4, <1>5, <1>6 DEF Dashboard!Next

\* In the beginning there is no link.
LEMMA NoLinkYet ==
  ASSUME Dashboard!Init
  PROVE  Links!Init /\ Kept
<1>1. Links!Init
  BY DEF Dashboard!Init, Links!Init
<1> QED BY <1>1 DEF Links!Init, Kept, Links!OpensOwnOnly

\* The dashboard's links implement the contract of links: a behaviour of the dashboard is one of
\* LinkContract, where every step mints, mails, ends links or leaves them alone.
THEOREM DashboardImplementsLinks == ClientsSpec => (focus = "portal" => Links!Spec)
<1>1. ClientsInit => (focus = "portal" => Links!Init)
  BY Begun, NoLinkYet
<1>2. (focus = "portal" => PortalIInv) /\ [ClientsNext]_allVars =>
        /\ focus = "portal" => (focus = "portal")'
        /\ focus = "portal" => [Links!Next]_(Links!vars)
  BY Focused, TokensNext
<1> QED BY <1>1, <1>2, PortalInductive, PTL DEF ClientsSpec, Links!Spec

\* Links reach their owners, each client of an address is served, a page agrees with itself, and
\* no link opens another's dashboard: the last is all the contract's doing.
THEOREM PortalKept == ClientsSpec => PortalHolds
<1> DEFINE I == focus = "portal" => PortalIInv
           K == focus = "portal" => Kept
<1>1. ClientsInit => K /\ (focus = "portal" => Links!Init)
  BY Begun, NoLinkYet
<1>2. I /\ [ClientsNext]_allVars => [focus = "portal" => [Links!Next]_(Links!vars)]_allVars
  BY Focused, TokensNext
<1>3. I /\ K /\ [ClientsNext]_allVars => K'
  BY Focused, TokensNext, ContractKeeps
<1>4. I /\ K => (focus = "portal" => Dashboard!PortalInv /\ Links!OpensOwnOnly)
  BY DEF PortalIInv, Dashboard!PortalInv, Kept
<1> QED BY <1>1, <1>2, <1>3, <1>4, PortalInductive, PTL DEF ClientsSpec, PortalHolds

-----------------------------------------------------------------------------
(* Courses that follow from simulations *)

\* The proofs about the training, of the state that this module keeps for it.
Courses == INSTANCE EngagementProofs WITH
  MaxFaults <- MaxDeaths, now <- training_now,
  sent <- training_sent, openedAt <- training_openedAt,
  clickedAt <- training_clickedAt, reportedAt <- training_reportedAt,
  credentials <- training_credentials, submissions <- training_submissions,
  forwarded <- training_forwarded, rule <- training_rule, open <- training_open,
  done <- training_done, pc <- training_pc, target <- training_target,
  chosen <- training_chosen, unread <- training_unread, figures <- training_figures,
  dropped <- training_dropped, faults <- training_faults

\* A step of it is a step there.
LEMMA SameSteps ==
  /\ \A c \in Calls : Training!Open(c) => Courses!Open(c)
  /\ \A c \in Calls : Training!Click(c) => Courses!Click(c)
  /\ \A c \in Calls : Training!Moment(c) => Courses!Moment(c)
  /\ \A c \in Calls : Training!Report(c) => Courses!Report(c)
  /\ \A c \in Calls : Training!Forward(c) => Courses!Forward(c)
  /\ \A c \in Calls : Training!Submit(c) => Courses!Submit(c)
  /\ \A c \in Calls : Training!Manual(c) => Courses!Manual(c)
  /\ \A c \in Calls : Training!CallDies(c) => Courses!CallDies(c)
  /\ \A s \in Sends : Training!Stamp(s) => Courses!Stamp(s)
  /\ \A f \in Training!Figures : Training!ReadFigure(f) => Courses!ReadFigure(f)
  /\ \A m \in Modules, x \in Training!Sources : Training!Complete(m, x) => Courses!Complete(m, x)
  /\ \A m \in Modules \cup {None} : Training!Route(m) => Courses!Route(m)
  /\ Training!NewReport => Courses!NewReport
  /\ Training!Tick => Courses!Tick
<1>1. \A c \in Calls : Training!Open(c) => Courses!Open(c)
  BY DEF Training!Open, Training!Start, Training!MarkOpened, Training!marks, Training!evidence,
    Training!training, Training!reportVars, Training!faultVars, Training!First, Training!Finish,
    Courses!Open, Courses!Start, Courses!MarkOpened, Courses!marks, Courses!evidence,
    Courses!training, Courses!reportVars, Courses!faultVars, Courses!First, Courses!Finish
<1>2. \A c \in Calls : Training!Click(c) => Courses!Click(c)
  BY DEF Training!Click, Training!Start, Training!MarkClicked, Training!MarkOpened, Training!marks,
    Training!evidence, Training!training, Training!reportVars, Training!faultVars, Training!First,
    Training!Goto, Training!Finish, Courses!Click, Courses!Start, Courses!MarkClicked,
    Courses!MarkOpened, Courses!marks, Courses!evidence, Courses!training, Courses!reportVars,
    Courses!faultVars, Courses!First, Courses!Goto, Courses!Finish
<1>3. \A c \in Calls : Training!Moment(c) => Courses!Moment(c)
  BY DEF Training!Moment, Training!Start, Training!MarkClicked, Training!MarkOpened, Training!marks,
    Training!evidence, Training!training, Training!reportVars, Training!faultVars, Training!First,
    Training!Goto, Training!Finish, Courses!Moment, Courses!Start, Courses!MarkClicked,
    Courses!MarkOpened, Courses!marks, Courses!evidence, Courses!training, Courses!reportVars,
    Courses!faultVars, Courses!First, Courses!Goto, Courses!Finish
<1>4. \A c \in Calls : Training!Report(c) => Courses!Report(c)
  BY DEF Training!Report, Training!Start, Training!ReportRead, Training!ReportMark,
    Training!MarkOpened, Training!marks, Training!evidence, Training!training,
    Training!reportVars, Training!faultVars, Training!Goto, Training!Finish, Training!First,
    Courses!Report, Courses!Start, Courses!ReportRead, Courses!ReportMark, Courses!MarkOpened,
    Courses!marks, Courses!evidence, Courses!training, Courses!reportVars, Courses!faultVars,
    Courses!Goto, Courses!Finish, Courses!First
<1>5. \A c \in Calls : Training!Forward(c) => Courses!Forward(c)
  BY DEF Training!Forward, Training!Start, Training!ForwardRecord, Training!ForwardCredit,
    Training!marks, Training!evidence, Training!training, Training!reportVars, Training!faultVars,
    Training!Goto, Training!Finish, Training!First, Courses!Forward, Courses!Start,
    Courses!ForwardRecord, Courses!ForwardCredit, Courses!marks, Courses!evidence,
    Courses!training, Courses!reportVars, Courses!faultVars, Courses!Goto, Courses!Finish,
    Courses!First
<1>6. \A c \in Calls : Training!Submit(c) => Courses!Submit(c)
  BY DEF Training!Submit, Training!Start, Training!SubmitCreate, Training!SubmitFlag,
    Training!MarkClicked, Training!SubmitOpen, Training!RuleRead, Training!AssignRead,
    Training!AssignCreate, Training!marks, Training!evidence, Training!training,
    Training!reportVars, Training!faultVars, Training!Goto, Training!First, Training!Finish,
    Training!Rows, Training!Insert, Courses!Submit, Courses!Start, Courses!SubmitCreate,
    Courses!SubmitFlag, Courses!MarkClicked, Courses!SubmitOpen, Courses!RuleRead,
    Courses!AssignRead, Courses!AssignCreate, Courses!marks, Courses!evidence, Courses!training,
    Courses!reportVars, Courses!faultVars, Courses!Goto, Courses!First, Courses!Finish,
    Courses!Rows, Courses!Insert
<1>7. \A c \in Calls : Training!Manual(c) => Courses!Manual(c)
  BY DEF Training!Manual, Training!ManualRead, Training!EnrolRead, Training!ManualCreate,
    Training!Outstanding, Training!Choose, Training!RepeatClicker, Training!Rows, Training!Insert,
    Training!Finish, Training!marks, Training!evidence, Training!reportVars, Training!faultVars,
    Training!Sources, Training!Creating, Training!training, Training!Cardinality,
    Training!IsFiniteSet, Courses!Manual, Courses!ManualRead, Courses!EnrolRead,
    Courses!ManualCreate, Courses!Outstanding, Courses!Choose, Courses!RepeatClicker,
    Courses!Rows, Courses!Insert, Courses!Finish, Courses!marks, Courses!evidence,
    Courses!reportVars, Courses!faultVars, Courses!Sources, Courses!Creating, Courses!training,
    Courses!Cardinality, Courses!IsFiniteSet
<1>8. \A c \in Calls : Training!CallDies(c) => Courses!CallDies(c)
  BY DEF Training!CallDies, Training!Finish, Training!marks, Training!evidence, Training!training,
    Training!reportVars, Courses!CallDies, Courses!Finish, Courses!marks, Courses!evidence,
    Courses!training, Courses!reportVars
<1>9. \A s \in Sends : Training!Stamp(s) => Courses!Stamp(s)
  BY DEF Training!Stamp, Training!marks, Training!training, Training!callVars, Training!reportVars,
    Training!faultVars, Courses!Stamp, Courses!marks, Courses!training, Courses!callVars,
    Courses!reportVars, Courses!faultVars
<1>10. \A f \in Training!Figures : Training!ReadFigure(f) => Courses!ReadFigure(f)
  BY DEF Training!ReadFigure, Training!Reached, Training!marks, Training!evidence, Training!training,
    Training!callVars, Training!faultVars, Training!Cardinality, Training!IsFiniteSet,
    Courses!ReadFigure, Courses!Reached, Courses!marks, Courses!evidence, Courses!training,
    Courses!callVars, Courses!faultVars, Courses!Cardinality, Courses!IsFiniteSet
<1>11. \A m \in Modules, x \in Training!Sources : Training!Complete(m, x) => Courses!Complete(m, x)
  BY DEF Training!Complete, Training!marks, Training!evidence, Training!callVars, Training!reportVars,
    Training!faultVars, Courses!Complete, Courses!marks, Courses!evidence, Courses!callVars,
    Courses!reportVars, Courses!faultVars
<1>12. \A m \in Modules \cup {None} : Training!Route(m) => Courses!Route(m)
  BY DEF Training!Route, Training!marks, Training!evidence, Training!callVars, Training!reportVars,
    Training!faultVars, Courses!Route, Courses!marks, Courses!evidence, Courses!callVars,
    Courses!reportVars, Courses!faultVars
<1>13. Training!NewReport => Courses!NewReport
  BY DEF Training!NewReport, Training!Figures, Training!marks, Training!evidence, Training!training,
    Training!callVars, Training!faultVars, Courses!NewReport, Courses!Figures, Courses!marks,
    Courses!evidence, Courses!training, Courses!callVars, Courses!faultVars
<1>14. Training!Tick => Courses!Tick
  BY DEF Training!Tick, Training!marks, Training!evidence, Training!training, Training!callVars,
    Training!reportVars, Training!faultVars, Courses!Tick, Courses!marks, Courses!evidence,
    Courses!training, Courses!callVars, Courses!reportVars, Courses!faultVars
<1> QED BY <1>1, <1>2, <1>3, <1>4, <1>5, <1>6, <1>7, <1>8, <1>9, <1>10, <1>11, <1>12, <1>13, <1>14

\* They are about the same component.
LEMMA SameTraining ==
  /\ Training!EngagementAssumption => Courses!EngagementAssumption
  /\ Training!Init => Courses!Init
  /\ [Training!Next]_(Training!vars) => [Courses!Next]_(Courses!vars)
<1>1. Training!EngagementAssumption => Courses!EngagementAssumption
  BY DEF Training!EngagementAssumption, Training!Cardinality, Training!IsFiniteSet,
    Courses!EngagementAssumption, Courses!Cardinality, Courses!IsFiniteSet
<1>2. Training!Init => Courses!Init
  BY DEF Training!Init, Training!Sources, Training!Figures, Courses!Init, Courses!Sources,
    Courses!Figures
<1>3. [Training!Next]_(Training!vars) => [Courses!Next]_(Courses!vars)
  BY SameSteps DEF Training!Next, Training!Call, Training!Figures, Training!Sources, Training!vars, Courses!Next,
    Courses!Call, Courses!Figures, Courses!Sources, Courses!vars
<1> QED BY <1>1, <1>2, <1>3

\* And about the same properties.
LEMMA SameCourses ==
  Courses!OnePerSend /\ Courses!SubmitAssigns /\ Courses!DuplicatesBounded =>
    Training!OnePerSend /\ Training!SubmitAssigns /\ Training!DuplicatesBounded
BY DEF Training!OnePerSend, Training!SubmitAssigns, Training!DuplicatesBounded, Training!Rows,
    Training!Busy, Training!Cardinality, Training!IsFiniteSet, Courses!OnePerSend,
    Courses!SubmitAssigns, Courses!DuplicatesBounded, Courses!Rows, Courses!Busy,
    Courses!Cardinality, Courses!IsFiniteSet

\* The key of an assignment by its send, the path of a submission to its course, and the
\* assignments without a source.
THEOREM CoursesInductive == ClientsSpec => [](focus = "training" => Courses!CoursesIInv)
<1> DEFINE I == focus = "training" => Courses!CoursesIInv
<1>0. Courses!EngagementAssumption
  BY ClientsAssumption, SameTraining DEF ClientsAssumption
<1>1. ClientsInit => I
  BY <1>0, Begun, SameTraining, Courses!CoursesBegin DEF Courses!CoursesBegin
<1>2. I /\ [ClientsNext]_allVars => I'
  BY <1>0, Focused, SameTraining, Courses!CoursesStep DEF Courses!CoursesStep
<1> QED BY <1>1, <1>2, PTL DEF ClientsSpec

\* While nobody changes the rule, whoever submitted credentials has the routed course, or a call on
\* its way to assign it, in whatever order the calls went on; or a call of the send died.
THEOREM CoursesFollowKept == ClientsSpec => []CoursesFollow
<1>0. Courses!EngagementAssumption
  BY ClientsAssumption, SameTraining DEF ClientsAssumption
<1>1. (focus = "training" => Courses!CoursesIInv) => CoursesFollow
  BY <1>0, SameCourses, Courses!CoursesKeep DEF CoursesFollow, Courses!CoursesKeep
<1> QED BY <1>1, CoursesInductive, PTL

\* A send assigns a module once however its calls interleave, and a module is assigned without a
\* source no more often than calls overlap.
THEOREM CoursesOnceKept == ClientsSpec => []CoursesOnce
<1>0. Courses!EngagementAssumption
  BY ClientsAssumption, SameTraining DEF ClientsAssumption
<1>1. (focus = "training" => Courses!CoursesIInv) => CoursesOnce
  BY <1>0, SameCourses, Courses!CoursesKeep DEF CoursesOnce, Courses!CoursesKeep
<1> QED BY <1>1, CoursesInductive, PTL
=============================================================================
