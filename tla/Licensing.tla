----------------------------- MODULE Licensing -----------------------------
(***************************************************************************)
(* One client's account: its status, approval and trial, its licence and   *)
(* the keys that grant it, the seats the licence allows and the employees  *)
(* that fill them, and the deletion of the client.                         *)
(*                                                                         *)
(* Staff and the client's administrators act at the same time, and every   *)
(* operation reads, decides and writes in separate queries: a seat count   *)
(* is a query of its own, and the row written back may hold a value that   *)
(* was read before another call changed it.  The one transaction that is   *)
(* guarded on what it changes is the claim of a key.                       *)
(***************************************************************************)
EXTENDS Integers, FiniteSets

CONSTANTS
  Keys,      \* licence keys that can be issued
  Emails,    \* addresses that can be uploaded, on verified domains of the client
  Limits,    \* seat limits staff choose from
  Terms,     \* licence terms, in days
  Grants,    \* the limit and term of the keys that staff issue
  Changes,   \* the limit and term that staff write directly
  Validity,  \* how long a key can be redeemed, in days
  Stopped,   \* the statuses of a client that is not active
  TrialDays, \* length of a free trial
  MaxTime,   \* bound: days that pass
  Calls,     \* calls that may be in progress at once
  Keep,      \* an input field that is left out (undefined)
  None       \* null: no limit, no date, no key

LicensingAssumption ==
  /\ IsFiniteSet(Emails)
  /\ Stopped \subseteq {"suspended", "offboarded"}
  /\ Limits \subseteq Nat /\ Terms \subseteq Nat
  /\ Grants \subseteq (Limits \cup {None}) \X (Terms \cup {None})
  /\ Changes \subseteq (Limits \cup {None, Keep}) \X (Terms \cup {None, Keep})
  /\ Validity \in Nat /\ TrialDays \in Nat /\ MaxTime \in Nat
  /\ None \notin Keys \cup Emails \cup Int
  /\ Keep \notin Int \cup {None}

VARIABLES
  now,        \* the day
  tenant,     \* the client's row
  key,        \* the licence_tokens row of each key
  roster,     \* addresses with an employee row
  pc,         \* next step of each call
  asked,      \* its input: a key, a seat limit and a term
  limit,      \* the seat limit it read or was given
  counted,    \* the employees it counted, plus those it has created
  rows,       \* the addresses it has still to upload
  activations,\* history: how often each key activated the client
  stale,      \* history: calls overtaken by a write to what they read
  overtaken,  \* history: seats were given out by an overtaken call
  crossed,    \* history: keys claimed or revoked by an overtaken call
  cleared     \* history: staff approved the client, or granted it a term or key

accountVars == <<now, tenant, key, roster>>
callVars == <<pc, asked, limit, counted, rows>>
history == <<activations, stale, overtaken, crossed, cleared>>
vars == <<accountVars, callVars, history>>

Steps == {"idle", "revoke", "redeemCount", "claim", "licenceCount", "licenceWrite",
          "approveCount", "approveWrite", "erase", "uploadCount", "uploadRow",
          "uploadCreate"}
SeatLimits == Limits \cup {None}
Days == Nat \cup {None}
NoInput == [key |-> None, limit |-> Keep, term |-> Keep, row |-> None]
Unissued == [issued |-> FALSE, limit |-> None, term |-> None, expires |-> 0,
             redeemed |-> FALSE, revoked |-> FALSE]

TypeOK ==
  /\ now \in 0 .. MaxTime
  /\ tenant \in [there : BOOLEAN, status : {"active"} \cup Stopped,
                 selfSignup : BOOLEAN, approved : BOOLEAN,
                 trialEnds : Days, licenceEnds : Days, seatLimit : SeatLimits]
  /\ key \in [Keys -> [issued : BOOLEAN, limit : SeatLimits, term : Terms \cup {None},
                       expires : Nat, redeemed : BOOLEAN, revoked : BOOLEAN]]
  /\ roster \subseteq Emails
  /\ pc \in [Calls -> Steps]
  /\ asked \in [Calls -> [key : Keys \cup {None}, limit : SeatLimits \cup {Keep},
                          term : Terms \cup {None, Keep}, row : Emails \cup {None}]]
  /\ limit \in [Calls -> SeatLimits]
  /\ counted \in [Calls -> Nat]
  /\ rows \in [Calls -> SUBSET Emails]
  /\ activations \in [Keys -> Nat]
  /\ stale \subseteq Calls
  /\ overtaken \in BOOLEAN /\ cleared \in BOOLEAN
  /\ crossed \subseteq Keys

-----------------------------------------------------------------------------
(* What a client may do *)

\* TrialService.access: a licence term governs before approval and trial do.
Level(t, day) ==
  CASE ~t.there \/ t.status = "offboarded" -> "offboarded"
    [] t.there /\ t.status = "suspended"   -> "suspended"
    [] t.there /\ t.status = "active" ->
         IF t.licenceEnds # None
         THEN IF day < t.licenceEnds THEN "full" ELSE "readonly"
         ELSE IF ~t.selfSignup \/ t.approved THEN "full"
              ELSE IF t.trialEnds # None /\ day < t.trialEnds THEN "trial" ELSE "readonly"

Access == Level(tenant, now)
Rank == [offboarded |-> 0, suspended |-> 0, readonly |-> 1, trial |-> 2, full |-> 3]

\* How many employees a seat limit allows.
Fits(n, l) == l # None => n <= l

-----------------------------------------------------------------------------
(* Initial states: staff onboarded the client, or it signed itself up. *)

Onboarded ==
  [there |-> TRUE, status |-> "active", selfSignup |-> FALSE, approved |-> FALSE,
   trialEnds |-> None, licenceEnds |-> None, seatLimit |-> None]

SignedUp(freeSeats) ==
  [there |-> TRUE, status |-> "active", selfSignup |-> TRUE, approved |-> FALSE,
   trialEnds |-> TrialDays, licenceEnds |-> None, seatLimit |-> freeSeats]

Init ==
  /\ now = 0
  /\ tenant \in {Onboarded} \cup {SignedUp(n) : n \in Limits}
  /\ key = [k \in Keys |-> Unissued]
  /\ roster = {}
  /\ pc = [c \in Calls |-> "idle"] /\ asked = [c \in Calls |-> NoInput]
  /\ limit = [c \in Calls |-> None] /\ counted = [c \in Calls |-> 0]
  /\ rows = [c \in Calls |-> {}]
  /\ activations = [k \in Keys |-> 0]
  /\ stale = {} /\ overtaken = FALSE /\ crossed = {} /\ cleared = FALSE

-----------------------------------------------------------------------------
(* Steps of a call.  A definition with the name of the next one and a suffix
   is that one with a mistake in it, to show which property notices. *)

Begin(c, step, input) ==
  /\ pc[c] = "idle"
  /\ tenant.there
  /\ pc' = [pc EXCEPT ![c] = step]
  /\ asked' = [asked EXCEPT ![c] = input]

Go(c, step) == pc' = [pc EXCEPT ![c] = step]

\* The call returns or throws: its locals are gone.
Finish(c) ==
  /\ pc' = [pc EXCEPT ![c] = "idle"] /\ asked' = [asked EXCEPT ![c] = NoInput]
  /\ limit' = [limit EXCEPT ![c] = None] /\ counted' = [counted EXCEPT ![c] = 0]
  /\ rows' = [rows EXCEPT ![c] = {}]

\* A write of c to what other calls have read.
Busy == {d \in Calls : pc[d] # "idle"}
Overtake(c) == stale' = (stale \cup Busy) \ {c}

\* Seats given out: excused while they do not fit, if an overtaken call gave them.
GiveOut(c) ==
  overtaken' = (~Fits(Cardinality(roster'), tenant'.seatLimit) /\ (overtaken \/ c \in stale))

ReturnOrThrow(c) ==
  /\ Finish(c)
  /\ stale' = stale \ {c}
  /\ UNCHANGED <<accountVars, activations, overtaken, crossed, cleared>>

CallDies(c) == pc[c] # "idle" /\ ReturnOrThrow(c)

-----------------------------------------------------------------------------
(* Licence keys *)

Issue(k, grant) ==
  /\ tenant.there /\ ~key[k].issued
  /\ key' = [key EXCEPT ![k] =
       [Unissued EXCEPT !.issued = TRUE, !.limit = grant[1], !.term = grant[2],
                 !.expires = now + Validity]]
  /\ UNCHANGED <<now, tenant, roster, callVars, history>>

Revoke(c, k) ==
  /\ key[k].issued /\ ~key[k].redeemed
  /\ Begin(c, "revoke", [NoInput EXCEPT !.key = k])
  /\ UNCHANGED <<accountVars, limit, counted, rows, history>>

\* The update is by id: a key that has been redeemed meanwhile is revoked too.
RevokeWrite(c) ==
  /\ pc[c] = "revoke" /\ tenant.there
  /\ key' = [key EXCEPT ![asked[c].key].revoked = TRUE]
  /\ crossed' = IF c \in stale THEN crossed \cup {asked[c].key} ELSE crossed
  /\ Overtake(c) /\ Finish(c)
  /\ UNCHANGED <<now, tenant, roster, activations, overtaken, cleared>>

\* A revoked key is accepted.
RedeemableRevoked(k) ==
  key[k].issued /\ ~key[k].redeemed /\ now <= key[k].expires

Redeemable(k) ==
  key[k].issued /\ ~key[k].revoked /\ ~key[k].redeemed /\ now <= key[k].expires

Redeem(c, k) ==
  /\ Redeemable(k)
  /\ Begin(c, IF key[k].limit = None THEN "claim" ELSE "redeemCount",
           [NoInput EXCEPT !.key = k])
  /\ UNCHANGED <<accountVars, limit, counted, rows, history>>

RedeemCount(c) ==
  /\ pc[c] = "redeemCount"
  /\ Fits(Cardinality(roster), key[asked[c].key].limit)
  /\ Go(c, "claim")
  /\ UNCHANGED <<accountVars, asked, limit, counted, rows, history>>

\* The row as the licence that was sold leaves it.
Licensed(k) ==
  [tenant EXCEPT !.status = "active", !.approved = TRUE, !.trialEnds = None,
     !.seatLimit = key[k].limit,
     !.licenceEnds = IF key[k].term = None THEN None ELSE now + key[k].term]

\* One transaction: the key is claimed only if nobody has claimed it.
ClaimKey(c, k, unclaimed) ==
  /\ pc[c] = "claim" /\ asked[c].key = k /\ tenant.there
  /\ unclaimed
  /\ key' = [key EXCEPT ![k].redeemed = TRUE]
  /\ tenant' = Licensed(k)
  /\ activations' = [activations EXCEPT ![k] = @ + 1]
  /\ crossed' = IF c \in stale THEN crossed \cup {k} ELSE crossed
  /\ cleared' = TRUE
  /\ UNCHANGED <<now, roster>>
  /\ GiveOut(c) /\ Overtake(c) /\ Finish(c)

Claim(c) == \E k \in Keys : ClaimKey(c, k, ~key[k].redeemed)

-----------------------------------------------------------------------------
(* What staff decide about a client *)

SetStatus(s) ==
  /\ tenant.there
  /\ tenant' = [tenant EXCEPT !.status = s]
  /\ stale' = stale \cup Busy
  /\ UNCHANGED <<now, key, roster, callVars, activations, overtaken,
                 crossed, cleared>>

\* A seat limit below the roster is refused; null is no limit, and a field
\* that is left out is not written.
SetLicence(c, change) ==
  /\ Begin(c, IF change[1] \in Limits THEN "licenceCount" ELSE "licenceWrite",
           [NoInput EXCEPT !.limit = change[1], !.term = change[2]])
  /\ UNCHANGED <<accountVars, limit, counted, rows, history>>

LicenceCount(c) ==
  /\ pc[c] = "licenceCount"
  /\ Fits(Cardinality(roster), asked[c].limit)
  /\ Go(c, "licenceWrite")
  /\ UNCHANGED <<accountVars, asked, limit, counted, rows, history>>

LicenceWrite(c) ==
  /\ pc[c] = "licenceWrite" /\ tenant.there
  /\ tenant' = [tenant EXCEPT
       !.seatLimit = IF asked[c].limit = Keep THEN @ ELSE asked[c].limit,
       !.licenceEnds = CASE asked[c].term = Keep -> @
                         [] asked[c].term = None -> None
                         [] OTHER -> now + asked[c].term]
  /\ cleared' = (cleared \/ asked[c].term \in Terms)
  /\ UNCHANGED <<now, key, roster, activations, crossed>>
  /\ GiveOut(c) /\ Overtake(c) /\ Finish(c)

\* Approval without a seat limit writes back the limit it read.
Approve(c, l) ==
  /\ tenant.selfSignup
  /\ Begin(c, IF l = Keep THEN "approveWrite" ELSE "approveCount",
           [NoInput EXCEPT !.limit = l])
  /\ limit' = [limit EXCEPT ![c] = IF l = Keep THEN tenant.seatLimit ELSE l]
  /\ UNCHANGED <<accountVars, counted, rows, history>>

ApproveCount(c) ==
  /\ pc[c] = "approveCount"
  /\ Fits(Cardinality(roster), limit[c])
  /\ Go(c, "approveWrite")
  /\ UNCHANGED <<accountVars, asked, limit, counted, rows, history>>

ApproveWrite(c) ==
  /\ pc[c] = "approveWrite" /\ tenant.there
  /\ tenant' = [tenant EXCEPT !.approved = TRUE, !.status = "active", !.seatLimit = limit[c]]
  /\ cleared' = TRUE
  /\ UNCHANGED <<now, key, roster, activations, crossed>>
  /\ GiveOut(c) /\ Overtake(c) /\ Finish(c)

\* An active client may be deleted.
RemoveAny(c) ==
  /\ Begin(c, "erase", NoInput)
  /\ UNCHANGED <<accountVars, limit, counted, rows, history>>

\* Only a client that is not active may be deleted.
Remove(c) ==
  /\ tenant.status # "active"
  /\ Begin(c, "erase", NoInput)
  /\ UNCHANGED <<accountVars, limit, counted, rows, history>>

\* One transaction deletes every row of the client, its keys included.
Erase(c) ==
  /\ pc[c] = "erase" /\ tenant.there
  /\ tenant' = [Onboarded EXCEPT !.there = FALSE]
  /\ key' = [k \in Keys |-> Unissued]
  /\ roster' = {}
  /\ activations' = [k \in Keys |-> 0] /\ crossed' = {}
  /\ cleared' = FALSE /\ overtaken' = FALSE
  /\ Overtake(c) /\ Finish(c)
  /\ UNCHANGED now

-----------------------------------------------------------------------------
(* The roster *)

RemoveEmployee(e) ==
  /\ e \in roster
  /\ roster' = roster \ {e}
  /\ overtaken' = (overtaken /\ ~Fits(Cardinality(roster'), tenant.seatLimit))
  /\ UNCHANGED <<now, tenant, key, callVars, activations, stale, crossed,
                 cleared>>

\* An upload reads the seat limit, counts the employees, and then handles its rows one by one.
BulkUpload(c, file) ==
  /\ Begin(c, "uploadCount", NoInput)
  /\ limit' = [limit EXCEPT ![c] = tenant.seatLimit]
  /\ rows' = [rows EXCEPT ![c] = file]
  /\ UNCHANGED <<accountVars, counted, history>>

UploadCount(c) ==
  /\ pc[c] = "uploadCount"
  /\ counted' = [counted EXCEPT ![c] = Cardinality(roster)]
  /\ Go(c, "uploadRow")
  /\ UNCHANGED <<accountVars, asked, limit, rows, history>>

SeatLeft(c) == Fits(counted[c] + 1, limit[c])

\* The row is skipped: the employee is there and is only updated, or no seat is left.
UploadSkip(c, e) ==
  /\ pc[c] = "uploadRow" /\ e \in rows[c]
  /\ e \in roster \/ ~SeatLeft(c)
  /\ rows' = [rows EXCEPT ![c] = @ \ {e}]
  /\ UNCHANGED <<accountVars, pc, asked, limit, counted, history>>

UploadRow(c, e) ==
  /\ pc[c] = "uploadRow" /\ e \in rows[c]
  /\ e \notin roster /\ SeatLeft(c)
  /\ rows' = [rows EXCEPT ![c] = @ \ {e}]
  /\ asked' = [asked EXCEPT ![c].row = e]
  /\ Go(c, "uploadCreate")
  /\ UNCHANGED <<accountVars, limit, counted, history>>

\* The address is unique within the client: a row created meanwhile aborts the
\* upload, as does the deletion of the client.
UploadCreate(c) ==
  /\ pc[c] = "uploadCreate" /\ tenant.there /\ asked[c].row \notin roster
  /\ roster' = roster \cup {asked[c].row}
  /\ counted' = [counted EXCEPT ![c] = @ + 1]
  /\ asked' = [asked EXCEPT ![c].row = None]
  /\ Go(c, "uploadRow")
  /\ UNCHANGED <<now, tenant, key, limit, rows, activations, crossed,
                 cleared>>
  /\ stale' = stale \cup (Busy \ {c})
  /\ GiveOut(c)

-----------------------------------------------------------------------------
Tick ==
  /\ now < MaxTime
  /\ now' = now + 1
  /\ UNCHANGED <<tenant, key, roster, callVars, history>>

Staff ==
  \/ \E k \in Keys, grant \in Grants : Issue(k, grant)
  \/ \E s \in {"active"} \cup Stopped : SetStatus(s)
  \/ \E c \in Calls :
       \/ \E k \in Keys : Revoke(c, k)
       \/ \E change \in Changes : SetLicence(c, change)
       \/ \E l \in Limits \cup {Keep} : Approve(c, l)
       \/ Remove(c)

Client ==
  \/ \E e \in Emails : RemoveEmployee(e)
  \/ \E c \in Calls :
       \/ \E k \in Keys : Redeem(c, k)
       \/ \E file \in SUBSET Emails \ {{}} : BulkUpload(c, file)

Step(c) ==
  \/ RevokeWrite(c) \/ RedeemCount(c) \/ Claim(c)
  \/ LicenceCount(c) \/ LicenceWrite(c)
  \/ ApproveCount(c) \/ ApproveWrite(c) \/ Erase(c)
  \/ UploadCount(c) \/ UploadCreate(c)
  \/ \E e \in Emails : UploadSkip(c, e) \/ UploadRow(c, e)
  \/ CallDies(c)

Next == Tick \/ Staff \/ Client \/ \E c \in Calls : Step(c)

Spec == Init /\ [][Next]_vars

-----------------------------------------------------------------------------
(* Properties *)

\* Seats bound the roster: more employees than seats are there only while the
\* last seats were given out, or the limit set, by a call that another one had
\* overtaken since it counted (bulkUpload, setLicense, approveSignup, redeem).
SeatsKept == Fits(Cardinality(roster), tenant.seatLimit) \/ overtaken

\* A key activates the client at most once, however many redemptions of it are
\* in progress (the claim in redeem).
KeyActivatesOnce == \A k \in Keys : activations[k] <= 1

\* A key is redeemed and revoked both only if the redemption and the
\* revocation overlapped (redeem and revoke each refuse the other's result).
KeyFates ==
  \A k \in Keys : key[k].redeemed /\ key[k].revoked => k \in crossed

\* A client that signed itself up gets full access only after staff approved
\* it, gave it a term or gave it a key (TrialService.access).
LockedUntilCleared == tenant.selfSignup /\ Access = "full" => cleared

\* The seat limit changes only by a decision: a key's claim, or a limit that
\* staff gave.  An approval that was given none leaves it as it is, unless it was
\* overtaken between its read and its write (approveSignup).
SeatsAreDecided ==
  tenant'.there /\ tenant'.seatLimit # tenant.seatLimit =>
    \E c \in Calls : \/ pc[c] = "claim"
                     \/ pc[c] \in {"licenceWrite", "approveWrite"} /\ asked[c].limit # Keep
                     \/ pc[c] = "approveWrite" /\ c \in stale

\* An active client is deleted only if it became active after the deletion's
\* check of its status (remove).
ErasesStopped ==
  tenant.there /\ ~tenant'.there /\ tenant.status = "active" =>
    \E c \in Calls : pc[c] = "erase" /\ c \in stale

\* Time alone never gives a client more access than it had.
TimeNeverPromotes == now' # now => Rank[Level(tenant', now')] <= Rank[Access]

\* What holds in every state, and of every step.
LicencesHold == TypeOK /\ SeatsKept /\ KeyActivatesOnce /\ KeyFates /\ LockedUntilCleared
LicensingStep == SeatsAreDecided /\ ErasesStopped /\ TimeNeverPromotes
LicenceSteps == [][LicensingStep]_vars
=============================================================================
