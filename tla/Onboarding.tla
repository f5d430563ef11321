----------------------------- MODULE Onboarding -----------------------------
(***************************************************************************)
(* What a client proves before it may send: the domains it controls, the   *)
(* people on them, and that its mail gateway lets simulations through.     *)
(*                                                                         *)
(* A domain is proven by a DNS record that shows the token of its row; the *)
(* record is asked for in the middle of the call, when the row may be gone *)
(* or made anew.  An upload reads the proven domains once for all its      *)
(* people.  The gateway is proven by a link in a test mail, or on the word *)
(* of staff, who can also take it back.                                    *)
(***************************************************************************)
EXTENDS Integers, FiniteSets

CONSTANTS
  Domains, \* domains a client may claim
  People,  \* people it may upload
  Home,    \* the domain of each one's address; None if the client never claims it
  Probes,  \* test mails that can be sent
  Calls,   \* calls that may be in progress at once
  MaxRows, \* bound: rows made for one domain, one after the other
  None     \* nothing

OnboardingAssumption ==
  /\ Home \in [People -> Domains \cup {None}]
  /\ MaxRows \in Nat \ {0}
  /\ None \notin Domains \cup Probes

VARIABLES
  row,      \* the verified_domains row of each domain: its token, and whether it is verified
  dns,      \* the token that the domain's TXT record shows, or 0
  roster,   \* people with an employee row
  gateway,  \* confirmed, and the token of the outstanding probe
  inbox,    \* the domain that each probe was mailed to
  pc,       \* next step of each call
  asked,    \* the domain, the token, the probe, the people and the domains it goes by
  made,     \* rows made for each domain
  published,\* history: tokens that the domain's owner has shown
  confirms, \* history: how often a probe has confirmed the gateway
  stale     \* history: openings of a probe that another opening of it overtook

clientVars == <<row, roster, gateway>>
callVars == <<pc, asked>>
history == <<made, published, confirms>>
vars == <<clientVars, dns, inbox, callVars, history, stale>>

Steps == {"idle", "resolve", "verifyWrite", "uploadDomains", "uploadRows", "probeStore",
          "probeMail", "confirm"}
NoRow == [token |-> 0, verified |-> FALSE]
NoInput == [domain |-> None, token |-> 0, probe |-> None, people |-> {}, verified |-> {}]

TypeOK ==
  /\ row \in [Domains -> [token : 0 .. MaxRows, verified : BOOLEAN]]
  /\ dns \in [Domains -> 0 .. MaxRows]
  /\ roster \subseteq People
  /\ gateway \in [confirmed : BOOLEAN, token : Probes \cup {None}]
  /\ inbox \in [Probes -> Domains \cup {None}]
  /\ pc \in [Calls -> Steps]
  /\ asked \in [Calls -> [domain : Domains \cup {None}, token : 0 .. MaxRows,
                          probe : Probes \cup {None}, people : SUBSET People,
                          verified : SUBSET Domains]]
  /\ made \in [Domains -> 0 .. MaxRows]
  /\ published \subseteq Domains \X (1 .. MaxRows)
  /\ confirms \in [Probes -> Nat]
  /\ stale \subseteq Calls

Init ==
  /\ row = [d \in Domains |-> NoRow] /\ dns = [d \in Domains |-> 0]
  /\ roster = {}
  /\ gateway = [confirmed |-> FALSE, token |-> None]
  /\ inbox = [p \in Probes |-> None]
  /\ pc = [c \in Calls |-> "idle"] /\ asked = [c \in Calls |-> NoInput]
  /\ made = [d \in Domains |-> 0]
  /\ published = {} /\ confirms = [p \in Probes |-> 0] /\ stale = {}

-----------------------------------------------------------------------------
(* Calls.  A definition with the name of the next one and a suffix is that one
   with a mistake in it, to show which property notices. *)

At(c, step) == pc[c] = step
Go(c, step) == pc' = [pc EXCEPT ![c] = step]

Begin(c, step, input) ==
  /\ At(c, "idle") /\ Go(c, step)
  /\ asked' = [asked EXCEPT ![c] = input]
  /\ UNCHANGED <<clientVars, dns, inbox, history, stale>>

Finish(c) == Go(c, "idle") /\ asked' = [asked EXCEPT ![c] = NoInput]

\* Refused, an error, or the process dies.
CallEnds(c) ==
  /\ ~At(c, "idle") /\ Finish(c)
  /\ stale' = stale \ {c}
  /\ UNCHANGED <<clientVars, dns, inbox, history>>

-----------------------------------------------------------------------------
(* Domains *)

There(d) == row[d].token # 0
Verified == {d \in Domains : row[d].verified}

AddDomain(d) ==
  /\ ~There(d) /\ made[d] < MaxRows
  /\ made' = [made EXCEPT ![d] = @ + 1]
  /\ row' = [row EXCEPT ![d] = [token |-> made[d] + 1, verified |-> FALSE]]
  /\ UNCHANGED <<roster, gateway, dns, inbox, callVars, published, confirms, stale>>

RemoveDomain(d) ==
  /\ There(d)
  /\ row' = [row EXCEPT ![d] = NoRow]
  /\ UNCHANGED <<roster, gateway, dns, inbox, callVars, history, stale>>

\* Whoever controls the domain shows the token the client was given, or nothing.
Publish(d, token) ==
  /\ token \in {0, row[d].token} \ {dns[d]}
  /\ dns' = [dns EXCEPT ![d] = token]
  /\ published' = IF token = 0 THEN published ELSE published \cup {<<d, token>>}
  /\ UNCHANGED <<clientVars, inbox, callVars, made, confirms, stale>>

Verify(c, d) ==
  /\ There(d) /\ ~row[d].verified
  /\ Begin(c, "resolve", [NoInput EXCEPT !.domain = d, !.token = row[d].token])

VerifyResolve(c) ==
  /\ At(c, "resolve") /\ dns[asked[c].domain] = asked[c].token
  /\ Go(c, "verifyWrite")
  /\ UNCHANGED <<clientVars, dns, inbox, asked, history, stale>>

WriteVerified(c, d) ==
  /\ There(d)
  /\ row' = [row EXCEPT ![d].verified = TRUE]
  /\ Finish(c)
  /\ UNCHANGED <<roster, gateway, dns, inbox, history, stale>>

\* Whatever row the domain has by now is verified.
VerifyWriteByName(c) == At(c, "verifyWrite") /\ WriteVerified(c, asked[c].domain)

\* By the id of the row that was read: it fails when that one is gone.
VerifyWrite(c) ==
  /\ At(c, "verifyWrite") /\ row[asked[c].domain].token = asked[c].token
  /\ WriteVerified(c, asked[c].domain)

-----------------------------------------------------------------------------
(* People.  Seats, and rows for the same address, are in Licensing. *)

BulkUpload(c, file) ==
  /\ file # {}
  /\ Begin(c, "uploadDomains", [NoInput EXCEPT !.people = file])

UploadDomains(c) ==
  /\ At(c, "uploadDomains") /\ Go(c, "uploadRows")
  /\ asked' = [asked EXCEPT ![c].verified = Verified]
  /\ UNCHANGED <<clientVars, dns, inbox, history, stale>>

CreateRow(c, e) ==
  /\ At(c, "uploadRows") /\ e \in asked[c].people
  /\ roster' = roster \cup {e}
  /\ asked' = [asked EXCEPT ![c].people = @ \ {e}]
  /\ UNCHANGED <<row, gateway, dns, inbox, pc, history, stale>>

UploadRow(c, e) == Home[e] \in asked[c].verified /\ CreateRow(c, e)

RemoveEmployee(e) ==
  /\ e \in roster /\ roster' = roster \ {e}
  /\ UNCHANGED <<row, gateway, dns, inbox, callVars, history, stale>>

-----------------------------------------------------------------------------
(* The gateway *)

\* Staff record what the client's IT told them, or take it back; an outstanding
\* probe stays outstanding.
SetDeliverability(confirmed) ==
  /\ gateway.confirmed # confirmed
  /\ gateway' = [gateway EXCEPT !.confirmed = confirmed]
  /\ UNCHANGED <<row, roster, dns, inbox, callVars, history, stale>>

SendProbe(c, p, d) ==
  /\ row[d].verified /\ inbox[p] = None
  /\ \A e \in Calls : asked[e].probe # p
  /\ Begin(c, "probeStore", [NoInput EXCEPT !.domain = d, !.probe = p])

\* The new token takes the place of the outstanding one.
ProbeStore(c) ==
  /\ At(c, "probeStore") /\ Go(c, "probeMail")
  /\ gateway' = [gateway EXCEPT !.token = asked[c].probe]
  /\ UNCHANGED <<row, roster, dns, inbox, asked, history, stale>>

ProbeMail(c) ==
  /\ At(c, "probeMail") /\ Finish(c)
  /\ inbox' = [inbox EXCEPT ![asked[c].probe] = asked[c].domain]
  /\ UNCHANGED <<clientVars, dns, history, stale>>

\* A link that is not the outstanding one finds no client.
OpenProbe(c, p) ==
  /\ inbox[p] # None /\ gateway.token = p
  /\ Begin(c, "confirm", [NoInput EXCEPT !.probe = p])

Opened(p) == {c \in Calls : At(c, "confirm") /\ asked[c].probe = p}

Confirm(c, token) ==
  /\ At(c, "confirm")
  /\ gateway' = [confirmed |-> TRUE, token |-> token]
  /\ confirms' = [confirms EXCEPT ![asked[c].probe] = @ + 1]
  /\ Finish(c)
  /\ stale' = (stale \cup Opened(asked[c].probe)) \ {c}
  /\ UNCHANGED <<row, roster, dns, inbox, made, published>>

\* The token stays.
ConfirmProbeKept(c) == Confirm(c, gateway.token)

\* The client is updated by its id: whatever token it has by now is cleared.
ConfirmProbe(c) == Confirm(c, None)

-----------------------------------------------------------------------------
Request(c) ==
  \/ \E d \in Domains : Verify(c, d) \/ \E p \in Probes : SendProbe(c, p, d)
  \/ \E file \in SUBSET People : BulkUpload(c, file)
  \/ \E p \in Probes : OpenProbe(c, p)

Step(c) ==
  \/ VerifyResolve(c) \/ VerifyWrite(c)
  \/ UploadDomains(c) \/ \E e \in People : UploadRow(c, e)
  \/ ProbeStore(c) \/ ProbeMail(c) \/ ConfirmProbe(c)
  \/ CallEnds(c)

Next ==
  \/ \E c \in Calls : Request(c) \/ Step(c)
  \/ \E d \in Domains : AddDomain(d) \/ RemoveDomain(d)
  \/ \E d \in Domains, token \in 0 .. MaxRows : Publish(d, token)
  \/ \E e \in People : RemoveEmployee(e)
  \/ \E confirmed \in BOOLEAN : SetDeliverability(confirmed)

Spec == Init /\ [][Next]_vars

-----------------------------------------------------------------------------
(* Properties *)

Controlled == {d \in Domains : \E token \in 1 .. MaxRows : <<d, token>> \in published}

\* A verified domain showed the token of the very row that is verified: neither a
\* token of an earlier row, nor a call that began for one, verifies it (verify).
VerifiedShowedToken == \A d \in Domains : row[d].verified => <<d, row[d].token>> \in published

\* Simulations and test mails go to nobody outside the domains that the client has
\* proven to control, however uploads, probes and removals overlap (bulkUpload,
\* sendAllowlistProbe).
StaysInside ==
  /\ \A e \in roster : Home[e] \in Controlled
  /\ \A p \in Probes : inbox[p] # None => inbox[p] \in Controlled

\* A probe that has confirmed the gateway does not confirm it again, after its rules
\* changed, from a copy of the mail: only an opening does that had found the token
\* before another opening of the same mail cleared it (confirmAllowlistProbe).
ProbeConfirmsOnce ==
  \A p \in Probes : confirms[p] > 0 /\ confirms'[p] > confirms[p] =>
    \E c \in stale : c \in Opened(p)

\* What holds in every state.
OnboardingInv == TypeOK /\ VerifiedShowedToken /\ StaysInside
=============================================================================
