----------------------------- MODULE DomainsProofs -----------------------------
(***************************************************************************)
(* What holds of the domains and people of a client and of its sending     *)
(* domains, for every value of the constants.                              *)
(***************************************************************************)
EXTENDS Accounts, TLAPS

\* A step is one of the component that the behaviour is of, and stays with it.
LEMMA StepsOfOne ==
  ASSUME AccountsNext
  PROVE  /\ focus' = focus
         /\ focus = "people" => People!Next
         /\ focus = "domains" => Sending!Next
BY DEF AccountsNext

\* So is a stutter, of every component.
LEMMA Focused ==
  ASSUME [AccountsNext]_allVars
  PROVE  /\ focus' = focus
         /\ focus = "people" => [People!Next]_(People!vars)
         /\ focus = "domains" => [Sending!Next]_(Sending!vars)
<1>1. CASE AccountsNext
  BY <1>1, StepsOfOne
<1>2. CASE UNCHANGED allVars
  BY <1>2 DEF allVars, domainsVars, peopleVars,
              People!vars, Sending!vars, People!clientVars, People!callVars, People!history, Sending!rowVars, Sending!callVars, Sending!history
<1> QED BY <1>1, <1>2

\* A behaviour begins in an initial state of its component.
LEMMA Begun ==
  ASSUME AccountsInit
  PROVE  /\ focus = "people" => People!Init
         /\ focus = "domains" => Sending!Init
BY DEF AccountsInit

-----------------------------------------------------------------------------
(* Domains that a client controls, and the people in them *)

\* What a call may go by.
Input == [domain : Domains \cup {None}, token : 0 .. MaxRows, probe : Probes \cup {None},
          people : SUBSET Persons, verified : SUBSET Domains]

\* Tokens are shown before a row or a call has them for proven.
TokensShown ==
  /\ People!VerifiedShowedToken
  /\ \A d \in Domains : people_dns[d] # 0 => <<d, people_dns[d]>> \in people_published
  /\ \A c \in Calls :
       /\ people_pc[c] \in {"resolve", "verifyWrite"} =>
            people_asked[c].domain \in Domains /\ people_asked[c].token # 0
       /\ people_pc[c] = "verifyWrite" =>
            <<people_asked[c].domain, people_asked[c].token>> \in people_published

\* Uploads and probes under way go by domains that were proven.
CallsInside ==
  \A c \in Calls :
    /\ people_asked[c].verified \subseteq People!Controlled
    /\ people_pc[c] \in {"probeStore", "probeMail"} => people_asked[c].domain \in People!Controlled

\* The call is about to send a probe.
Mailing(c) == people_pc[c] \in {"probeStore", "probeMail"}

\* A probe is sent by one call and confirmed only after it was sent, and one that has
\* confirmed is neither outstanding nor about to confirm again, but for calls overtaken.
ProbesHold ==
  /\ \A c \in Calls : Mailing(c) =>
       /\ people_asked[c].probe \in Probes /\ people_inbox[people_asked[c].probe] = None
       /\ \A e \in Calls : Mailing(e) /\ people_asked[e].probe = people_asked[c].probe => e = c
  /\ \A c \in Calls : people_pc[c] = "confirm" =>
       people_asked[c].probe \in Probes /\ people_inbox[people_asked[c].probe] # None
  /\ \A p \in Probes : people_confirms[p] > 0 =>
       /\ people_inbox[p] # None /\ people_gateway.token # p
       /\ \A c \in Calls :
            people_pc[c] = "confirm" /\ people_asked[c].probe = p => c \in people_stale

\* The invariant of a client's domains and people.
OnboardingIInv == People!TypeOK /\ TokensShown /\ CallsInside /\ People!StaysInside /\ ProbesHold

\* What calls write into the client's row keeps its type.
LEMMA RowTypes ==
  ASSUME People!OnboardingAssumption
  PROVE  /\ People!NoRow \in [token : 0 .. MaxRows, verified : BOOLEAN]
         /\ People!NoInput \in Input
         /\ \A d \in Domains, t \in 0 .. MaxRows :
              [People!NoInput EXCEPT !.domain = d, !.token = t] \in Input
         /\ \A d \in Domains, p \in Probes :
              [People!NoInput EXCEPT !.domain = d, !.probe = p] \in Input
         /\ \A file \in SUBSET Persons : [People!NoInput EXCEPT !.people = file] \in Input
         /\ \A p \in Probes : [People!NoInput EXCEPT !.probe = p] \in Input
<1>1. 0 \in 0 .. MaxRows
  BY DEF People!OnboardingAssumption
<1> QED BY <1>1 DEF People!NoRow, People!NoInput, Input

\* Every step keeps the types.
LEMMA OnboardingTypeNext ==
  ASSUME People!OnboardingAssumption, People!TypeOK, TokensShown, ProbesHold, People!Next
  PROVE  People!TypeOK'
<1> USE DEF Input
<1>0. people_asked \in [Calls -> Input]
  BY SMTT(60) DEF People!TypeOK
<1>1. people_row' \in [Domains -> [token : 0 .. MaxRows, verified : BOOLEAN]]
  <2>1. ASSUME NEW d \in Domains, People!AddDomain(d)
        PROVE  people_row' \in [Domains -> [token : 0 .. MaxRows, verified : BOOLEAN]]
    <3>1. people_made[d] + 1 \in 0 .. MaxRows
      BY <2>1 DEF People!AddDomain, People!TypeOK, People!OnboardingAssumption
    <3> QED BY <2>1, <3>1 DEF People!AddDomain, People!TypeOK
  <2>2. ASSUME NEW d \in Domains, People!RemoveDomain(d)
        PROVE  people_row' \in [Domains -> [token : 0 .. MaxRows, verified : BOOLEAN]]
    BY <2>2, RowTypes DEF People!RemoveDomain, People!TypeOK
  <2>3. ASSUME NEW c \in Calls, People!VerifyWrite(c)
        PROVE  people_row' \in [Domains -> [token : 0 .. MaxRows, verified : BOOLEAN]]
    <3> DEFINE d == people_asked[c].domain
    <3>1. people_row' = [people_row EXCEPT ![d].verified = TRUE] /\ d \in Domains
      BY <2>3 DEF People!VerifyWrite, People!WriteVerified, People!At, TokensShown
    <3>2. people_row[d] \in [token : 0 .. MaxRows, verified : BOOLEAN]
      BY <3>1 DEF People!TypeOK
    <3>3. [people_row[d] EXCEPT !.verified = TRUE] \in [token : 0 .. MaxRows, verified : BOOLEAN]
      BY <3>2, Zenon
    <3> QED BY <3>1, <3>3 DEF People!TypeOK
  <2> QED BY <2>1, <2>2, <2>3 DEF People!Next, People!Request, People!Step, People!Verify,
      People!SendProbe, People!BulkUpload, People!OpenProbe, People!Begin, 
      People!VerifyResolve, People!UploadDomains, People!UploadRow, People!CreateRow,
        People!ProbeStore, People!ProbeMail, People!ConfirmProbe, People!Confirm,
      People!CallEnds, People!Publish, People!RemoveEmployee, People!SetDeliverability,
        People!clientVars, People!TypeOK
<1>2. people_dns' \in [Domains -> 0 .. MaxRows] /\
        people_published' \subseteq Domains \X (1 .. MaxRows)
  <2>1. ASSUME NEW d \in Domains, NEW token \in 0 .. MaxRows, People!Publish(d, token)
        PROVE  people_dns' \in [Domains -> 0 .. MaxRows] /\
                 people_published' \subseteq Domains \X (1 .. MaxRows)
    BY <2>1 DEF People!Publish, People!TypeOK, People!OnboardingAssumption
  <2> QED BY <2>1, ZenonT(60) DEF People!Next, People!Request, People!Step, People!Verify, People!SendProbe,
      People!BulkUpload, People!OpenProbe, People!Begin, 
      People!VerifyResolve, People!VerifyWrite, People!WriteVerified, People!UploadDomains,
        People!UploadRow, People!CreateRow, People!ProbeStore, People!ProbeMail,
      People!ConfirmProbe, People!Confirm, People!CallEnds, People!RemoveEmployee,
        People!SetDeliverability, People!AddDomain, People!RemoveDomain,
      People!history, People!TypeOK
<1>3. people_roster' \subseteq Persons
  BY ZenonT(60) DEF People!Next, People!Request, People!Step, People!Verify, People!SendProbe,
     People!BulkUpload, People!OpenProbe, People!Begin, 
      People!VerifyResolve, People!VerifyWrite, People!WriteVerified, People!UploadDomains,
        People!UploadRow, People!CreateRow, People!ProbeStore, People!ProbeMail,
      People!ConfirmProbe, People!Confirm, People!CallEnds, People!RemoveEmployee,
        People!SetDeliverability, People!AddDomain, People!RemoveDomain, People!Publish,
      People!clientVars, People!TypeOK
<1>4. people_gateway' \in [confirmed : BOOLEAN, token : Probes \cup {None}]
  <2>1. ASSUME NEW confirmed \in BOOLEAN, People!SetDeliverability(confirmed)
        PROVE  people_gateway' \in [confirmed : BOOLEAN, token : Probes \cup {None}]
    BY <2>1 DEF People!SetDeliverability, People!TypeOK
  <2>2. ASSUME NEW c \in Calls, People!ProbeStore(c)
        PROVE  people_gateway' \in [confirmed : BOOLEAN, token : Probes \cup {None}]
    <3>1. people_asked[c].probe \in Probes \cup {None}
      BY DEF People!TypeOK
    <3> QED BY <2>2, <3>1 DEF People!ProbeStore, People!TypeOK
  <2>3. ASSUME NEW c \in Calls, People!ConfirmProbe(c)
        PROVE  people_gateway' \in [confirmed : BOOLEAN, token : Probes \cup {None}]
    BY <2>3 DEF People!ConfirmProbe, People!Confirm
  <2> QED BY <2>1, <2>2, <2>3, ZenonT(60) DEF People!Next, People!Request, People!Step, People!Verify,
      People!SendProbe, People!BulkUpload, People!OpenProbe, People!Begin, 
      People!VerifyResolve, People!VerifyWrite, People!WriteVerified, People!UploadDomains,
        People!UploadRow, People!CreateRow, People!ProbeMail,
      People!CallEnds, People!RemoveEmployee, People!AddDomain, People!RemoveDomain, People!Publish,
        People!clientVars, People!TypeOK
<1>5. people_inbox' \in [Probes -> Domains \cup {None}]
  <2>1. ASSUME NEW c \in Calls,
                 People!ProbeMail(c) PROVE people_inbox' \in [Probes -> Domains \cup {None}]
    <3>1. people_asked[c].domain \in Domains \cup {None}
      BY DEF People!TypeOK
    <3> QED BY <2>1, <3>1 DEF People!ProbeMail, People!TypeOK
  <2> QED BY <2>1, ZenonT(60) DEF People!Next, People!Request, People!Step, People!Verify, People!SendProbe,
      People!BulkUpload, People!OpenProbe, People!Begin, 
      People!VerifyResolve, People!VerifyWrite, People!WriteVerified, People!UploadDomains,
        People!UploadRow, People!CreateRow, People!ProbeStore,
      People!ConfirmProbe, People!Confirm, People!CallEnds, People!RemoveEmployee,
        People!SetDeliverability, People!AddDomain, People!RemoveDomain, People!Publish,
      People!TypeOK
<1>6. people_pc' \in [Calls -> People!Steps]
  BY ZenonT(60) DEF People!Next, People!Request, People!Step, People!Verify, People!SendProbe,
     People!BulkUpload, People!OpenProbe, People!Begin, People!Go, People!Finish,
     People!callVars, People!Steps,
      People!VerifyResolve, People!VerifyWrite, People!WriteVerified, People!UploadDomains,
        People!UploadRow, People!CreateRow, People!ProbeStore, People!ProbeMail,
      People!ConfirmProbe, People!Confirm, People!CallEnds, People!RemoveEmployee,
        People!SetDeliverability, People!AddDomain, People!RemoveDomain, People!Publish,
      People!TypeOK
<1>7. people_asked' \in [Calls -> Input]
  <2>1. ASSUME NEW c \in Calls, People!UploadDomains(c) PROVE people_asked' \in [Calls -> Input]
    <3>1. [people_asked[c] EXCEPT !.verified = People!Verified] \in Input
      BY <1>0 DEF People!Verified
    <3> QED BY <1>0, <2>1, <3>1 DEF People!UploadDomains
  <2>2. ASSUME NEW c \in Calls, NEW e \in Persons,
                 People!UploadRow(c, e) PROVE people_asked' \in [Calls -> Input]
    <3>1. [people_asked[c] EXCEPT !.people = @ \ {e}] \in Input
      BY <1>0
    <3> QED BY <1>0, <2>2, <3>1 DEF People!UploadRow, People!CreateRow
  <2>3. ASSUME NEW c \in Calls, People!Request(c) PROVE people_asked' \in [Calls -> Input]
    <3>1. \E i \in Input : people_asked' = [people_asked EXCEPT ![c] = i]
      <4>1. ASSUME NEW d \in Domains, People!Verify(c, d) PROVE \E i \in Input :
                     people_asked' = [people_asked EXCEPT ![c] = i]
        <5>1. people_row[d].token \in 0 .. MaxRows
          BY DEF People!TypeOK
        <5> QED BY <4>1, <5>1, RowTypes, ZenonT(60) DEF People!Verify, People!Begin
      <4>2. ASSUME NEW d \in Domains, NEW p \in Probes, People!SendProbe(c, p, d)
            PROVE  \E i \in Input : people_asked' = [people_asked EXCEPT ![c] = i]
        BY <4>2, RowTypes, ZenonT(60) DEF People!SendProbe, People!Begin
      <4>3. ASSUME NEW file \in SUBSET Persons, People!BulkUpload(c, file)
            PROVE  \E i \in Input : people_asked' = [people_asked EXCEPT ![c] = i]
        BY <4>3, RowTypes, ZenonT(60) DEF People!BulkUpload, People!Begin
      <4>4. ASSUME NEW p \in Probes, People!OpenProbe(c, p)
            PROVE  \E i \in Input : people_asked' = [people_asked EXCEPT ![c] = i]
        BY <4>4, RowTypes, ZenonT(60) DEF People!OpenProbe, People!Begin
      <4> QED BY <2>3, <4>1, <4>2, <4>3, <4>4 DEF People!Request
    <3> QED BY <1>0, <3>1
  <2>4. ASSUME NEW c \in Calls,
                 people_asked' = [people_asked EXCEPT ![c] = People!NoInput] PROVE people_asked' \in [Calls -> Input]
    BY <1>0, <2>4, RowTypes, ZenonT(60)
  <2> QED BY <1>0, <2>1, <2>2, <2>3, <2>4 DEF People!Next, People!Step, People!Finish,
      People!callVars,
      People!VerifyResolve, People!VerifyWrite, People!WriteVerified, People!ProbeStore,
        People!ProbeMail,
      People!ConfirmProbe, People!Confirm, People!CallEnds, People!RemoveEmployee,
        People!SetDeliverability, People!AddDomain, People!RemoveDomain, People!Publish
<1>8. people_made' \in [Domains -> 0 .. MaxRows] /\ people_confirms' \in [Probes -> Nat]
  <2>1. ASSUME NEW d \in Domains, People!AddDomain(d)
        PROVE  people_made' \in [Domains -> 0 .. MaxRows] /\ people_confirms' \in [Probes -> Nat]
    BY <2>1 DEF People!AddDomain, People!TypeOK, People!OnboardingAssumption
  <2>2. ASSUME NEW c \in Calls, People!ConfirmProbe(c)
        PROVE  people_made' \in [Domains -> 0 .. MaxRows] /\ people_confirms' \in [Probes -> Nat]
    <3>1. people_asked[c].probe \in Probes
      BY <2>2 DEF People!ConfirmProbe, People!Confirm, People!At, ProbesHold
    <3> QED BY <2>2, <3>1 DEF People!ConfirmProbe, People!Confirm, People!TypeOK
  <2> QED BY <2>1, <2>2, ZenonT(60) DEF People!Next, People!Request, People!Step, People!Verify,
      People!SendProbe, People!BulkUpload, People!OpenProbe, People!Begin, 
      People!VerifyResolve, People!VerifyWrite, People!WriteVerified, People!UploadDomains,
        People!UploadRow, People!CreateRow, People!ProbeStore, People!ProbeMail,
      People!CallEnds, People!RemoveEmployee, People!SetDeliverability, People!RemoveDomain,
        People!Publish, People!history, People!TypeOK
<1>9. people_stale' \subseteq Calls
  BY ZenonT(60) DEF People!Next, People!Request, People!Step, People!Verify, People!SendProbe,
     People!BulkUpload, People!OpenProbe, People!Begin, People!Opened,
      People!VerifyResolve, People!VerifyWrite, People!WriteVerified, People!UploadDomains,
        People!UploadRow, People!CreateRow, People!ProbeStore, People!ProbeMail,
      People!ConfirmProbe, People!Confirm, People!CallEnds, People!RemoveEmployee,
        People!SetDeliverability, People!AddDomain, People!RemoveDomain, People!Publish,
      People!TypeOK
<1> QED BY <1>1, <1>2, <1>3, <1>4, <1>5, <1>6, <1>7, <1>8, <1>9 DEF People!TypeOK

\* Tokens that were shown count as shown for ever.
LEMMA PublishedGrows ==
  ASSUME People!Next
  PROVE  people_published \subseteq people_published' /\
           People!Controlled \subseteq People!Controlled'
<1>1. people_published \subseteq people_published'
  BY DEF People!Next, People!Request, People!Step, People!Verify, People!SendProbe,
     People!BulkUpload, People!OpenProbe, People!Begin, 
      People!VerifyResolve, People!VerifyWrite, People!WriteVerified, People!UploadDomains,
        People!UploadRow, People!CreateRow, People!ProbeStore, People!ProbeMail,
      People!ConfirmProbe, People!Confirm, People!CallEnds, People!RemoveEmployee,
        People!SetDeliverability, People!AddDomain, People!RemoveDomain,
      People!Publish, People!history
<1> QED BY <1>1 DEF People!Controlled

\* Every step keeps to tokens that were shown.
LEMMA TokensShownNext ==
  ASSUME People!OnboardingAssumption, People!TypeOK, TokensShown, People!Next
  PROVE  TokensShown'
<1> USE DEF TokensShown
<1>0. people_published \subseteq people_published'
  BY PublishedGrows
<1>1. ASSUME NEW d \in Domains, People!AddDomain(d) PROVE TokensShown'
  BY <1>0, <1>1 DEF People!AddDomain, People!callVars,
     People!VerifiedShowedToken, People!TypeOK
<1>2. ASSUME NEW d \in Domains, People!RemoveDomain(d) PROVE TokensShown'
  BY <1>0, <1>2 DEF People!RemoveDomain, People!NoRow, People!callVars,
     People!history, People!VerifiedShowedToken, People!TypeOK
<1>3. ASSUME NEW d \in Domains, NEW token \in 0 .. MaxRows,
               People!Publish(d, token) PROVE TokensShown'
  BY <1>0, <1>3 DEF People!Publish, People!clientVars, People!callVars, People!VerifiedShowedToken,
     People!TypeOK
<1>4. ASSUME NEW c \in Calls, NEW d \in Domains, People!Verify(c, d) PROVE TokensShown'
  <2>1. /\ people_pc' = [people_pc EXCEPT ![c] = "resolve"]
        /\ people_asked' = [people_asked EXCEPT ![c] = [People!NoInput EXCEPT !.domain = d, !.token = people_row[d].token]]
        /\ people_row[d].token # 0 /\ UNCHANGED <<people_row, people_dns, people_published>>
    BY <1>4 DEF People!Verify, People!Begin, People!There, People!Go, People!clientVars,
       People!history
  <2>2. people_asked'[c].domain = d /\ people_asked'[c].token = people_row[d].token
    BY <2>1 DEF People!NoInput, People!TypeOK
  <2>3. \A e \in Calls : e # c => people_asked'[e] = people_asked[e] /\ people_pc'[e] = people_pc[e]
    BY <2>1 DEF People!TypeOK
  <2>4. people_pc'[c] = "resolve"
    BY <2>1 DEF People!TypeOK
  <2> QED BY <2>1, <2>2, <2>3, <2>4 DEF People!VerifiedShowedToken
<1>5. ASSUME NEW c \in Calls, People!VerifyResolve(c) PROVE TokensShown'
  BY <1>5 DEF People!VerifyResolve, People!At, People!Go, People!clientVars, People!history,
     People!VerifiedShowedToken, People!TypeOK
<1>6. ASSUME NEW c \in Calls, People!VerifyWrite(c) PROVE TokensShown'
  <2>1. /\ people_asked[c].domain \in Domains
        /\ people_row[people_asked[c].domain].token = people_asked[c].token
        /\ <<people_asked[c].domain, people_asked[c].token>> \in people_published
        /\ people_row' = [people_row EXCEPT ![people_asked[c].domain].verified = TRUE]
        /\ UNCHANGED <<people_dns, people_published>>
    BY <1>6 DEF People!VerifyWrite, People!WriteVerified, People!At, People!history
  <2>2. People!VerifiedShowedToken'
    <3>1. people_row[people_asked[c].domain] \in [token : 0 .. MaxRows, verified : BOOLEAN]
      BY <2>1 DEF People!TypeOK
    <3>2. people_row'[people_asked[c].domain].token = people_asked[c].token
      BY <2>1, <3>1 DEF People!TypeOK
    <3>3. \A d \in Domains : d # people_asked[c].domain => people_row'[d] = people_row[d]
      BY <2>1 DEF People!TypeOK
    <3> QED BY <2>1, <3>2, <3>3 DEF People!VerifiedShowedToken
  <2> QED BY <1>6, <2>1, <2>2 DEF People!VerifyWrite, People!WriteVerified, People!Finish,
      People!Go, People!TypeOK
<1>7. ASSUME NEW c \in Calls,
             \/ \E file \in SUBSET Persons : People!BulkUpload(c, file)
             \/ \E d \in Domains, p \in Probes : People!SendProbe(c, p, d)
             \/ \E p \in Probes : People!OpenProbe(c, p)
      PROVE  TokensShown'
  <2>1. /\ \E s \in {"uploadDomains", "probeStore", "confirm"} :
             people_pc' = [people_pc EXCEPT ![c] = s]
        /\ \E i : people_asked' = [people_asked EXCEPT ![c] = i]
        /\ UNCHANGED <<people_row, people_dns, people_published>>
    BY <1>7 DEF People!BulkUpload, People!SendProbe, People!OpenProbe, People!Begin, People!Go,
       People!clientVars, People!history
  <2>2. \A e \in Calls :
          people_pc'[e] \in {"resolve", "verifyWrite"} =>
            people_pc'[e] = people_pc[e] /\ people_asked'[e] = people_asked[e]
    BY <2>1 DEF People!TypeOK
  <2> QED BY <2>1, <2>2 DEF People!VerifiedShowedToken
<1>8. ASSUME NEW c \in Calls,
             People!UploadDomains(c) \/ \E e \in Persons : People!UploadRow(c, e)
      PROVE  TokensShown'
  BY <1>8, SMTT(60) DEF People!UploadDomains, People!UploadRow, People!CreateRow, People!Go,
     People!clientVars, People!history, People!VerifiedShowedToken, People!TypeOK
<1>9. ASSUME NEW c \in Calls, People!ProbeStore(c) \/ People!ProbeMail(c) \/
               People!ConfirmProbe(c) \/ People!CallEnds(c)
      PROVE  TokensShown'
  BY <1>9 DEF People!ProbeStore, People!ProbeMail, People!ConfirmProbe, People!Confirm,
     People!CallEnds, People!Finish, People!Go, 
     People!clientVars, People!history, People!VerifiedShowedToken, People!TypeOK
<1>10. CASE \/ \E e \in Persons : People!RemoveEmployee(e)
            \/ \E confirmed \in BOOLEAN : People!SetDeliverability(confirmed)
  BY <1>10 DEF People!RemoveEmployee, People!SetDeliverability, People!callVars,
     People!history, People!VerifiedShowedToken
<1> QED BY <1>1, <1>2, <1>3, <1>4, <1>5, <1>6, <1>7, <1>8, <1>9, <1>10 DEF People!Next,
    People!Request, People!Step

\* Every step keeps uploads, probes and the roster inside the domains that were proven.
LEMMA InsideNext ==
  ASSUME People!OnboardingAssumption, People!TypeOK, TokensShown, CallsInside, People!StaysInside,
           People!Next
  PROVE  CallsInside' /\ People!StaysInside'
<1> USE DEF CallsInside, People!StaysInside
<1>0. People!Controlled \subseteq People!Controlled'
  BY PublishedGrows
<1>1. People!Verified \subseteq People!Controlled
  <2> SUFFICES ASSUME NEW d \in People!Verified PROVE d \in People!Controlled
    OBVIOUS
  <2>1. d \in Domains /\ <<d, people_row[d].token>> \in people_published
    BY DEF People!Verified, TokensShown, People!VerifiedShowedToken
  <2> QED BY <2>1 DEF People!Controlled, People!TypeOK
<1>2. ASSUME NEW c \in Calls, People!UploadDomains(c) PROVE CallsInside' /\ People!StaysInside'
  BY <1>0, <1>1, <1>2 DEF People!UploadDomains, People!Go, People!clientVars, People!TypeOK
<1>3. ASSUME NEW c \in Calls, NEW e \in Persons, People!UploadRow(c, e) PROVE CallsInside' /\
               People!StaysInside'
  BY <1>0, <1>3 DEF People!UploadRow, People!CreateRow, People!TypeOK
<1>4. ASSUME NEW c \in Calls, NEW p \in Probes, NEW d \in Domains, People!SendProbe(c, p, d)
      PROVE  CallsInside' /\ People!StaysInside'
  <2>1. d \in People!Controlled
    BY <1>1, <1>4 DEF People!SendProbe, People!Verified
  <2>2. people_asked' = [people_asked EXCEPT ![c] = [People!NoInput EXCEPT !.domain = d, !.probe = p]]
    BY <1>4 DEF People!SendProbe, People!Begin
  <2>3. people_asked'[c].domain = d /\ people_asked'[c].verified = {}
    BY <2>2 DEF People!NoInput, People!TypeOK
  <2>4. \A e \in Calls : e # c => people_asked'[e] = people_asked[e] /\ people_pc'[e] = people_pc[e]
    BY <1>4, <2>2 DEF People!SendProbe, People!Begin, People!Go, People!TypeOK
  <2> QED BY <1>0, <1>4, <2>1, <2>3, <2>4 DEF People!SendProbe, People!Begin, People!clientVars
<1>5. ASSUME NEW c \in Calls, People!ProbeMail(c) PROVE CallsInside' /\ People!StaysInside'
  BY <1>0, <1>5 DEF People!ProbeMail, People!At, People!Go, People!Finish, People!NoInput,
     People!clientVars, People!TypeOK
<1>6. ASSUME NEW c \in Calls, People!ProbeStore(c) PROVE CallsInside' /\ People!StaysInside'
  BY <1>0, <1>6 DEF People!ProbeStore, People!At, People!Go, People!TypeOK
<1>7. ASSUME NEW c \in Calls, People!VerifyWrite(c) \/ People!ConfirmProbe(c) \/ People!CallEnds(c)
      PROVE  CallsInside' /\ People!StaysInside'
  <2>1. /\ people_pc' = [people_pc EXCEPT ![c] = "idle"]
        /\ people_asked' = [people_asked EXCEPT ![c] = People!NoInput]
        /\ UNCHANGED <<people_roster, people_inbox>>
    BY <1>7 DEF People!VerifyWrite, People!WriteVerified, People!ConfirmProbe, People!Confirm,
       People!CallEnds, People!Finish, People!Go, 
       People!clientVars
  <2> QED BY <1>0, <2>1 DEF People!NoInput, People!TypeOK
<1>8. ASSUME NEW c \in Calls,
             \/ \E d \in Domains : People!Verify(c, d)
             \/ \E file \in SUBSET Persons : People!BulkUpload(c, file)
             \/ \E p \in Probes : People!OpenProbe(c, p)
      PROVE  CallsInside' /\ People!StaysInside'
  <2>1. /\ \E s \in {"resolve", "uploadDomains", "confirm"} :
             people_pc' = [people_pc EXCEPT ![c] = s]
        /\ UNCHANGED <<people_roster, people_inbox>>
    BY <1>8 DEF People!Verify, People!BulkUpload, People!OpenProbe, People!Begin, People!Go,
       People!clientVars
  <2>2. \E i : i.verified = {} /\ people_asked' = [people_asked EXCEPT ![c] = i]
    BY <1>8 DEF People!Verify, People!BulkUpload, People!OpenProbe, People!Begin, People!NoInput
  <2> QED BY <1>0, <2>1, <2>2 DEF People!TypeOK
<1>9. ASSUME NEW c \in Calls, People!VerifyResolve(c) PROVE CallsInside' /\ People!StaysInside'
  BY <1>0, <1>9 DEF People!VerifyResolve, People!Go, People!clientVars, People!TypeOK
<1>10. CASE \/ \E d \in Domains : People!AddDomain(d) \/ People!RemoveDomain(d)
            \/ \E d \in Domains, token \in 0 .. MaxRows : People!Publish(d, token)
            \/ \E e \in Persons : People!RemoveEmployee(e)
            \/ \E confirmed \in BOOLEAN : People!SetDeliverability(confirmed)
  <2>1. UNCHANGED <<people_pc, people_asked, people_inbox>> /\
          people_roster' \subseteq people_roster
    BY <1>10 DEF People!AddDomain, People!RemoveDomain, People!Publish, People!RemoveEmployee,
       People!SetDeliverability, People!callVars, People!clientVars
  <2> QED BY <1>0, <2>1
<1> QED BY <1>2, <1>3, <1>4, <1>5, <1>6, <1>7, <1>8, <1>9, <1>10 DEF People!Next, People!Request,
    People!Step

\* Every step keeps what calls know of a probe.
LEMMA ProbesHoldNext ==
  ASSUME People!OnboardingAssumption, People!TypeOK, CallsInside, ProbesHold, People!Next
  PROVE  ProbesHold'
<1> USE DEF ProbesHold, Mailing
<1>1. ASSUME NEW c \in Calls, NEW p \in Probes, NEW d \in Domains, People!SendProbe(c, p, d)
      PROVE  ProbesHold'
  <2>1. /\ people_pc[c] = "idle" /\ people_pc' = [people_pc EXCEPT ![c] = "probeStore"]
        /\ people_asked' = [people_asked EXCEPT ![c] = [People!NoInput EXCEPT !.domain = d, !.probe = p]]
        /\ people_inbox[p] = None /\ \A e \in Calls : people_asked[e].probe # p
        /\ UNCHANGED <<people_gateway, people_inbox, people_confirms, people_stale>>
    BY <1>1 DEF People!SendProbe, People!Begin, People!At, People!Go, People!clientVars,
       People!history
  <2>2. people_asked'[c].probe = p /\ people_pc'[c] = "probeStore"
    BY <2>1 DEF People!NoInput, People!TypeOK
  <2>3. \A e \in Calls : e # c => people_asked'[e] = people_asked[e] /\ people_pc'[e] = people_pc[e]
    BY <2>1 DEF People!TypeOK
  <2> QED BY <2>1, <2>2, <2>3
<1>2. ASSUME NEW c \in Calls, NEW p \in Probes, People!OpenProbe(c, p) PROVE ProbesHold'
  <2>1. /\ people_pc[c] = "idle" /\ people_pc' = [people_pc EXCEPT ![c] = "confirm"]
        /\ people_asked' = [people_asked EXCEPT ![c] = [People!NoInput EXCEPT !.probe = p]]
        /\ people_inbox[p] # None /\ people_gateway.token = p
        /\ UNCHANGED <<people_gateway, people_inbox, people_confirms, people_stale>>
    BY <1>2 DEF People!OpenProbe, People!Begin, People!At, People!Go, People!clientVars,
       People!history
  <2>2. people_asked'[c].probe = p /\ people_pc'[c] = "confirm"
    BY <2>1 DEF People!NoInput, People!TypeOK
  <2>3. \A e \in Calls : e # c => people_asked'[e] = people_asked[e] /\ people_pc'[e] = people_pc[e]
    BY <2>1 DEF People!TypeOK
  <2> QED BY <2>1, <2>2, <2>3
<1>3. ASSUME NEW c \in Calls,
             \/ \E d \in Domains : People!Verify(c, d)
             \/ \E file \in SUBSET Persons : People!BulkUpload(c, file)
             \/ People!VerifyResolve(c) \/ People!UploadDomains(c) \/ \E e \in Persons :
                  People!UploadRow(c, e)
      PROVE  ProbesHold'
  <2>1. /\ people_pc'[c] \in {"resolve", "verifyWrite", "uploadDomains", "uploadRows"}
        /\ \A e \in Calls :
             e # c => people_asked'[e] = people_asked[e] /\ people_pc'[e] = people_pc[e]
        /\ people_stale \ {c} \subseteq people_stale'
        /\ UNCHANGED <<people_gateway, people_inbox, people_confirms>>
    BY <1>3, ZenonT(60) DEF People!Verify, People!BulkUpload, People!VerifyResolve, People!UploadDomains,
       People!UploadRow, People!CreateRow, People!Begin, People!At, People!Go, 
       People!clientVars, People!history, People!TypeOK
  <2> QED BY <2>1
<1>4. ASSUME NEW c \in Calls, People!VerifyWrite(c) \/ People!CallEnds(c) PROVE ProbesHold'
  <2>1. /\ people_pc'[c] = "idle"
        /\ \A e \in Calls :
             e # c => people_asked'[e] = people_asked[e] /\ people_pc'[e] = people_pc[e]
        /\ people_stale \ {c} \subseteq people_stale'
        /\ UNCHANGED <<people_gateway, people_inbox, people_confirms>>
    BY <1>4 DEF People!VerifyWrite, People!WriteVerified, People!CallEnds, People!Finish,
       People!At, People!Go, People!clientVars, People!history, People!TypeOK
  <2> QED BY <2>1
<1>5. ASSUME NEW c \in Calls, People!ProbeStore(c) PROVE ProbesHold'
  <2>1. /\ people_pc[c] = "probeStore" /\ people_pc' = [people_pc EXCEPT ![c] = "probeMail"]
        /\ people_gateway' = [people_gateway EXCEPT !.token = people_asked[c].probe]
        /\ people_stale \ {c} \subseteq people_stale'
        /\ UNCHANGED <<people_inbox, people_asked, people_confirms>>
    BY <1>5 DEF People!ProbeStore, People!At, People!Go, People!history
  <2>2. people_confirms[people_asked[c].probe] = 0 /\ people_gateway'.token = people_asked[c].probe
    BY <2>1 DEF People!TypeOK
  <2> QED BY <2>1, <2>2 DEF People!TypeOK
<1>6. ASSUME NEW c \in Calls, People!ProbeMail(c) PROVE ProbesHold'
  <2>1. /\ people_pc[c] = "probeMail" /\ people_pc' = [people_pc EXCEPT ![c] = "idle"]
        /\ people_asked' = [people_asked EXCEPT ![c] = People!NoInput]
        /\ people_inbox' = [people_inbox EXCEPT ![people_asked[c].probe] = people_asked[c].domain]
        /\ UNCHANGED <<people_gateway, people_confirms, people_stale>>
    BY <1>6 DEF People!ProbeMail, People!At, People!Finish, People!Go, People!clientVars,
       People!history
  <2>2. people_asked[c].domain # None
    BY <2>1 DEF CallsInside, People!Controlled, People!OnboardingAssumption
  <2> QED BY <2>1, <2>2 DEF People!TypeOK
<1>7. ASSUME NEW c \in Calls, People!ConfirmProbe(c) PROVE ProbesHold'
  <2>1. /\ people_pc[c] = "confirm" /\ people_pc' = [people_pc EXCEPT ![c] = "idle"]
        /\ people_asked' = [people_asked EXCEPT ![c] = People!NoInput]
        /\ people_gateway'.token = None /\ UNCHANGED people_inbox
        /\ people_confirms' = [people_confirms EXCEPT ![people_asked[c].probe] = @ + 1]
        /\ people_stale' = (people_stale \cup People!Opened(people_asked[c].probe)) \ {c}
    BY <1>7 DEF People!ConfirmProbe, People!Confirm, People!At,
       People!Finish, People!Go
  <2>2. \A p \in Probes : p # None
    BY DEF People!OnboardingAssumption
  <2>3. \A e \in Calls : e # c /\ people_pc[e] = "confirm" =>
          /\ people_stale \ {c} \subseteq people_stale'
          /\ people_asked[e].probe = people_asked[c].probe => e \in people_stale'
    BY <2>1 DEF People!Opened, People!At
  <2>4. \A p \in Probes :
          people_confirms'[p] > 0 => people_confirms[p] > 0 \/ p = people_asked[c].probe
    BY <2>1 DEF People!TypeOK
  <2> QED BY <2>1, <2>2, <2>3, <2>4 DEF People!TypeOK
<1>8. CASE \/ \E d \in Domains : People!AddDomain(d) \/ People!RemoveDomain(d)
           \/ \E confirmed \in BOOLEAN : People!SetDeliverability(confirmed)
           \/ \E d \in Domains, token \in 0 .. MaxRows : People!Publish(d, token)
           \/ \E e \in Persons : People!RemoveEmployee(e)
  <2>1. /\ UNCHANGED <<people_pc, people_asked, people_inbox, people_confirms>>
        /\ people_stale \subseteq people_stale'
        /\ people_gateway'.token = people_gateway.token
    BY <1>8 DEF People!AddDomain, People!RemoveDomain, People!SetDeliverability, People!Publish,
       People!RemoveEmployee, People!callVars, 
       People!clientVars, People!history, People!TypeOK
  <2> QED BY <2>1
<1> QED BY <1>1, <1>2, <1>3, <1>4, <1>5, <1>6, <1>7, <1>8 DEF People!Next, People!Request,
    People!Step

\* Only an opening overtaken by another confirms a probe again.
LEMMA ConfirmsOnce ==
  ASSUME People!TypeOK, ProbesHold, People!Next
  PROVE  People!ProbeConfirmsOnce
<1> SUFFICES ASSUME NEW p \in Probes, people_confirms[p] > 0,
               people_confirms'[p] > people_confirms[p]
             PROVE  \E c \in people_stale : c \in People!Opened(p)
  BY DEF People!ProbeConfirmsOnce
<1>1. people_confirms' # people_confirms
  BY SMTT(60) DEF People!TypeOK
<1>2. PICK c \in Calls : People!ConfirmProbe(c)
  BY <1>1 DEF People!Next, People!Request, People!Step, People!Verify, People!SendProbe,
     People!BulkUpload, People!OpenProbe, People!Begin, 
      People!VerifyResolve, People!VerifyWrite, People!WriteVerified, People!UploadDomains,
        People!UploadRow, People!CreateRow, People!ProbeStore, People!ProbeMail,
      People!CallEnds, People!RemoveEmployee, People!SetDeliverability, People!AddDomain,
        People!RemoveDomain, People!Publish, People!history
<1>3. people_pc[c] = "confirm" /\ people_asked[c].probe = p
  BY <1>2 DEF People!ConfirmProbe, People!Confirm, People!At, People!TypeOK
<1> QED BY <1>3 DEF ProbesHold, People!Opened, People!At

\* Every step keeps the invariant.
LEMMA OnboardingIInvNext ==
  ASSUME People!OnboardingAssumption, OnboardingIInv, [People!Next]_(People!vars)
  PROVE  OnboardingIInv'
<1>1. CASE UNCHANGED People!vars
  BY <1>1 DEF People!vars, People!clientVars, People!callVars, People!history, OnboardingIInv,
     People!TypeOK, TokensShown, People!VerifiedShowedToken, 
     CallsInside, People!StaysInside, People!Controlled, ProbesHold, Mailing
<1>2. CASE People!Next
  BY <1>2, OnboardingTypeNext, TokensShownNext, InsideNext, ProbesHoldNext DEF OnboardingIInv
<1> QED BY <1>1, <1>2

\* Nothing is verified, and nobody is on the roster.
LEMMA OnboardingIInvInit ==
  ASSUME People!OnboardingAssumption, People!Init
  PROVE  OnboardingIInv
<1>1. People!TypeOK
  <2>1. 0 \in 0 .. MaxRows
    BY DEF People!OnboardingAssumption
  <2>2. people_row \in [Domains -> [token : 0 .. MaxRows, verified : BOOLEAN]]
    BY RowTypes DEF People!Init
  <2>3. people_asked \in [Calls -> Input]
    BY RowTypes DEF People!Init
  <2>4. people_gateway \in [confirmed : BOOLEAN, token : Probes \cup {None}]
    BY DEF People!Init
  <2> QED BY <2>1, <2>2, <2>3, <2>4 DEF People!Init, People!TypeOK, People!Steps, Input
<1>2. TokensShown /\ CallsInside /\ People!StaysInside /\ ProbesHold
  BY DEF People!Init, TokensShown, People!VerifiedShowedToken, CallsInside, People!StaysInside,
     ProbesHold, Mailing, People!NoRow, People!NoInput
<1> QED BY <1>1, <1>2 DEF OnboardingIInv

\* What uploads and probes under way go by was proven, and stays so.
THEOREM OnboardingInductive == AccountsSpec => [](focus = "people" => OnboardingIInv)
<1> DEFINE I == focus = "people" => OnboardingIInv
<1>1. AccountsInit => I
  BY AccountsAssumption, Begun, OnboardingIInvInit DEF AccountsAssumption
<1>2. I /\ [AccountsNext]_allVars => I'
  BY AccountsAssumption, Focused, OnboardingIInvNext DEF AccountsAssumption
<1> QED BY <1>1, <1>2, PTL DEF AccountsSpec

\* Domains are verified by their own token, and nobody outside a client's domains is mailed.
THEOREM InsideKept == AccountsSpec => []MailsStayInside
<1>1. (focus = "people" => OnboardingIInv) => MailsStayInside
  BY DEF MailsStayInside, OnboardingIInv, People!OnboardingInv, TokensShown
<1> QED BY <1>1, OnboardingInductive, PTL

\* A test mail confirms the gateway once, however many calls read it.
THEOREM ProbesKept == AccountsSpec => ProbeConfirmsOnce
<1>1. (focus = "people" => OnboardingIInv) /\ [AccountsNext]_allVars => [focus = "people" => People!ProbeConfirmsOnce]_allVars
  BY AccountsAssumption, StepsOfOne, ConfirmsOnce DEF AccountsAssumption, OnboardingIInv
<1> QED BY <1>1, OnboardingInductive, PTL DEF AccountsSpec, ProbeConfirmsOnce

-----------------------------------------------------------------------------
(* Sending domains *)

\* A sending_domains row, what the provider keeps of it, a campaign, and what a call
\* goes by.
Sender == [id : 0 .. MaxRows, managed : BOOLEAN, provider : 0 .. MaxRows, status : Sending!Statuses]
Registration == [id : 0 .. MaxRows, status : Sending!Statuses]
Campaign == [status : {"none", "draft", "active", "over"}, sender : Domains \cup {None}]
Asked == [domain : Domains \cup {None}, id : 0 .. MaxRows, provider : 0 .. MaxRows,
          campaign : Campaigns \cup {None}]
Made == [rows : 0 .. MaxRows, registrations : 0 .. MaxRows]

\* A call under way is about a domain, and one on a campaign about that campaign.
CallsAsk ==
  \A c \in Calls :
    /\ domains_pc[c] # "idle" => domains_asked[c].domain \in Domains
    /\ domains_pc[c] \in {"campaignCreate", "activate"} => domains_asked[c].campaign \in Campaigns

\* What one call does to the rows of its domain.
LEMMA SenderTypes ==
  ASSUME Sending!SendingDomainsAssumption, NEW r \in Sender, NEW p \in 0 .. MaxRows,
           NEW s \in Sending!Statuses
  PROVE  /\ Sending!NoRow \in Sender /\ Sending!Unknown \in Registration
         /\ Sending!NoInput \in Asked
         /\ [Sending!NoRow EXCEPT !.provider = p] \in Sender
         /\ [Sending!NoRow EXCEPT !.managed = TRUE, !.status = "verified"] \in Sender
         /\ [Sending!Unknown EXCEPT !.id = p] \in Registration
         /\ [r EXCEPT !.id = p] \in Sender /\ [r EXCEPT !.status = s] \in Sender
         /\ [r EXCEPT !.managed = TRUE, !.provider = 0, !.status = "verified"] \in Sender
<1>1. 0 \in 0 .. MaxRows /\ "pending" \in Sending!Statuses /\ "verified" \in Sending!Statuses
  BY DEF Sending!SendingDomainsAssumption, Sending!Statuses
<1>2. Sending!NoRow \in Sender /\ Sending!Unknown \in Registration /\ Sending!NoInput \in Asked
  BY <1>1 DEF Sending!NoRow, Sending!Unknown, Sending!NoInput, Sender, Registration, Asked
<1>3. /\ [Sending!NoRow EXCEPT !.provider = p] \in Sender
      /\ [Sending!NoRow EXCEPT !.managed = TRUE, !.status = "verified"] \in Sender
  BY <1>1 DEF Sending!NoRow, Sender
<1>4. [Sending!Unknown EXCEPT !.id = p] \in Registration
  BY <1>1 DEF Sending!Unknown, Registration
<1>5. [r EXCEPT !.id = p] \in Sender
  BY Zenon DEF Sender
<1>6. [r EXCEPT !.status = s] \in Sender
  BY Zenon DEF Sender
<1>7. [r EXCEPT !.managed = TRUE, !.provider = 0, !.status = "verified"] \in Sender
  <2>1. [r EXCEPT !.managed = TRUE] \in Sender
    BY Zenon DEF Sender
  <2> DEFINE r1 == [r EXCEPT !.managed = TRUE]
  <2>2. [r1 EXCEPT !.provider = 0] \in Sender
    BY <1>1, <2>1, Zenon DEF Sender
  <2> DEFINE r2 == [r1 EXCEPT !.provider = 0]
  <2>3. [r2 EXCEPT !.status = "verified"] \in Sender
    BY <1>1, <2>2, Zenon DEF Sender
  <2> QED BY <2>3
<1> QED BY <1>2, <1>3, <1>4, <1>5, <1>6, <1>7

\* What there is of rows: a call makes one, writes to one, or deletes one, and each of
\* these overtakes the others.
LEMMA SenderWrites ==
  ASSUME Sending!SendingDomainsAssumption, Sending!TypeOK, CallsAsk, Sending!Next,
           domains_sender' # domains_sender
  PROVE  \E c \in Calls : LET d == domains_asked[c].domain IN
           /\ d \in Domains /\ domains_pc[c] # "idle"
           /\ domains_pc' = [domains_pc EXCEPT ![c] = "idle"]
           /\ domains_asked' = [domains_asked EXCEPT ![c] = Sending!NoInput]
           /\ domains_stale' = (domains_stale \cup {e \in Calls : domains_pc[e] # "idle"}) \ {c}
           /\ domains_registry' = domains_registry
           /\ \/ Sending!AddCreate(c) \/ Sending!RefreshWrite(c) \/ Sending!Promote(c)
              \/ Sending!EnableCreate(c) \/ Sending!Delete(c)
<1>1. PICK c \in Calls : \/ Sending!AddCreate(c) \/ Sending!RefreshWrite(c) \/ Sending!Promote(c)
                         \/ Sending!EnableCreate(c) \/ Sending!Delete(c)
  BY ZenonT(60) DEF Sending!Next, Sending!Request, Sending!Step, Sending!Add, Sending!Refresh,
     Sending!EnableShared, Sending!Remove, Sending!Launch, Sending!CreateCampaign, Sending!Begin,
     Sending!AddRegister, 
     Sending!RefreshAsk, Sending!RemoveCount, Sending!Counted, Sending!Deregister,
       Sending!CampaignCreate, Sending!WriteCampaign, Sending!Activate, Sending!CallDies,
     Sending!ProviderDecides, Sending!Kill, Sending!rowVars
<1>2. domains_pc[c] # "idle" /\ domains_asked[c].domain \in Domains
  BY <1>1 DEF Sending!AddCreate, Sending!RefreshWrite, Sending!Promote, Sending!EnableCreate,
     Sending!Delete, Sending!At, CallsAsk
<1>3. /\ domains_pc' = [domains_pc EXCEPT ![c] = "idle"]
      /\ domains_asked' = [domains_asked EXCEPT ![c] = Sending!NoInput]
      /\ domains_stale' = (domains_stale \cup {e \in Calls : domains_pc[e] # "idle"}) \ {c}
      /\ domains_registry' = domains_registry
  BY <1>1 DEF Sending!AddCreate, Sending!RefreshWrite, Sending!WriteStatus, Sending!Promote,
     Sending!EnableCreate, Sending!Delete, Sending!MakeRow, Sending!WriteRow, Sending!Overtake, 
     Sending!Finish, Sending!Go
<1> QED BY <1>1, <1>2, <1>3

\* Every step keeps the types.
LEMMA SendingTypeNext ==
  ASSUME Sending!SendingDomainsAssumption, Sending!TypeOK, CallsAsk, Sending!Next
  PROVE  Sending!TypeOK' /\ CallsAsk'
<1>0. /\ domains_sender \in [Domains -> Sender] /\ domains_registry \in [Domains -> Registration]
      /\ domains_campaign \in [Campaigns -> Campaign] /\ domains_asked \in [Calls -> Asked]
      /\ domains_made \in [Domains -> Made]
  BY DEF Sending!TypeOK, Sender, Registration, Campaign, Asked, Made
<1>1. domains_sender' \in [Domains -> Sender]
  <2>1. CASE domains_sender' # domains_sender
    <3>1. PICK c \in Calls : /\ domains_asked[c].domain \in Domains
            /\ \/ Sending!AddCreate(c) \/ Sending!RefreshWrite(c) \/ Sending!Promote(c)
               \/ Sending!EnableCreate(c) \/ Sending!Delete(c)
      BY <2>1, SenderWrites
    <3> DEFINE d == domains_asked[c].domain
    <3>2. /\ domains_sender[d] \in Sender /\ domains_asked[c].provider \in 0 .. MaxRows
          /\ domains_answer[c] \in Sending!Statuses
          /\ domains_made[d].rows < MaxRows => domains_made[d].rows + 1 \in 0 .. MaxRows
      BY <1>0, <3>1 DEF Asked, Made, Sending!TypeOK, Sending!SendingDomainsAssumption
    <3>3. \E r \in Sender : domains_sender' = [domains_sender EXCEPT ![d] = r]
      <4>1. CASE Sending!AddCreate(c)
        <5>1. [Sending!NoRow EXCEPT !.provider = domains_asked[c].provider] \in Sender
          BY <3>2, SenderTypes
        <5> QED BY <3>2, <4>1, <5>1, SenderTypes DEF Sending!AddCreate, Sending!MakeRow,
            Sending!MyDomain
      <4>2. CASE Sending!EnableCreate(c)
        <5>1. [Sending!NoRow EXCEPT !.managed = TRUE, !.status = "verified"] \in Sender
          BY <3>2, SenderTypes
        <5> QED BY <3>2, <4>2, <5>1, SenderTypes DEF Sending!EnableCreate, Sending!MakeRow,
            Sending!MyDomain
      <4>3. CASE Sending!RefreshWrite(c)
        BY <3>2, <4>3, SenderTypes DEF Sending!RefreshWrite, Sending!WriteStatus, Sending!WriteRow,
           Sending!MyDomain
      <4>4. CASE Sending!Promote(c)
        BY <3>2, <4>4, SenderTypes DEF Sending!Promote, Sending!WriteRow, Sending!MyDomain
      <4>5. CASE Sending!Delete(c)
        BY <3>2, <4>5, SenderTypes, ZenonT(60) DEF Sending!Delete, Sending!MyDomain
      <4> QED BY <3>1, <4>1, <4>2, <4>3, <4>4, <4>5
    <3> QED BY <1>0, <3>3
  <2> QED BY <1>0, <2>1
<1>2. domains_registry' \in [Domains -> Registration] /\ domains_made' \in [Domains -> Made]
  <2>1. ASSUME NEW c \in Calls, Sending!AddRegister(c)
        PROVE  domains_registry' \in [Domains -> Registration] /\
                 domains_made' \in [Domains -> Made]
    <3> DEFINE d == domains_asked[c].domain
    <3>1. d \in Domains /\ domains_made[d] \in Made
      BY <1>0, <2>1 DEF Sending!AddRegister, Sending!At, CallsAsk
    <3>2. domains_made[d].registrations + 1 \in 0 .. MaxRows
      BY <2>1, <3>1 DEF Sending!AddRegister, Sending!MyDomain, Made,
         Sending!SendingDomainsAssumption
    <3>3. [domains_made[d] EXCEPT !.registrations = @ + 1] \in Made
      BY <3>1, <3>2, Zenon DEF Made
    <3>4. domains_made' = [domains_made EXCEPT ![d].registrations = @ + 1]
      BY <2>1 DEF Sending!AddRegister, Sending!MyDomain
    <3>5. domains_made' \in [Domains -> Made] /\ domains_made'[d].registrations \in 0 .. MaxRows
      BY <1>0, <3>1, <3>3, <3>4 DEF Made
    <3>6. [Sending!Unknown EXCEPT !.id = domains_made'[d].registrations] \in Registration
      BY <3>5 DEF Sending!Unknown, Registration, Sending!Statuses
    <3> QED BY <1>0, <2>1, <3>5, <3>6 DEF Sending!AddRegister, Sending!MyDomain
  <2>2. ASSUME NEW d \in Domains, NEW s \in Sending!Statuses, Sending!ProviderDecides(d, s)
        PROVE  domains_registry' \in [Domains -> Registration] /\
                 domains_made' \in [Domains -> Made]
    <3>1. [domains_registry[d] EXCEPT !.status = s] \in Registration
      BY <1>0, Zenon DEF Registration
    <3> QED BY <1>0, <2>2, <3>1 DEF Sending!ProviderDecides, Sending!history
  <2>3. ASSUME NEW c \in Calls, NEW reached \in BOOLEAN, Sending!Deregister(c, reached)
        PROVE  domains_registry' \in [Domains -> Registration] /\
                 domains_made' \in [Domains -> Made]
    <3>1. Sending!Unknown \in Registration
      BY DEF Sending!Unknown, Registration, Sending!Statuses, Sending!SendingDomainsAssumption
    <3> QED BY <1>0, <2>3, <3>1 DEF Sending!Deregister
  <2>4. ASSUME NEW c \in Calls, Sending!AddCreate(c) \/ Sending!EnableCreate(c)
        PROVE  domains_registry' \in [Domains -> Registration] /\
                 domains_made' \in [Domains -> Made]
    <3> DEFINE d == domains_asked[c].domain
    <3>1. d \in Domains /\ domains_made[d] \in Made
      BY <1>0, <2>4 DEF Sending!AddCreate, Sending!EnableCreate, Sending!At, CallsAsk
    <3>2. /\ domains_made[d].rows < MaxRows
          /\ domains_made' = [domains_made EXCEPT ![d].rows = @ + 1]
          /\ domains_registry' = domains_registry
      BY <2>4 DEF Sending!AddCreate, Sending!EnableCreate, Sending!MakeRow, Sending!MyDomain
    <3>3. domains_made[d].rows + 1 \in 0 .. MaxRows
      BY <3>1, <3>2 DEF Made, Sending!SendingDomainsAssumption
    <3>4. [domains_made[d] EXCEPT !.rows = @ + 1] \in Made
      BY <3>1, <3>3, Zenon DEF Made
    <3> QED BY <1>0, <3>1, <3>2, <3>4
  <2> QED BY <1>0, <2>1, <2>2, <2>3, <2>4, ZenonT(60) DEF Sending!Next, Sending!Request, Sending!Step,
      Sending!Add, Sending!Refresh, Sending!EnableShared, Sending!Remove, Sending!Launch, 
      Sending!CreateCampaign, Sending!Begin, Sending!RefreshAsk, Sending!RefreshWrite,
        Sending!WriteStatus, Sending!Promote, Sending!WriteRow, Sending!RemoveCount,
          Sending!Counted,
      Sending!Delete, Sending!CampaignCreate, Sending!WriteCampaign, Sending!Activate,
        Sending!CallDies, Sending!Kill, Sending!rowVars, Sending!history
<1>3. domains_campaign' \in [Campaigns -> Campaign]
  <2>1. ASSUME NEW c \in Calls, Sending!CampaignCreate(c) \/
                 Sending!Activate(c) PROVE domains_campaign' \in [Campaigns -> Campaign]
    <3> DEFINE k == domains_asked[c].campaign
    <3>1. k \in Campaigns /\ domains_asked[c].domain \in Domains
      BY <2>1 DEF Sending!CampaignCreate, Sending!Activate, Sending!At, CallsAsk
    <3>2. [status |-> "draft", sender |-> domains_asked[c].domain] \in Campaign
      BY <3>1 DEF Campaign
    <3>3. [domains_campaign[k] EXCEPT !.status = "active"] \in Campaign
      BY <1>0, <3>1, Zenon DEF Campaign
    <3> QED BY <1>0, <2>1, <3>1, <3>2, <3>3 DEF Sending!CampaignCreate, Sending!Activate,
        Sending!WriteCampaign, Sending!MyDomain
  <2>2. ASSUME NEW k \in Campaigns,
                 Sending!Kill(k) PROVE domains_campaign' \in [Campaigns -> Campaign]
    <3>1. [domains_campaign[k] EXCEPT !.status = "over"] \in Campaign
      BY <1>0, Zenon DEF Campaign
    <3> QED BY <1>0, <2>2, <3>1 DEF Sending!Kill
  <2>3. ASSUME NEW c \in Calls,
                 Sending!Delete(c) PROVE domains_campaign' \in [Campaigns -> Campaign]
    <3>1. \A k \in Campaigns : [domains_campaign[k] EXCEPT !.sender = None] \in Campaign
      BY <1>0, Zenon DEF Campaign
    <3> QED BY <1>0, <2>3, <3>1 DEF Sending!Delete
  <2> QED BY <1>0, <2>1, <2>2, <2>3, ZenonT(60) DEF Sending!Next, Sending!Request, Sending!Step, Sending!Add,
      Sending!Refresh, Sending!EnableShared, Sending!Remove, Sending!Launch, 
      Sending!CreateCampaign, Sending!Begin, Sending!AddRegister, Sending!AddCreate,
        Sending!EnableCreate, Sending!MakeRow, Sending!RefreshAsk, Sending!RefreshWrite,
      Sending!WriteStatus, Sending!Promote, Sending!WriteRow, Sending!RemoveCount, Sending!Counted,
        Sending!Deregister, Sending!CallDies, Sending!ProviderDecides, Sending!rowVars
<1>4. domains_pc' \in [Calls -> Sending!Steps]
  <2>1. \A s \in {"idle", "register", "addCreate", "promote", "enableCreate", "ask", "refreshWrite", "count",
                  "deregister", "delete", "campaignCreate", "activate"} : s \in Sending!Steps
    BY DEF Sending!Steps
  <2>2. domains_pc' = domains_pc \/ \E c \in Calls, s \in Sending!Steps :
          domains_pc' = [domains_pc EXCEPT ![c] = s]
    BY <2>1, ZenonT(60) DEF Sending!Next, Sending!Request, Sending!Step, Sending!Add, Sending!Refresh,
       Sending!EnableShared, Sending!Remove, Sending!Launch, Sending!CreateCampaign, Sending!Begin,
       Sending!Go, Sending!Finish, 
      Sending!AddRegister, Sending!AddCreate, Sending!EnableCreate, Sending!MakeRow,
        Sending!RefreshAsk, Sending!RefreshWrite, Sending!WriteStatus, Sending!Promote,
          Sending!WriteRow,
      Sending!RemoveCount, Sending!Counted, Sending!Deregister, Sending!Delete,
        Sending!CampaignCreate, Sending!WriteCampaign, Sending!Activate, Sending!CallDies,
      Sending!ProviderDecides, Sending!Kill, Sending!callVars
  <2> QED BY <2>2 DEF Sending!TypeOK
<1>5. domains_asked' \in [Calls -> Asked]
  <2>1. ASSUME NEW c \in Calls, NEW d \in Domains, NEW k \in Campaigns \cup {None}, NEW step,
                 Sending!Begin(c, step, d, k)
        PROVE  domains_asked' \in [Calls -> Asked]
    <3>1. domains_sender[d].id \in 0 .. MaxRows /\ domains_sender[d].provider \in 0 .. MaxRows
      BY <1>0 DEF Sender
    <3>2. [domain |-> d, id |-> domains_sender[d].id, provider |-> domains_sender[d].provider, campaign |-> k] \in Asked
      BY <3>1 DEF Asked
    <3> QED BY <1>0, <2>1, <3>2 DEF Sending!Begin
  <2>2. ASSUME NEW c \in Calls, Sending!Request(c) PROVE domains_asked' \in [Calls -> Asked]
    BY <2>1, <2>2 DEF Sending!Request, Sending!Add, Sending!Refresh, Sending!EnableShared,
       Sending!Remove, Sending!Launch, Sending!CreateCampaign
  <2>3. ASSUME NEW c \in Calls, Sending!AddRegister(c) PROVE domains_asked' \in [Calls -> Asked]
    <3> DEFINE d == domains_asked[c].domain
               p == domains_registry'[d].id
    <3>1. d \in Domains /\ domains_asked' = [domains_asked EXCEPT ![c].provider = p]
      BY <2>3 DEF Sending!AddRegister, Sending!MyDomain, Sending!At, CallsAsk
    <3>2. p \in 0 .. MaxRows
      BY <1>2, <3>1 DEF Registration
    <3> HIDE DEF p
    <3>3. [domains_asked[c] EXCEPT !.provider = p] \in Asked
      BY <1>0, <3>2, Zenon DEF Asked
    <3> QED BY <1>0, <3>1, <3>3
  <2>4. ASSUME NEW c \in Calls,
                 domains_asked' = [domains_asked EXCEPT ![c] = Sending!NoInput] PROVE domains_asked' \in [Calls -> Asked]
    <3>1. Sending!NoInput \in Asked
      BY DEF Sending!NoInput, Asked, Sending!SendingDomainsAssumption
    <3> QED BY <1>0, <2>4, <3>1
  <2> QED BY <1>0, <2>2, <2>3, <2>4, ZenonT(60) DEF Sending!Next, Sending!Step, Sending!Finish,
      Sending!AddCreate, Sending!EnableCreate, Sending!MakeRow, Sending!RefreshAsk, 
      Sending!RefreshWrite, Sending!WriteStatus, Sending!Promote, Sending!WriteRow,
        Sending!RemoveCount, Sending!Counted, Sending!Deregister, Sending!Delete,
          Sending!CampaignCreate,
      Sending!WriteCampaign, Sending!Activate, Sending!CallDies, Sending!ProviderDecides,
        Sending!Kill, Sending!callVars
<1>6. domains_answer' \in [Calls -> Sending!Statuses]
  <2>1. ASSUME NEW c \in Calls,
                 Sending!RefreshAsk(c) PROVE domains_answer' \in [Calls -> Sending!Statuses]
    <3>1. domains_registry[domains_asked[c].domain].status \in Sending!Statuses
      BY <1>0, <2>1 DEF Sending!RefreshAsk, Sending!At, CallsAsk, Registration
    <3> QED BY <2>1, <3>1 DEF Sending!RefreshAsk, Sending!MyDomain, Sending!TypeOK
  <2>2. ASSUME NEW c \in Calls,
                 Sending!Finish(c) PROVE domains_answer' \in [Calls -> Sending!Statuses]
    BY <2>2 DEF Sending!Finish, Sending!TypeOK, Sending!Statuses
  <2> QED BY <2>1, <2>2, ZenonT(60) DEF Sending!Next, Sending!Request, Sending!Step, Sending!Add,
      Sending!Refresh, Sending!EnableShared, Sending!Remove, Sending!Launch, Sending!CreateCampaign,
      Sending!Begin, 
      Sending!AddRegister, Sending!AddCreate, Sending!EnableCreate, Sending!MakeRow,
        Sending!RefreshWrite, Sending!WriteStatus, Sending!Promote, Sending!WriteRow,
      Sending!RemoveCount, Sending!Counted, Sending!Deregister, Sending!Delete,
        Sending!CampaignCreate, Sending!WriteCampaign, Sending!Activate, Sending!CallDies,
      Sending!ProviderDecides, Sending!Kill, Sending!callVars, Sending!TypeOK
<1>7. domains_stale' \subseteq Calls
  BY ZenonT(60) DEF Sending!Next, Sending!Request, Sending!Step, Sending!Add, Sending!Refresh,
     Sending!EnableShared, Sending!Remove, Sending!Launch, Sending!CreateCampaign, Sending!Begin,
     Sending!Overtake, 
      Sending!AddRegister, Sending!AddCreate, Sending!EnableCreate, Sending!MakeRow,
        Sending!RefreshAsk, Sending!RefreshWrite, Sending!WriteStatus, Sending!Promote,
          Sending!WriteRow,
      Sending!RemoveCount, Sending!Counted, Sending!Deregister, Sending!Delete,
        Sending!CampaignCreate, Sending!WriteCampaign, Sending!Activate, Sending!CallDies,
      Sending!ProviderDecides, Sending!Kill, Sending!history, Sending!TypeOK
<1>8. domains_torn' \subseteq Domains /\ domains_shaken' \subseteq Domains
  <2>1. ASSUME NEW c \in Calls, Sending!RefreshWrite(c) \/ \E reached \in BOOLEAN :
                 Sending!Deregister(c, reached)
        PROVE  domains_torn' \subseteq Domains /\ domains_shaken' \subseteq Domains
    <3>1. domains_asked[c].domain \in Domains
      BY <2>1 DEF Sending!RefreshWrite, Sending!Deregister, Sending!At, CallsAsk
    <3> QED BY <2>1, <3>1 DEF Sending!RefreshWrite, Sending!WriteStatus, Sending!Deregister,
        Sending!MyDomain, Sending!TypeOK
  <2>2. ASSUME NEW c \in Calls, Sending!AddCreate(c) \/ Sending!EnableCreate(c) \/
                 Sending!Promote(c) \/ Sending!Delete(c)
        PROVE  domains_torn' \subseteq Domains /\ domains_shaken' \subseteq Domains
    BY <2>2 DEF Sending!AddCreate, Sending!EnableCreate, Sending!MakeRow, Sending!Promote,
       Sending!Delete, Sending!TypeOK
  <2>3. ASSUME NEW c \in Calls, \/ Sending!Request(c) \/ Sending!AddRegister(c)
                                \/ Sending!RefreshAsk(c) \/ Sending!RemoveCount(c)
                                \/ Sending!CampaignCreate(c) \/ Sending!Activate(c)
                                \/ Sending!CallDies(c)
        PROVE  UNCHANGED <<domains_torn, domains_shaken>>
    BY <2>3 DEF Sending!Request, Sending!Add, Sending!Refresh, Sending!EnableShared, Sending!Remove,
       Sending!Launch, Sending!CreateCampaign, Sending!Begin, Sending!AddRegister, 
       Sending!RefreshAsk, Sending!RemoveCount, Sending!Counted, Sending!CampaignCreate,
         Sending!WriteCampaign, Sending!Activate, Sending!CallDies, Sending!history
  <2>4. CASE \/ \E d \in Domains, s \in Sending!Statuses : Sending!ProviderDecides(d, s)
             \/ \E k \in Campaigns : Sending!Kill(k)
    BY <2>4 DEF Sending!ProviderDecides, Sending!Kill, Sending!history, Sending!TypeOK
  <2> QED BY <2>1, <2>2, <2>3, <2>4 DEF Sending!Next, Sending!Step, Sending!TypeOK
<1>9. domains_rushed' \subseteq Campaigns
  <2>1. ASSUME NEW c \in Calls, Sending!Activate(c) PROVE domains_rushed' \subseteq Campaigns
    BY <2>1 DEF Sending!Activate, Sending!At, CallsAsk, Sending!TypeOK
  <2>2. ASSUME NEW c \in Calls, Sending!Delete(c) PROVE domains_rushed' \subseteq Campaigns
    BY <2>2 DEF Sending!Delete, Sending!TypeOK
  <2>3. ASSUME NEW c \in Calls,
               \/ Sending!Request(c) \/ Sending!AddRegister(c) \/ Sending!AddCreate(c)
               \/ Sending!RefreshAsk(c) \/ Sending!RefreshWrite(c)
               \/ Sending!Promote(c) \/ Sending!EnableCreate(c) \/ Sending!RemoveCount(c)
               \/ \E reached \in BOOLEAN : Sending!Deregister(c, reached)
               \/ Sending!CampaignCreate(c) \/ Sending!CallDies(c)
        PROVE  domains_rushed' = domains_rushed
    BY <2>3 DEF Sending!Request, Sending!Add, Sending!Refresh, Sending!EnableShared, Sending!Remove,
       Sending!Launch, Sending!CreateCampaign, Sending!Begin, Sending!AddRegister, 
       Sending!AddCreate, Sending!EnableCreate, Sending!MakeRow, Sending!RefreshAsk,
         Sending!RefreshWrite, Sending!WriteStatus, Sending!Promote, Sending!RemoveCount,
           Sending!Counted,
       Sending!Deregister, Sending!CampaignCreate, Sending!CallDies, Sending!history
  <2>4. CASE \/ \E d \in Domains, s \in Sending!Statuses : Sending!ProviderDecides(d, s)
             \/ \E k \in Campaigns : Sending!Kill(k)
    BY <2>4 DEF Sending!ProviderDecides, Sending!Kill, Sending!history, Sending!TypeOK
  <2> QED BY <2>1, <2>2, <2>3, <2>4 DEF Sending!Next, Sending!Step, Sending!TypeOK
<1>10. CallsAsk'
  <2>1. ASSUME NEW c \in Calls, Sending!Request(c) PROVE CallsAsk'
    <3>1. ASSUME NEW step, NEW d \in Domains, NEW k, Sending!Begin(c, step, d, k),
                 step \in {"campaignCreate", "activate"} => k \in Campaigns
          PROVE  CallsAsk'
      <4>1. domains_pc'[c] = step /\ domains_asked'[c].domain = d /\ domains_asked'[c].campaign = k
        BY <1>0, <3>1 DEF Sending!Begin, Sending!TypeOK
      <4>2. \A e \in Calls :
              e # c => domains_pc'[e] = domains_pc[e] /\ domains_asked'[e] = domains_asked[e]
        BY <3>1 DEF Sending!Begin, Sending!TypeOK
      <4> QED BY <3>1, <4>1, <4>2 DEF CallsAsk
    <3> QED BY <2>1, <3>1 DEF Sending!Request, Sending!Add, Sending!Refresh, Sending!EnableShared,
        Sending!Remove, Sending!Launch, Sending!CreateCampaign
  <2>2. ASSUME NEW c \in Calls, Sending!AddRegister(c) PROVE CallsAsk'
    BY <1>0, <2>2 DEF Sending!AddRegister, Sending!At, Sending!Go, CallsAsk, Sending!TypeOK, Asked
  <2>3. ASSUME NEW c \in Calls, Sending!RefreshAsk(c) \/ Sending!RemoveCount(c) \/
                 \E reached \in BOOLEAN : Sending!Deregister(c, reached)
        PROVE  CallsAsk'
    BY <2>3 DEF Sending!RefreshAsk, Sending!RemoveCount, Sending!Counted, Sending!Deregister,
       Sending!At, Sending!Go, CallsAsk, Sending!TypeOK
  <2>4. ASSUME NEW c \in Calls, Sending!Finish(c) PROVE CallsAsk'
    BY <2>4 DEF Sending!Finish, Sending!Go, CallsAsk, Sending!TypeOK
  <2> QED BY <2>1, <2>2, <2>3, <2>4 DEF Sending!Next, Sending!Step, Sending!AddCreate,
      Sending!EnableCreate, Sending!MakeRow, Sending!RefreshWrite, Sending!WriteStatus, 
      Sending!Promote, Sending!WriteRow, Sending!Delete, Sending!CampaignCreate,
        Sending!WriteCampaign, Sending!Activate, Sending!CallDies, Sending!ProviderDecides,
          Sending!Kill,
      Sending!callVars, CallsAsk
<1> QED BY <1>1, <1>2, <1>3, <1>4, <1>5, <1>6, <1>7, <1>8, <1>9, <1>10
     DEF Sending!TypeOK, Sender, Registration, Campaign, Asked, Made

\* A registration just made belongs to the call that made it and to no row yet, and the
\* provider's ids were all given out before.
RegistrationsHold ==
  /\ \A d \in Domains :
       /\ domains_sender[d].provider <= domains_made[d].registrations
       /\ domains_registry[d].id <= domains_made[d].registrations
       /\ \A c \in Calls :
            domains_asked[c].domain = d =>
              domains_asked[c].provider <= domains_made[d].registrations
  /\ \A c \in Calls : domains_pc[c] = "addCreate" =>
       /\ domains_registry[domains_asked[c].domain].id = domains_asked[c].provider
       /\ domains_asked[c].provider # 0
       /\ domains_sender[domains_asked[c].domain].provider # domains_asked[c].provider
       /\ \A e \in Calls : e # c /\ domains_asked[e].domain = domains_asked[c].domain =>
                             domains_asked[e].provider # domains_asked[c].provider
  /\ Sending!OwnIsRegistered

\* A request begins a call about a domain.
LEMMA BeginsSomewhere ==
  ASSUME NEW c \in Calls, Sending!Request(c)
  PROVE  \E step \in Sending!Steps \ {"addCreate"}, d \in Domains, k \in Campaigns \cup {None} :
           Sending!Begin(c, step, d, k)
<1>1. ASSUME NEW d \in Domains, Sending!EnableShared(c, d)
      PROVE  \E step \in Sending!Steps \ {"addCreate"} : Sending!Begin(c, step, d, None)
  <2>1. (IF Sending!There(d) THEN "promote" ELSE "enableCreate") \in Sending!Steps \ {"addCreate"}
    BY DEF Sending!Steps
  <2> QED BY <1>1, <2>1 DEF Sending!EnableShared
<1>2. ASSUME NEW d \in Domains, Sending!Add(c, d) \/ Sending!Refresh(c, d) \/ Sending!Remove(c, d)
      PROVE  \E step \in Sending!Steps \ {"addCreate"} : Sending!Begin(c, step, d, None)
  BY <1>2 DEF Sending!Add, Sending!Refresh, Sending!Remove, Sending!Steps
<1>3. ASSUME NEW k \in Campaigns, Sending!Launch(c, k) \/ \E d \in Domains :
               Sending!CreateCampaign(c, k, d)
      PROVE  \E d \in Domains, step \in Sending!Steps \ {"addCreate"} : Sending!Begin(c, step, d, k)
  BY <1>3 DEF Sending!Launch, Sending!CreateCampaign, Sending!Steps
<1> QED BY <1>1, <1>2, <1>3, Zenon DEF Sending!Request

\* What a call was given when it began.
LEMMA CallBegun ==
  ASSUME Sending!TypeOK, NEW c \in Calls, NEW d \in Domains, NEW k, NEW step,
           Sending!Begin(c, step, d, k)
  PROVE  /\ domains_pc'[c] = step /\ domains_asked'[c].domain = d /\ domains_asked'[c].campaign = k
         /\ domains_asked'[c].id = domains_sender[d].id
         /\ domains_asked'[c].provider = domains_sender[d].provider
         /\ \A e \in Calls :
              e # c => domains_pc'[e] = domains_pc[e] /\ domains_asked'[e] = domains_asked[e]
         /\ UNCHANGED <<Sending!rowVars, domains_answer, Sending!history>>
BY DEF Sending!Begin, Sending!TypeOK

\* A call that ended goes by nothing any more.
LEMMA CallEnded ==
  ASSUME Sending!TypeOK, NEW c \in Calls, Sending!Finish(c)
  PROVE  /\ domains_pc'[c] = "idle" /\ domains_asked'[c] = Sending!NoInput
         /\ \A e \in Calls :
              e # c => domains_pc'[e] = domains_pc[e] /\ domains_asked'[e] = domains_asked[e] /\
                domains_answer'[e] = domains_answer[e]
BY DEF Sending!Finish, Sending!Go, Sending!TypeOK

\* Every step keeps rows and registrations together.
LEMMA RegistrationsHoldNext ==
  ASSUME Sending!SendingDomainsAssumption, Sending!TypeOK, CallsAsk, RegistrationsHold, Sending!Next
  PROVE  RegistrationsHold'
<1> USE DEF RegistrationsHold, Sending!OwnIsRegistered
<1>0. /\ \A d \in Domains : /\ domains_sender[d].provider \in Nat /\ domains_registry[d].id \in Nat
                             /\ domains_made[d].registrations \in Nat
      /\ \A c \in Calls : domains_asked[c].provider \in Nat
  BY DEF Sending!TypeOK
<1>1. ASSUME NEW c \in Calls, Sending!AddRegister(c) PROVE RegistrationsHold'
  <2> DEFINE d == domains_asked[c].domain
  <2>1. /\ d \in Domains /\ domains_pc[c] = "register"
        /\ domains_pc' = [domains_pc EXCEPT ![c] = "addCreate"]
        /\ domains_registry[d].id = 0
        /\ domains_made' = [domains_made EXCEPT ![d].registrations = @ + 1]
        /\ domains_registry' = [domains_registry EXCEPT ![d] = [Sending!Unknown EXCEPT !.id = domains_made'[d].registrations]]
        /\ domains_asked' = [domains_asked EXCEPT ![c].provider = domains_registry'[d].id]
        /\ UNCHANGED <<domains_sender, domains_torn>>
    BY <1>1 DEF Sending!AddRegister, Sending!At, Sending!Go, CallsAsk, Sending!MyDomain,
       Sending!Known
  <2>2. /\ domains_made'[d].registrations = domains_made[d].registrations + 1
        /\ \A o \in Domains :
             o # d => domains_made'[o] = domains_made[o] /\
               domains_registry'[o] = domains_registry[o]
    BY <2>1 DEF Sending!TypeOK
  <2>3. domains_registry'[d].id = domains_made'[d].registrations
    BY <2>1 DEF Sending!Unknown, Sending!TypeOK
  <2>4. /\ domains_asked'[c].provider = domains_made'[d].registrations
        /\ domains_asked'[c].domain = d
        /\ \A e \in Calls : e # c => domains_asked'[e] = domains_asked[e]
    BY <2>1, <2>3 DEF Sending!TypeOK
  <2>5. \A e \in Calls :
          domains_pc'[e] = "addCreate" =>
            e = c \/ (domains_pc[e] = "addCreate" /\ domains_asked[e].domain # d)
    <3>1. ASSUME NEW e \in Calls, e # c,
                   domains_pc'[e] = "addCreate" PROVE domains_pc[e] = "addCreate" /\
                     domains_asked[e].domain # d
      <4>1. domains_pc[e] = "addCreate"
        BY <2>1, <3>1 DEF Sending!TypeOK
      <4> QED BY <2>1, <4>1
    <3> QED BY <3>1
  <2>6. domains_sender[d].provider # 0 /\ Sending!There(d) => d \in domains_torn
    BY <2>1
  <2>7. /\ \A o \in Domains :
             /\ domains_sender'[o].provider <= domains_made'[o].registrations
             /\ domains_registry'[o].id <= domains_made'[o].registrations
             /\ \A e \in Calls :
                  domains_asked'[e].domain = o =>
                    domains_asked'[e].provider <= domains_made'[o].registrations
    BY <1>0, <2>1, <2>2, <2>3, <2>4
  <2>8. Sending!OwnIsRegistered'
    BY <2>1, <2>2, <2>6 DEF Sending!There
  <2>9. ASSUME NEW e \in Calls, domains_pc'[e] = "addCreate"
        PROVE  /\ domains_registry'[domains_asked'[e].domain].id = domains_asked'[e].provider
               /\ domains_asked'[e].provider # 0
               /\ domains_sender'[domains_asked'[e].domain].provider # domains_asked'[e].provider
               /\ \A f \in Calls : f # e /\ domains_asked'[f].domain = domains_asked'[e].domain =>
                                     domains_asked'[f].provider # domains_asked'[e].provider
    <3>1. CASE e = c
      BY <1>0, <2>1, <2>2, <2>3, <2>4, <3>1
    <3>2. CASE e # c
      <4>1. domains_pc[e] = "addCreate" /\ domains_asked[e].domain # d /\
              domains_asked'[e] = domains_asked[e] /\ domains_asked[e].domain \in Domains
        BY <2>4, <2>5, <2>9, <3>2 DEF CallsAsk
      <4> QED BY <2>1, <2>2, <2>4, <4>1
    <3> QED BY <3>1, <3>2
  <2> QED BY <2>7, <2>8, <2>9
<1>2. ASSUME NEW c \in Calls, Sending!AddCreate(c) PROVE RegistrationsHold'
  <2> DEFINE d == domains_asked[c].domain
             p == domains_asked[c].provider
  <2>1. /\ d \in Domains /\ domains_pc[c] = "addCreate" /\ Sending!Finish(c)
        /\ domains_sender' = [domains_sender EXCEPT ![d] = [[Sending!NoRow EXCEPT !.provider = p] EXCEPT !.id = domains_made[d].rows + 1]]
        /\ domains_made' = [domains_made EXCEPT ![d].rows = @ + 1]
        /\ domains_torn' = domains_torn \ {d} /\ domains_registry' = domains_registry
    BY <1>2 DEF Sending!AddCreate, Sending!MakeRow, Sending!At, CallsAsk, Sending!MyDomain
  <2>2. domains_sender'[d].provider = p /\ \A o \in Domains :
          o # d => domains_sender'[o] = domains_sender[o]
    BY <2>1 DEF Sending!NoRow, Sending!TypeOK
  <2>3. \A o \in Domains : domains_made'[o].registrations = domains_made[o].registrations
    BY <2>1 DEF Sending!TypeOK
  <2>4. /\ domains_pc'[c] = "idle" /\ domains_asked'[c].domain = None
        /\ \A e \in Calls :
             e # c => domains_pc'[e] = domains_pc[e] /\ domains_asked'[e] = domains_asked[e]
    BY <2>1, CallEnded DEF Sending!NoInput
  <2>5. \A e \in Calls : e # c /\ domains_pc[e] = "addCreate" => domains_asked[e].domain # d
    BY <2>1
  <2>6. Sending!OwnIsRegistered'
    BY <2>1, <2>2 DEF Sending!There
  <2>7. /\ \A o \in Domains :
             /\ domains_sender'[o].provider <= domains_made'[o].registrations
             /\ domains_registry'[o].id <= domains_made'[o].registrations
             /\ \A e \in Calls :
                  domains_asked'[e].domain = o =>
                    domains_asked'[e].provider <= domains_made'[o].registrations
    BY <1>0, <2>1, <2>2, <2>3, <2>4 DEF Sending!SendingDomainsAssumption
  <2>8. \A e \in Calls : domains_pc'[e] = "addCreate" =>
          e # c /\ domains_pc[e] = "addCreate" /\ domains_asked'[e] = domains_asked[e] /\
            domains_asked[e].domain # d /\ domains_asked[e].domain \in Domains
    BY <2>4, <2>5 DEF CallsAsk
  <2> QED BY <2>1, <2>2, <2>4, <2>6, <2>7, <2>8 DEF Sending!SendingDomainsAssumption
<1>3. ASSUME NEW c \in Calls, Sending!Deregister(c, TRUE) PROVE RegistrationsHold'
  <2> DEFINE d == domains_asked[c].domain
  <2>1. /\ d \in Domains /\ domains_pc[c] = "deregister"
        /\ domains_pc' = [domains_pc EXCEPT ![c] = "delete"]
        /\ domains_asked[c].provider # 0 /\ domains_registry[d].id = domains_asked[c].provider
        /\ domains_registry' = [domains_registry EXCEPT ![d] = Sending!Unknown]
        /\ domains_torn' = domains_torn \cup {d}
        /\ UNCHANGED <<domains_sender, domains_asked, domains_made>>
    BY <1>3 DEF Sending!Deregister, Sending!MyRegistration, Sending!MyDomain, Sending!At,
       Sending!Go, CallsAsk
  <2>2. domains_registry'[d].id = 0 /\ \A o \in Domains :
          o # d => domains_registry'[o] = domains_registry[o]
    BY <2>1 DEF Sending!Unknown, Sending!TypeOK
  <2>3. \A e \in Calls : domains_pc[e] = "addCreate" => domains_asked[e].domain # d
    BY <2>1
  <2>4. \A e \in Calls :
          domains_pc'[e] = "addCreate" =>
            domains_pc[e] = "addCreate" /\ domains_asked[e].domain \in Domains
    BY <2>1 DEF Sending!TypeOK, CallsAsk
  <2> QED BY <1>0, <2>1, <2>2, <2>3, <2>4 DEF Sending!There
<1>4. ASSUME NEW c \in Calls,
             Sending!RefreshWrite(c) \/ Sending!Promote(c) \/ Sending!EnableCreate(c) \/
               Sending!Delete(c)
      PROVE  RegistrationsHold'
  <2> DEFINE d == domains_asked[c].domain
  <2>1. /\ d \in Domains /\ domains_pc[c] # "addCreate" /\ Sending!Finish(c)
        /\ domains_registry' = domains_registry
    BY <1>4 DEF Sending!RefreshWrite, Sending!WriteStatus, Sending!Promote, Sending!EnableCreate,
       Sending!MakeRow, Sending!WriteRow, Sending!Delete, Sending!At, CallsAsk
  <2>2. /\ \A o \in Domains : o # d => domains_sender'[o] = domains_sender[o]
        /\ \A o \in Domains : domains_made'[o].registrations = domains_made[o].registrations
        /\ \/ domains_sender'[d].provider = 0 /\ domains_torn' = domains_torn \ {d}
           \/ domains_sender'[d].provider = domains_sender[d].provider /\
                domains_torn' = domains_torn /\ Sending!There(d)
    <3>1. CASE Sending!RefreshWrite(c)
      <4>1. /\ domains_sender' = [domains_sender EXCEPT ![d] = [domains_sender[d] EXCEPT !.status = domains_answer[c]]]
            /\ UNCHANGED <<domains_torn, domains_made>> /\ Sending!There(d)
        BY <3>1 DEF Sending!RefreshWrite, Sending!WriteStatus, Sending!WriteRow, Sending!MyDomain
      <4> QED BY <2>1, <4>1 DEF Sending!TypeOK
    <3>2. CASE Sending!Promote(c)
      <4>1. /\ domains_sender' = [domains_sender EXCEPT ![d] = [domains_sender[d] EXCEPT !.managed = TRUE, !.provider = 0,
                                                               !.status = "verified"]]
            /\ domains_torn' = domains_torn \ {d} /\ UNCHANGED domains_made
        BY <3>2 DEF Sending!Promote, Sending!WriteRow, Sending!MyDomain
      <4> QED BY <2>1, <4>1 DEF Sending!TypeOK
    <3>3. CASE Sending!EnableCreate(c)
      <4>1. /\ domains_sender' = [domains_sender EXCEPT ![d] = [[Sending!NoRow EXCEPT !.managed = TRUE, !.status = "verified"]
                                                 EXCEPT !.id = domains_made[d].rows + 1]]
            /\ domains_torn' = domains_torn \ {d}
            /\ domains_made' = [domains_made EXCEPT ![d].rows = @ + 1]
        BY <3>3 DEF Sending!EnableCreate, Sending!MakeRow, Sending!MyDomain
      <4> QED BY <2>1, <4>1 DEF Sending!NoRow, Sending!TypeOK
    <3>4. CASE Sending!Delete(c)
      <4>1. domains_sender' = [domains_sender EXCEPT ![d] = Sending!NoRow] /\
              domains_torn' = domains_torn \ {d} /\ UNCHANGED domains_made
        BY <3>4 DEF Sending!Delete, Sending!MyDomain
      <4> QED BY <2>1, <4>1 DEF Sending!NoRow, Sending!TypeOK
    <3> QED BY <1>4, <3>1, <3>2, <3>3, <3>4
  <2>4. /\ domains_pc'[c] = "idle" /\ domains_asked'[c].domain = None
        /\ \A e \in Calls :
             e # c => domains_pc'[e] = domains_pc[e] /\ domains_asked'[e] = domains_asked[e]
    BY <2>1, CallEnded DEF Sending!NoInput
  <2>5. Sending!OwnIsRegistered'
    BY <2>1, <2>2 DEF Sending!There
  <2>6. \A e \in Calls : domains_pc'[e] = "addCreate" =>
          e # c /\ domains_pc[e] = "addCreate" /\ domains_asked'[e] = domains_asked[e] /\
            domains_asked[e].domain \in Domains
    BY <2>4 DEF CallsAsk
  <2> QED BY <1>0, <2>1, <2>2, <2>4, <2>5, <2>6 DEF Sending!SendingDomainsAssumption
<1>5. ASSUME NEW c \in Calls, Sending!CampaignCreate(c) \/ Sending!Activate(c) \/
               Sending!CallDies(c) PROVE RegistrationsHold'
  <2>1. Sending!Finish(c) /\
          UNCHANGED <<domains_sender, domains_registry, domains_made, domains_torn>>
    BY <1>5 DEF Sending!CampaignCreate, Sending!Activate, Sending!WriteCampaign, Sending!CallDies,
       Sending!rowVars
  <2>2. /\ domains_pc'[c] = "idle" /\ domains_asked'[c].domain = None
        /\ \A e \in Calls :
             e # c => domains_pc'[e] = domains_pc[e] /\ domains_asked'[e] = domains_asked[e]
    BY <2>1, CallEnded DEF Sending!NoInput
  <2>3. \A e \in Calls : domains_pc'[e] = "addCreate" =>
          e # c /\ domains_pc[e] = "addCreate" /\ domains_asked'[e] = domains_asked[e] /\
            domains_asked[e].domain \in Domains
    BY <2>2 DEF CallsAsk
  <2> QED BY <2>1, <2>2, <2>3 DEF Sending!There, Sending!SendingDomainsAssumption
<1>6. ASSUME NEW c \in Calls, Sending!Request(c) PROVE RegistrationsHold'
  <2>1. PICK step \in Sending!Steps \ {"addCreate"}, d \in Domains, k \in Campaigns \cup {None} :
          Sending!Begin(c, step, d, k)
    BY <1>6, BeginsSomewhere
  <2>2. /\ domains_pc'[c] # "addCreate" /\ domains_asked'[c].domain = d
        /\ domains_asked'[c].provider = domains_sender[d].provider
        /\ \A e \in Calls :
             e # c => domains_pc'[e] = domains_pc[e] /\ domains_asked'[e] = domains_asked[e]
        /\ UNCHANGED <<domains_sender, domains_registry, domains_made, domains_torn>>
    BY <2>1, CallBegun DEF Sending!rowVars, Sending!history
  <2>3. \A e \in Calls : domains_pc'[e] = "addCreate" =>
          e # c /\ domains_pc[e] = "addCreate" /\ domains_asked'[e] = domains_asked[e] /\
            domains_asked[e].domain \in Domains
    BY <2>2 DEF CallsAsk
  <2> QED BY <2>2, <2>3 DEF Sending!There
<1>7. ASSUME NEW c \in Calls, Sending!RefreshAsk(c) \/ Sending!RemoveCount(c) \/
               Sending!Deregister(c, FALSE) PROVE RegistrationsHold'
  <2>1. /\ domains_pc'[c] # "addCreate" /\ \A e \in Calls : e # c => domains_pc'[e] = domains_pc[e]
        /\ UNCHANGED <<domains_sender, domains_registry, domains_asked, domains_made, domains_torn>>
    BY <1>7 DEF Sending!RefreshAsk, Sending!RemoveCount, Sending!Counted, Sending!Deregister,
       Sending!Go, Sending!rowVars, Sending!history, Sending!TypeOK
  <2> QED BY <2>1 DEF Sending!There
<1>8. ASSUME NEW d \in Domains, NEW s \in Sending!Statuses,
               Sending!ProviderDecides(d, s) PROVE RegistrationsHold'
  <2>1. (\A o \in Domains : domains_registry'[o].id = domains_registry[o].id) /\
          UNCHANGED <<domains_sender, domains_pc, domains_asked, domains_made, domains_torn>>
    BY <1>8 DEF Sending!ProviderDecides, Sending!callVars, Sending!history, Sending!TypeOK
  <2> QED BY <2>1 DEF Sending!There, CallsAsk
<1>9. ASSUME NEW k \in Campaigns, Sending!Kill(k) PROVE RegistrationsHold'
  BY <1>9 DEF Sending!Kill, Sending!callVars, Sending!There
<1> QED BY <1>1, <1>2, <1>3, <1>4, <1>5, <1>6, <1>7, <1>8, <1>9 DEF Sending!Next, Sending!Step

\* What a call has read is as it read it, until it is overtaken: a domain that it asks
\* about is still unverified, one that it removes still unused, and one that it launches
\* from still verified.
ReadsHold ==
  \A c \in Calls \ domains_stale :
    /\ domains_pc[c] \in {"ask", "refreshWrite"} =>
         ~domains_sender[domains_asked[c].domain].managed /\
           domains_sender[domains_asked[c].domain].status # "verified"
    /\ domains_pc[c] \in {"deregister", "delete"} =>
         \A k \in Campaigns : domains_campaign[k].sender = domains_asked[c].domain =>
                               domains_campaign[k].status \notin {"draft", "active"}
    /\ domains_pc[c] = "activate" =>
         domains_campaign[domains_asked[c].campaign].sender = domains_asked[c].domain /\
           Sending!Sends(domains_asked[c].domain)

\* Only a row can be shaken, and a campaign has a domain only once it is there.
RowsHold ==
  /\ \A d \in domains_shaken : Sending!There(d)
  /\ \A k \in Campaigns : domains_campaign[k].status = "none" => domains_campaign[k].sender = None

Rewrites(c) == Sending!AddCreate(c) \/ Sending!RefreshWrite(c) \/ Sending!Promote(c) \/
  Sending!EnableCreate(c) \/ Sending!Delete(c)

\* What becomes of the row of domain d: it is made, it gets the provider's answer, it is
\* promoted, or it is deleted.
RowMade(d) ==
  /\ ~Sending!There(d) /\ Sending!There(d)' /\ d \notin domains_shaken'
  /\ UNCHANGED <<domains_campaign, domains_rushed>>
  /\ domains_sender'[d].managed => domains_sender'[d].status = "verified"
RowAnswered(c, d) ==
  /\ domains_pc[c] = "refreshWrite" /\ Sending!There(d) /\ Sending!There(d)'
  /\ UNCHANGED <<domains_campaign, domains_rushed>>
  /\ domains_sender'[d].managed = domains_sender[d].managed
  /\ domains_shaken' = IF c \in domains_stale THEN domains_shaken \cup {d} ELSE domains_shaken
RowPromoted(d) ==
  Sending!There(d)' /\ domains_sender'[d].status = "verified" /\
    UNCHANGED <<domains_campaign, domains_rushed>> /\ d \notin domains_shaken'
RowDeleted(c, d) ==
  /\ domains_pc[c] = "delete" /\ ~Sending!There(d)' /\ ~domains_sender'[d].managed
  /\ d \notin domains_shaken'
  /\ \A k \in Campaigns :
       /\ domains_campaign'[k].status = domains_campaign[k].status
       /\ domains_campaign'[k].sender = IF domains_campaign[k].sender = d THEN None ELSE domains_campaign[k].sender
  /\ domains_rushed' = domains_rushed \cup {k \in Campaigns : c \in domains_stale /\ domains_campaign[k].sender = d}
OthersStay(d) ==
  \A o \in Domains :
    o # d => domains_sender'[o] = domains_sender[o] /\
      (o \in domains_shaken' <=> o \in domains_shaken)

\* A call makes the row of its domain, writes the provider's answer to it, promotes or
\* deletes it; other rows stay.
LEMMA RowWritten ==
  ASSUME Sending!SendingDomainsAssumption, Sending!TypeOK, CallsAsk, NEW c \in Calls, Rewrites(c),
         NEW d, d = domains_asked[c].domain
  PROVE  /\ d \in Domains /\ domains_pc[c] # "idle" /\ Sending!Finish(c) /\ Sending!Overtake(c)
         /\ OthersStay(d)
         /\ RowMade(d) \/ RowAnswered(c, d) \/ RowPromoted(d) \/ RowDeleted(c, d)
<1>1. d \in Domains /\ domains_pc[c] # "idle" /\ Sending!Finish(c) /\ Sending!Overtake(c)
  BY DEF Rewrites, Sending!AddCreate, Sending!RefreshWrite, Sending!WriteStatus, Sending!Promote,
     Sending!EnableCreate, Sending!MakeRow, Sending!WriteRow, Sending!Delete, Sending!At, CallsAsk
<1>2. ASSUME NEW r, Sending!MakeRow(c, r), r.managed => r.status = "verified",
             [r EXCEPT !.id = domains_made[d].rows + 1].managed = r.managed,
             [r EXCEPT !.id = domains_made[d].rows + 1].status = r.status,
             [r EXCEPT !.id = domains_made[d].rows + 1].id = domains_made[d].rows + 1
      PROVE  OthersStay(d) /\ RowMade(d)
  <2>1. domains_sender' = [domains_sender EXCEPT ![d] = [r EXCEPT !.id = domains_made[d].rows + 1]]
    BY <1>2 DEF Sending!MakeRow, Sending!MyDomain
  <2>2. domains_sender'[d] = [r EXCEPT !.id = domains_made[d].rows + 1] /\
          domains_made[d].rows + 1 # 0
    BY <1>1, <2>1, SMTT(60) DEF Sending!TypeOK
  <2>3. \A o \in Domains : o # d => domains_sender'[o] = domains_sender[o]
    BY <2>1 DEF Sending!TypeOK
  <2>4. ~Sending!There(d) /\ domains_shaken' = domains_shaken \ {d} /\
          UNCHANGED <<domains_campaign, domains_rushed>>
    BY <1>2 DEF Sending!MakeRow, Sending!MyDomain
  <2> QED BY <1>2, <2>2, <2>3, <2>4 DEF OthersStay, RowMade, Sending!There
<1>3. CASE Sending!AddCreate(c)
  BY <1>1, <1>2, <1>3 DEF Sending!AddCreate, Sending!NoRow
<1>4. CASE Sending!EnableCreate(c)
  BY <1>1, <1>2, <1>4 DEF Sending!EnableCreate, Sending!NoRow
<1>5. CASE Sending!RefreshWrite(c)
  <2>1. /\ domains_sender' = [domains_sender EXCEPT ![d] = [domains_sender[d] EXCEPT !.status = domains_answer[c]]]
        /\ Sending!There(d) /\ domains_pc[c] = "refreshWrite"
        /\ UNCHANGED <<domains_campaign, domains_rushed>>
        /\ domains_shaken' = IF c \in domains_stale THEN domains_shaken \cup {d} ELSE domains_shaken
    BY <1>5 DEF Sending!RefreshWrite, Sending!WriteStatus, Sending!WriteRow, Sending!MyDomain,
       Sending!At
  <2>2. /\ \A o \in Domains : o # d => domains_sender'[o] = domains_sender[o]
        /\ domains_sender'[d].managed = domains_sender[d].managed
        /\ domains_sender'[d].id = domains_sender[d].id
    BY <1>1, <2>1 DEF Sending!TypeOK
  <2> QED BY <1>1, <2>1, <2>2 DEF OthersStay, RowAnswered, Sending!There
<1>6. CASE Sending!Promote(c)
  <2>1. /\ domains_sender' = [domains_sender EXCEPT ![d] = [domains_sender[d] EXCEPT !.managed = TRUE, !.provider = 0,
                                                           !.status = "verified"]]
        /\ Sending!There(d) /\ UNCHANGED <<domains_campaign, domains_rushed>>
        /\ domains_shaken' = domains_shaken \ {d}
    BY <1>6 DEF Sending!Promote, Sending!WriteRow, Sending!MyDomain
  <2>2. /\ \A o \in Domains : o # d => domains_sender'[o] = domains_sender[o]
        /\ domains_sender'[d].status = "verified" /\ domains_sender'[d].id = domains_sender[d].id
    BY <1>1, <2>1 DEF Sending!TypeOK
  <2> QED BY <1>1, <2>1, <2>2 DEF OthersStay, RowPromoted, Sending!There
<1>7. CASE Sending!Delete(c)
  <2>1. /\ domains_sender' = [domains_sender EXCEPT ![d] = Sending!NoRow]
        /\ domains_pc[c] = "delete" /\ domains_shaken' = domains_shaken \ {d}
        /\ domains_campaign' = [k \in Campaigns |->
             IF domains_campaign[k].sender = d THEN [domains_campaign[k] EXCEPT !.sender = None] ELSE domains_campaign[k]]
        /\ domains_rushed' = domains_rushed \cup {k \in Campaigns : c \in domains_stale /\ domains_campaign[k].sender = d}
    BY <1>7 DEF Sending!Delete, Sending!MyDomain, Sending!At
  <2>2. /\ \A o \in Domains : o # d => domains_sender'[o] = domains_sender[o]
        /\ ~domains_sender'[d].managed /\ domains_sender'[d].id = 0
    BY <1>1, <2>1 DEF Sending!NoRow, Sending!TypeOK
  <2>3. \A k \in Campaigns :
          /\ domains_campaign'[k].status = domains_campaign[k].status
          /\ domains_campaign'[k].sender = IF domains_campaign[k].sender = d THEN None ELSE domains_campaign[k].sender
    BY <2>1 DEF Sending!TypeOK
  <2> QED BY <1>1, <2>1, <2>2, <2>3 DEF OthersStay, RowDeleted, Sending!There
<1> QED BY <1>3, <1>4, <1>5, <1>6, <1>7 DEF Rewrites

\* A call under way that is not overtaken still reads what it read.
LEMMA OvertakesReaders ==
  ASSUME Sending!SendingDomainsAssumption, Sending!TypeOK, CallsAsk, Sending!Next,
         NEW e \in Calls \ domains_stale', domains_pc[e] # "idle", domains_pc'[e] # "idle"
  PROVE  /\ e \notin domains_stale /\ UNCHANGED <<domains_sender, domains_campaign>>
         /\ domains_asked'[e].domain = domains_asked[e].domain
         /\ domains_asked'[e].campaign = domains_asked[e].campaign
         /\ \/ domains_pc'[e] \in {domains_pc[e], "addCreate"}
            \/ domains_pc[e] = "ask" /\ domains_pc'[e] = "refreshWrite"
            \/ domains_pc[e] = "deregister" /\ domains_pc'[e] = "delete"
            \/ /\ domains_pc'[e] \in {"deregister", "delete"}
               /\ \A k \in Campaigns : domains_campaign[k].sender = domains_asked[e].domain =>
                                       domains_campaign[k].status \notin {"draft", "active"}
<1>1. ASSUME NEW c \in Calls, Sending!Finish(c) PROVE e # c /\ domains_pc'[e] = domains_pc[e] /\
               domains_asked'[e] = domains_asked[e]
  BY <1>1, CallEnded
<1>2. ASSUME NEW c \in Calls, Sending!Overtake(c), Sending!Finish(c) PROVE FALSE
  BY <1>1, <1>2 DEF Sending!Overtake
<1>3. ASSUME NEW c \in Calls,
             \/ Sending!AddCreate(c) \/ Sending!RefreshWrite(c) \/ Sending!Promote(c)
             \/ Sending!EnableCreate(c) \/ Sending!Delete(c)
             \/ Sending!CampaignCreate(c) \/ Sending!Activate(c)
      PROVE  FALSE
  BY <1>2, <1>3 DEF Sending!AddCreate, Sending!RefreshWrite, Sending!WriteStatus, Sending!Promote,
     Sending!EnableCreate, Sending!MakeRow, Sending!WriteRow, Sending!Delete, 
     Sending!CampaignCreate, Sending!Activate, Sending!WriteCampaign
<1>4. ASSUME NEW k \in Campaigns, Sending!Kill(k) PROVE FALSE
  BY <1>4 DEF Sending!Kill
<1>5. ASSUME NEW c \in Calls, Sending!CallDies(c)
      PROVE  e \notin domains_stale /\ domains_pc'[e] = domains_pc[e] /\
               domains_asked'[e] = domains_asked[e] /\
                 UNCHANGED <<domains_sender, domains_campaign>>
  <2>1. Sending!Finish(c) /\ domains_stale' = domains_stale \ {c} /\
          UNCHANGED <<domains_sender, domains_campaign>>
    BY <1>5 DEF Sending!CallDies, Sending!rowVars
  <2> QED BY <1>1, <2>1
<1>6. ASSUME NEW c \in Calls, Sending!Request(c)
      PROVE  e # c /\ domains_pc'[e] = domains_pc[e] /\ domains_asked'[e] = domains_asked[e] /\
               UNCHANGED <<domains_sender, domains_campaign, domains_stale>>
  <2>1. \E step \in Sending!Steps, d \in Domains, k \in Campaigns \cup {None} :
          Sending!Begin(c, step, d, k)
    BY <1>6, BeginsSomewhere
  <2> QED BY <2>1 DEF Sending!Begin, Sending!rowVars, Sending!history, Sending!TypeOK
<1>7. ASSUME NEW c \in Calls, Sending!AddRegister(c)
      PROVE  /\ UNCHANGED <<domains_sender, domains_campaign, domains_stale>>
             /\ domains_pc'[e] \in {domains_pc[e], "addCreate"}
             /\ domains_asked'[e].domain = domains_asked[e].domain
             /\ domains_asked'[e].campaign = domains_asked[e].campaign
  BY <1>7 DEF Sending!AddRegister, Sending!Go, Sending!TypeOK
<1>8. ASSUME NEW c \in Calls, Sending!RefreshAsk(c) \/ Sending!RemoveCount(c) \/
               \E reached \in BOOLEAN : Sending!Deregister(c, reached)
      PROVE  UNCHANGED <<domains_sender, domains_campaign, domains_stale, domains_asked>> /\
               (e # c => domains_pc'[e] = domains_pc[e])
  BY <1>8 DEF Sending!RefreshAsk, Sending!RemoveCount, Sending!Counted, Sending!Deregister,
     Sending!Go, Sending!rowVars, Sending!history, Sending!TypeOK
<1>9. ASSUME NEW c \in Calls, Sending!RefreshAsk(c) \/ Sending!RemoveCount(c) \/
               \E reached \in BOOLEAN : Sending!Deregister(c, reached),
             e = c
      PROVE  \/ domains_pc[e] = "ask" /\ domains_pc'[e] = "refreshWrite"
             \/ domains_pc[e] = "deregister" /\ domains_pc'[e] = "delete"
             \/ /\ domains_pc'[e] \in {"deregister", "delete"}
                /\ \A k \in Campaigns : domains_campaign[k].sender = domains_asked[e].domain =>
                                        domains_campaign[k].status \notin {"draft", "active"}
  <2>1. CASE Sending!RefreshAsk(c)
    BY <1>9, <2>1 DEF Sending!RefreshAsk, Sending!At, Sending!Go, Sending!TypeOK
  <2>2. CASE \E reached \in BOOLEAN : Sending!Deregister(c, reached)
    BY <1>9, <2>2 DEF Sending!Deregister, Sending!At, Sending!Go, Sending!TypeOK
  <2>3. CASE Sending!RemoveCount(c)
    BY <1>9, <2>3 DEF Sending!RemoveCount, Sending!Counted, Sending!At, Sending!Go,
       Sending!MyDomain, Sending!TypeOK
  <2> QED BY <1>9, <2>1, <2>2, <2>3
<1>10. CASE \E d \in Domains, s \in Sending!Statuses : Sending!ProviderDecides(d, s)
  <2>1. UNCHANGED <<domains_sender, domains_campaign, domains_pc, domains_asked, domains_stale>>
    BY <1>10 DEF Sending!ProviderDecides, Sending!callVars, Sending!history
  <2> QED BY <2>1
<1> QED BY <1>3, <1>4, <1>5, <1>6, <1>7, <1>8, <1>9, <1>10 DEF Sending!Next, Sending!Step

\* Every step keeps what calls have read, unless it overtakes them.
LEMMA ReadsHoldNext ==
  ASSUME Sending!SendingDomainsAssumption, Sending!TypeOK, CallsAsk, ReadsHold, Sending!Next
  PROVE  ReadsHold'
<1> DEFINE Reads(e) ==
      /\ domains_pc[e] \in {"ask", "refreshWrite"} =>
           ~domains_sender[domains_asked[e].domain].managed /\
             domains_sender[domains_asked[e].domain].status # "verified"
      /\ domains_pc[e] \in {"deregister", "delete"} =>
           \A k \in Campaigns : domains_campaign[k].sender = domains_asked[e].domain =>
                                 domains_campaign[k].status \notin {"draft", "active"}
      /\ domains_pc[e] = "activate" =>
           domains_campaign[domains_asked[e].campaign].sender = domains_asked[e].domain /\
             Sending!Sends(domains_asked[e].domain)
<1> SUFFICES ASSUME NEW e \in Calls \ domains_stale' PROVE Reads(e)'
  BY DEF ReadsHold
<1>1. CASE domains_pc[e] # "idle" /\ domains_pc'[e] # "idle"
  <2>1. e \notin domains_stale => Reads(e)
    BY DEF ReadsHold
  <2> QED BY <1>1, <2>1, OvertakesReaders DEF Sending!Sends, Sending!There
<1>2. CASE domains_pc'[e] = "idle"
  BY <1>2
<1>3. CASE domains_pc[e] = "idle" /\ domains_pc'[e] # "idle"
  <2>1. Sending!Request(e)
    <3>1. \A c \in Calls : Sending!Step(c) => domains_pc[c] # "idle"
      BY DEF Sending!Step, Sending!AddRegister, Sending!AddCreate, Sending!RefreshAsk,
         Sending!RefreshWrite, Sending!Promote, Sending!EnableCreate, Sending!RemoveCount,
         Sending!Counted, 
         Sending!Deregister, Sending!Delete, Sending!CampaignCreate, Sending!Activate,
           Sending!CallDies, Sending!At
    <3>2. ASSUME NEW c \in Calls, Sending!Step(c), c # e PROVE domains_pc'[e] = domains_pc[e]
      BY <3>2 DEF Sending!Step, Sending!AddRegister, Sending!AddCreate, Sending!RefreshAsk,
         Sending!RefreshWrite, Sending!WriteStatus, Sending!Promote, Sending!EnableCreate, 
         Sending!RemoveCount, Sending!Counted, Sending!Deregister, Sending!Delete,
           Sending!CampaignCreate, Sending!WriteCampaign, Sending!Activate, Sending!CallDies,
             Sending!MakeRow,
         Sending!WriteRow, Sending!Finish, Sending!Go, Sending!TypeOK
    <3>3. ASSUME NEW c \in Calls, Sending!Request(c), c # e PROVE domains_pc'[e] = domains_pc[e]
      BY <3>3, BeginsSomewhere DEF Sending!Begin, Sending!TypeOK
    <3>4. ~(\E d \in Domains, s \in Sending!Statuses : Sending!ProviderDecides(d, s)) /\
            ~(\E k \in Campaigns : Sending!Kill(k))
      BY <1>3 DEF Sending!ProviderDecides, Sending!Kill, Sending!callVars
    <3> QED BY <1>3, <3>1, <3>2, <3>3, <3>4 DEF Sending!Next
  <2>2. ASSUME NEW d \in Domains, Sending!Refresh(e, d) PROVE Reads(e)'
    <3>1. domains_pc'[e] = "ask" /\ domains_asked'[e].domain = d /\ UNCHANGED domains_sender
      BY <2>2, CallBegun DEF Sending!Refresh, Sending!rowVars
    <3> QED BY <2>2, <3>1 DEF Sending!Refresh
  <2>3. ASSUME NEW d \in Domains, Sending!Add(e, d) \/ Sending!EnableShared(e, d) \/
                 Sending!Remove(e, d) PROVE Reads(e)'
    <3>1. domains_pc'[e] \in {"register", "promote", "enableCreate", "count"}
      BY <2>3 DEF Sending!Add, Sending!EnableShared, Sending!Remove, Sending!Begin, Sending!TypeOK
    <3> QED BY <3>1
  <2>4. ASSUME NEW k \in Campaigns, Sending!Launch(e, k) PROVE Reads(e)'
    <3>1. PICK d \in Domains : /\ domains_campaign[k] = [status |-> "draft", sender |-> d]
                               /\ Sending!Sends(d)
                               /\ Sending!Begin(e, "activate", d, k)
      BY <2>4 DEF Sending!Launch
    <3>2. domains_pc'[e] = "activate" /\ domains_asked'[e].domain = d /\
            domains_asked'[e].campaign = k /\ UNCHANGED <<domains_sender, domains_campaign>>
      BY <3>1, CallBegun DEF Sending!rowVars
    <3> QED BY <3>1, <3>2 DEF Sending!Sends, Sending!There
  <2>5. ASSUME NEW k \in Campaigns, NEW d \in Domains,
                 Sending!CreateCampaign(e, k, d) PROVE Reads(e)'
    <3>1. domains_pc'[e] = "campaignCreate"
      BY <2>5, CallBegun DEF Sending!CreateCampaign
    <3> QED BY <3>1
  <2> QED BY <2>1, <2>2, <2>3, <2>4, <2>5 DEF Sending!Request
<1> QED BY <1>1, <1>2, <1>3

\* A step that writes to no row and no campaign changes neither, nor what is noted of them.
LEMMA RowsStay ==
  ASSUME Sending!Next, \A c \in Calls :
           ~Rewrites(c) /\ ~Sending!CampaignCreate(c) /\ ~Sending!Activate(c),
         \A k \in Campaigns : ~Sending!Kill(k)
  PROVE  UNCHANGED <<domains_sender, domains_campaign, domains_shaken, domains_rushed>>
<1>1. ASSUME NEW c \in Calls,
               Sending!Request(c) PROVE UNCHANGED <<domains_sender, domains_campaign, domains_shaken, domains_rushed>>
  BY <1>1, BeginsSomewhere DEF Sending!Begin, Sending!rowVars, Sending!history
<1>2. ASSUME NEW c \in Calls,
             \/ Sending!AddRegister(c) \/ Sending!RefreshAsk(c) \/ Sending!RemoveCount(c)
             \/ Sending!Deregister(c, TRUE) \/ Sending!Deregister(c, FALSE)
             \/ Sending!CallDies(c)
      PROVE  UNCHANGED <<domains_sender, domains_campaign, domains_shaken, domains_rushed>>
  BY <1>2 DEF Sending!AddRegister, Sending!RefreshAsk, Sending!RemoveCount, Sending!Counted,
     Sending!Deregister, Sending!CallDies, Sending!rowVars, Sending!history
<1>3. ASSUME NEW d \in Domains, NEW s \in Sending!Statuses, Sending!ProviderDecides(d, s)
      PROVE  UNCHANGED <<domains_sender, domains_campaign, domains_shaken, domains_rushed>>
  BY <1>3 DEF Sending!ProviderDecides, Sending!history
<1> QED BY <1>1, <1>2, <1>3 DEF Sending!Next, Sending!Step, Rewrites

\* A campaign is created with a domain, launched with the one it has, or killed.
LEMMA CampaignWritten ==
  ASSUME Sending!SendingDomainsAssumption, Sending!TypeOK, CallsAsk,
         \/ \E c \in Calls : Sending!CampaignCreate(c) \/ Sending!Activate(c)
         \/ \E k \in Campaigns : Sending!Kill(k)
  PROVE  /\ UNCHANGED <<domains_sender, domains_shaken>>
         /\ \E k \in Campaigns :
              /\ \A o \in Campaigns :
                   o # k => domains_campaign'[o] = domains_campaign[o] /\
                     (o \in domains_rushed => o \in domains_rushed')
              /\ \/ /\ domains_campaign[k].status = "none" /\ domains_campaign'[k].status = "draft"
                    /\ domains_campaign'[k].sender # None
                 \/ /\ domains_campaign'[k].sender = domains_campaign[k].sender
                    /\ domains_campaign'[k].status = "over"
                 \/ /\ domains_campaign'[k].sender = domains_campaign[k].sender
                    /\ domains_campaign'[k].status = "active"
                    /\ \E c \in Calls : /\ domains_pc[c] = "activate"
                                        /\ domains_asked[c].campaign = k
                                        /\ c \in domains_stale => k \in domains_rushed'
<1>1. ASSUME NEW c \in Calls, Sending!CampaignCreate(c)
      PROVE  /\ UNCHANGED <<domains_sender, domains_shaken, domains_rushed>>
             /\ \E k \in Campaigns :
                  /\ \A o \in Campaigns : o # k => domains_campaign'[o] = domains_campaign[o]
                  /\ domains_campaign[k].status = "none" /\ domains_campaign'[k].status = "draft"
                  /\ domains_campaign'[k].sender # None
  <2>1. /\ domains_asked[c].domain \in Domains /\ domains_asked[c].campaign \in Campaigns
        /\ domains_campaign[domains_asked[c].campaign].status = "none"
        /\ UNCHANGED <<domains_sender, domains_shaken, domains_rushed>>
        /\ domains_campaign' = [domains_campaign EXCEPT ![domains_asked[c].campaign] = [status |-> "draft", sender |-> domains_asked[c].domain]]
    BY <1>1 DEF Sending!CampaignCreate, Sending!WriteCampaign, Sending!At, CallsAsk,
       Sending!MyDomain
  <2> QED BY <2>1 DEF Sending!TypeOK, Sending!SendingDomainsAssumption
<1>2. ASSUME NEW c \in Calls, Sending!Activate(c)
      PROVE  /\ UNCHANGED <<domains_sender, domains_shaken>>
             /\ domains_rushed \subseteq domains_rushed'
             /\ \E k \in Campaigns :
                  /\ \A o \in Campaigns : o # k => domains_campaign'[o] = domains_campaign[o]
                  /\ domains_campaign'[k].sender = domains_campaign[k].sender
                  /\ domains_campaign'[k].status = "active"
                  /\ domains_pc[c] = "activate" /\ domains_asked[c].campaign = k
                  /\ c \in domains_stale => k \in domains_rushed'
  <2> DEFINE k == domains_asked[c].campaign
  <2>1. /\ k \in Campaigns /\ domains_pc[c] = "activate"
        /\ UNCHANGED <<domains_sender, domains_shaken>>
        /\ domains_campaign' = [domains_campaign EXCEPT ![k] = [domains_campaign[k] EXCEPT !.status = "active"]]
        /\ domains_rushed' = IF c \in domains_stale THEN domains_rushed \cup {k} ELSE domains_rushed
    BY <1>2 DEF Sending!Activate, Sending!WriteCampaign, Sending!At, CallsAsk
  <2>2. /\ \A o \in Campaigns : o # k => domains_campaign'[o] = domains_campaign[o]
        /\ domains_campaign'[k].sender = domains_campaign[k].sender
        /\ domains_campaign'[k].status = "active"
    BY <2>1 DEF Sending!TypeOK
  <2> QED BY <2>1, <2>2
<1>3. ASSUME NEW k \in Campaigns, Sending!Kill(k)
      PROVE  /\ UNCHANGED <<domains_sender, domains_shaken, domains_rushed>>
             /\ \A o \in Campaigns : o # k => domains_campaign'[o] = domains_campaign[o]
             /\ domains_campaign'[k].sender = domains_campaign[k].sender
             /\ domains_campaign'[k].status = "over"
  BY <1>3 DEF Sending!Kill, Sending!TypeOK
<1> QED BY <1>1, <1>2, <1>3

\* The invariant of sending domains.
SendingIInv ==
  /\ Sending!TypeOK /\ CallsAsk /\ RegistrationsHold /\ ReadsHold /\ RowsHold
  /\ Sending!ManagedSends /\ Sending!ActiveHasDomain

\* Rows and campaigns keep to each other when a row is written.
LEMMA RowWrittenHolds ==
  ASSUME Sending!SendingDomainsAssumption, SendingIInv, NEW c \in Calls, Rewrites(c)
  PROVE  RowsHold' /\ Sending!ManagedSends' /\ Sending!ActiveHasDomain' /\ Sending!VerifiedSticks /\
           Sending!DomainsInUseStay
<1> USE DEF SendingIInv, Sending!Sends, Sending!There
<1>0. PICK d : d = domains_asked[c].domain
  OBVIOUS
<1>1. /\ d \in Domains /\ OthersStay(d)
      /\ RowMade(d) \/ RowAnswered(c, d) \/ RowPromoted(d) \/ RowDeleted(c, d)
  BY <1>0, RowWritten
<1>2. \A o \in Domains :
        o # d => domains_sender'[o] = domains_sender[o] /\
          (o \in domains_shaken' <=> o \in domains_shaken)
  BY <1>1 DEF OthersStay
<1>3. domains_shaken \subseteq Domains /\ domains_shaken' \subseteq Domains /\ None \notin Domains
  <2>1. domains_shaken' \subseteq Domains
    BY <1>0, <1>1 DEF Sending!TypeOK, Rewrites, Sending!AddCreate, Sending!EnableCreate,
       Sending!MakeRow, Sending!RefreshWrite, Sending!WriteStatus, Sending!Promote, 
       Sending!Delete, Sending!MyDomain
  <2> QED BY <2>1 DEF Sending!TypeOK, Sending!SendingDomainsAssumption
<1>4. \A k \in Campaigns : domains_campaign[k].status = "active" /\ k \notin domains_rushed =>
        domains_campaign[k].sender \in Domains /\
          (Sending!Sends(domains_campaign[k].sender) \/ domains_campaign[k].sender \in domains_shaken)
  BY <1>3 DEF Sending!ActiveHasDomain, Sending!TypeOK
<1>5. ASSUME UNCHANGED <<domains_campaign, domains_rushed>>, Sending!Sends(d) \/
               d \in domains_shaken => Sending!Sends(d)' \/ d \in domains_shaken'
      PROVE  Sending!ActiveHasDomain' /\ Sending!DomainsInUseStay
  <2> SUFFICES ASSUME NEW k \in Campaigns, domains_campaign[k].status = "active",
                 k \notin domains_rushed
               PROVE  LET o == domains_campaign[k].sender IN
                        \/ o # None /\ domains_sender'[o].id # 0 /\
                             domains_sender'[o].status = "verified"
                        \/ o \in domains_shaken'
    BY <1>5 DEF Sending!ActiveHasDomain, Sending!DomainsInUseStay
  <2>1. CASE domains_campaign[k].sender = d
    BY <1>1, <1>3, <1>4, <1>5, <2>1
  <2>2. CASE domains_campaign[k].sender # d
    BY <1>2, <1>3, <1>4, <2>2
  <2> QED BY <2>1, <2>2
<1>6. ASSUME d \in domains_shaken' => Sending!There(d)', domains_sender'[d].managed =>
               Sending!Sends(d)' \/ d \in domains_shaken',
             Sending!Sends(d) /\ Sending!There(d)' /\ ~Sending!Sends(d)' => d \in domains_shaken'
      PROVE  (\A o \in domains_shaken' : Sending!There(o)') /\ Sending!ManagedSends' /\
               Sending!VerifiedSticks
  <2>1. \A o \in domains_shaken' : Sending!There(o)'
    BY <1>2, <1>3, <1>6 DEF RowsHold
  <2>2. Sending!ManagedSends'
    BY <1>2, <1>6 DEF Sending!ManagedSends
  <2>3. Sending!VerifiedSticks
    BY <1>2, <1>6 DEF Sending!VerifiedSticks
  <2> QED BY <2>1, <2>2, <2>3
<1>7. CASE RowMade(d)
  <2>1. Sending!ActiveHasDomain' /\ Sending!DomainsInUseStay
    BY <1>1, <1>5, <1>7 DEF RowMade, RowsHold
  <2>2. (\A o \in domains_shaken' : Sending!There(o)') /\ Sending!ManagedSends' /\
          Sending!VerifiedSticks
    BY <1>6, <1>7 DEF RowMade
  <2> QED BY <1>7, <2>1, <2>2 DEF RowMade, RowsHold
<1>8. CASE RowAnswered(c, d)
  <2>1. c \notin domains_stale =>
          ~domains_sender[d].managed /\ domains_sender[d].status # "verified"
    BY <1>0, <1>8 DEF RowAnswered, ReadsHold
  <2>2. Sending!ActiveHasDomain' /\ Sending!DomainsInUseStay
    BY <1>1, <1>5, <1>8, <2>1 DEF RowAnswered
  <2>3. (\A o \in domains_shaken' : Sending!There(o)') /\ Sending!ManagedSends' /\
          Sending!VerifiedSticks
    BY <1>1, <1>6, <1>8, <2>1 DEF RowAnswered, Sending!ManagedSends
  <2> QED BY <1>8, <2>2, <2>3 DEF RowAnswered, RowsHold
<1>9. CASE RowPromoted(d)
  <2>1. Sending!ActiveHasDomain' /\ Sending!DomainsInUseStay
    BY <1>5, <1>9 DEF RowPromoted
  <2>2. (\A o \in domains_shaken' : Sending!There(o)') /\ Sending!ManagedSends' /\
          Sending!VerifiedSticks
    BY <1>6, <1>9 DEF RowPromoted
  <2> QED BY <1>9, <2>1, <2>2 DEF RowPromoted, RowsHold
<1>10. CASE RowDeleted(c, d)
  <2>1. \A k \in Campaigns :
          c \notin domains_stale /\ domains_campaign[k].sender = d =>
            domains_campaign[k].status \notin {"draft", "active"}
    BY <1>0, <1>10 DEF RowDeleted, ReadsHold
  <2>2. (\A o \in domains_shaken' : Sending!There(o)') /\ Sending!ManagedSends' /\
          Sending!VerifiedSticks
    BY <1>6, <1>10 DEF RowDeleted
  <2>3. RowsHold'
    <3>1. \A k \in Campaigns :
            domains_campaign'[k].status = "none" => domains_campaign'[k].sender = None
      BY <1>10 DEF RowDeleted, RowsHold
    <3> QED BY <2>2, <3>1 DEF RowsHold
  <2>4. Sending!ActiveHasDomain'
    <3> SUFFICES ASSUME NEW k \in Campaigns, domains_campaign'[k].status = "active",
                   k \notin domains_rushed'
                 PROVE  LET o == domains_campaign'[k].sender IN
                          \/ o # None /\ domains_sender'[o].id # 0 /\
                               domains_sender'[o].status = "verified"
                          \/ o \in domains_shaken'
      BY DEF Sending!ActiveHasDomain
    <3>1. domains_campaign[k].status = "active" /\ k \notin domains_rushed /\
            ~(c \in domains_stale /\ domains_campaign[k].sender = d)
      BY <1>10 DEF RowDeleted
    <3>2. domains_campaign[k].sender # d
      BY <2>1, <3>1
    <3>3. domains_campaign'[k].sender = domains_campaign[k].sender
      BY <1>10, <3>2 DEF RowDeleted
    <3> QED BY <1>2, <1>3, <1>4, <3>1, <3>2, <3>3
  <2>5. Sending!DomainsInUseStay
    <3> SUFFICES ASSUME NEW k \in Campaigns, domains_campaign[k].sender # None,
                   domains_campaign'[k].sender = None,
                        domains_campaign[k].status # "over"
                 PROVE  domains_pc[c] = "delete" /\ c \in domains_stale
      BY DEF Sending!DomainsInUseStay
    <3>1. domains_campaign[k].sender = d /\ domains_pc[c] = "delete"
      BY <1>10 DEF RowDeleted
    <3>2. domains_campaign[k].status \in {"draft", "active"}
      BY DEF Sending!TypeOK, RowsHold
    <3> QED BY <2>1, <3>1, <3>2
  <2> QED BY <2>2, <2>3, <2>4, <2>5
<1> QED BY <1>1, <1>7, <1>8, <1>9, <1>10

\* So they do when a campaign is.
LEMMA CampaignWrittenHolds ==
  ASSUME Sending!SendingDomainsAssumption, SendingIInv,
         \/ \E c \in Calls : Sending!CampaignCreate(c) \/ Sending!Activate(c)
         \/ \E k \in Campaigns : Sending!Kill(k)
  PROVE  RowsHold' /\ Sending!ManagedSends' /\ Sending!ActiveHasDomain' /\ Sending!VerifiedSticks /\
           Sending!DomainsInUseStay
<1> USE DEF SendingIInv, Sending!Sends, Sending!There
<1>1. UNCHANGED <<domains_sender, domains_shaken>>
  BY CampaignWritten
<1>2. PICK k \in Campaigns :
        /\ \A o \in Campaigns :
             o # k => domains_campaign'[o] = domains_campaign[o] /\
               (o \in domains_rushed => o \in domains_rushed')
        /\ \/ /\ domains_campaign[k].status = "none" /\ domains_campaign'[k].status = "draft"
              /\ domains_campaign'[k].sender # None
           \/ /\ domains_campaign'[k].sender = domains_campaign[k].sender
              /\ domains_campaign'[k].status = "over"
           \/ /\ domains_campaign'[k].sender = domains_campaign[k].sender
              /\ domains_campaign'[k].status = "active"
              /\ \E c \in Calls : /\ domains_pc[c] = "activate" /\ domains_asked[c].campaign = k
                                  /\ c \in domains_stale => k \in domains_rushed'
  BY CampaignWritten
<1>3. RowsHold' /\ Sending!ManagedSends' /\ Sending!VerifiedSticks /\ Sending!DomainsInUseStay
  BY <1>1, <1>2 DEF RowsHold, Sending!ManagedSends, Sending!VerifiedSticks, Sending!DomainsInUseStay
<1>4. Sending!ActiveHasDomain'
  <2> SUFFICES ASSUME NEW o \in Campaigns, domains_campaign'[o].status = "active",
                 o \notin domains_rushed'
               PROVE  LET d == domains_campaign'[o].sender IN
                        \/ d # None /\ domains_sender'[d].id # 0 /\
                             domains_sender'[d].status = "verified"
                        \/ d \in domains_shaken'
    BY DEF Sending!ActiveHasDomain
  <2>1. CASE o # k
    BY <1>1, <1>2, <2>1 DEF Sending!ActiveHasDomain
  <2>2. CASE o = k
    <3>1. PICK c \in Calls : /\ domains_pc[c] = "activate" /\ domains_asked[c].campaign = k
                             /\ c \notin domains_stale
                             /\ domains_campaign'[k].sender = domains_campaign[k].sender
      BY <1>2, <2>2
    <3>2. domains_campaign[k].sender = domains_asked[c].domain /\
            Sending!Sends(domains_asked[c].domain) /\ domains_asked[c].domain \in Domains
      BY <3>1 DEF ReadsHold, CallsAsk
    <3>3. domains_campaign'[k].sender # None
      BY <3>1, <3>2 DEF Sending!SendingDomainsAssumption
    <3> QED BY <1>1, <2>2, <3>1, <3>2, <3>3
  <2> QED BY <2>1, <2>2
<1> QED BY <1>3, <1>4

\* Every step keeps it.
LEMMA SendingIInvNext ==
  ASSUME Sending!SendingDomainsAssumption, SendingIInv, [Sending!Next]_(Sending!vars)
  PROVE  SendingIInv'
<1>1. CASE UNCHANGED Sending!vars
  BY <1>1 DEF Sending!vars, Sending!rowVars, Sending!callVars, Sending!history, SendingIInv,
     Sending!TypeOK, CallsAsk, RegistrationsHold, Sending!OwnIsRegistered, 
     ReadsHold, RowsHold, Sending!ManagedSends, Sending!ActiveHasDomain, Sending!Sends,
       Sending!There
<1>2. CASE Sending!Next
  <2>1. Sending!TypeOK' /\ CallsAsk' /\ RegistrationsHold' /\ ReadsHold'
    BY <1>2, SendingTypeNext, RegistrationsHoldNext, ReadsHoldNext DEF SendingIInv
  <2>2. RowsHold' /\ Sending!ManagedSends' /\ Sending!ActiveHasDomain'
    <3>1. CASE \E c \in Calls : Rewrites(c)
      BY <3>1, RowWrittenHolds
    <3>2. CASE \/ \E c \in Calls : Sending!CampaignCreate(c) \/ Sending!Activate(c)
               \/ \E k \in Campaigns : Sending!Kill(k)
      BY <3>2, CampaignWrittenHolds
    <3>3. CASE /\ \A c \in Calls :
                    ~Rewrites(c) /\ ~Sending!CampaignCreate(c) /\ ~Sending!Activate(c)
               /\ \A k \in Campaigns : ~Sending!Kill(k)
      BY <1>2, <3>3, RowsStay DEF SendingIInv, RowsHold, Sending!ManagedSends,
         Sending!ActiveHasDomain, Sending!Sends, Sending!There
    <3> QED BY <3>1, <3>2, <3>3
  <2> QED BY <2>1, <2>2 DEF SendingIInv
<1> QED BY <1>1, <1>2

\* No step removes or unverifies a domain that is in use.
LEMMA SendingSteps ==
  ASSUME Sending!SendingDomainsAssumption, SendingIInv, Sending!Next
  PROVE  Sending!DomainsStep
<1>1. CASE \E c \in Calls : Rewrites(c)
  BY <1>1, RowWrittenHolds DEF Sending!DomainsStep
<1>2. CASE \/ \E c \in Calls : Sending!CampaignCreate(c) \/ Sending!Activate(c)
           \/ \E k \in Campaigns : Sending!Kill(k)
  BY <1>2, CampaignWrittenHolds DEF Sending!DomainsStep
<1>3. CASE /\ \A c \in Calls : ~Rewrites(c) /\ ~Sending!CampaignCreate(c) /\ ~Sending!Activate(c)
           /\ \A k \in Campaigns : ~Sending!Kill(k)
  BY <1>3, RowsStay DEF Sending!DomainsStep, Sending!VerifiedSticks, Sending!DomainsInUseStay,
     Sending!Sends, Sending!There
<1> QED BY <1>1, <1>2, <1>3

\* There are no rows and no registrations.
LEMMA SendingIInvInit ==
  ASSUME Sending!SendingDomainsAssumption, Sending!Init
  PROVE  SendingIInv
<1>1. Sending!TypeOK
  <2>1. 0 \in 0 .. MaxRows
    BY DEF Sending!SendingDomainsAssumption
  <2>2. Sending!NoRow \in Sender /\ Sending!Unknown \in Registration /\ Sending!NoInput \in Asked
    BY <2>1 DEF Sending!NoRow, Sending!Unknown, Sending!NoInput, Sender, Registration, Asked,
       Sending!Statuses
  <2>3. domains_sender \in [Domains -> Sender] /\ domains_registry \in [Domains -> Registration] /\
          domains_asked \in [Calls -> Asked]
    BY <2>2 DEF Sending!Init
  <2>4. /\ domains_campaign \in [Campaigns -> Campaign] /\ domains_made \in [Domains -> Made]
        /\ domains_pc \in [Calls -> Sending!Steps] /\ domains_answer \in [Calls -> Sending!Statuses]
    BY <2>1 DEF Sending!Init, Campaign, Made, Sending!Steps, Sending!Statuses
  <2> QED BY <2>3, <2>4 DEF Sending!Init, Sending!TypeOK, Sender, Registration, Asked, Campaign,
      Made
<1>2. CallsAsk /\ ReadsHold /\ RowsHold /\ Sending!ManagedSends /\ Sending!ActiveHasDomain
  BY DEF Sending!Init, CallsAsk, ReadsHold, RowsHold, Sending!ManagedSends, Sending!ActiveHasDomain,
     Sending!NoRow
<1>3. RegistrationsHold
  BY DEF Sending!Init, RegistrationsHold, Sending!OwnIsRegistered, Sending!There, Sending!NoRow,
     Sending!Unknown, Sending!NoInput, Sending!SendingDomainsAssumption
<1> QED BY <1>1, <1>2, <1>3 DEF SendingIInv

\* What calls read of a sending domain is still so, unless they were overtaken.
THEOREM SendingInductive == AccountsSpec => [](focus = "domains" => SendingIInv)
<1> DEFINE I == focus = "domains" => SendingIInv
<1>1. AccountsInit => I
  BY AccountsAssumption, Begun, SendingIInvInit DEF AccountsAssumption
<1>2. I /\ [AccountsNext]_allVars => I'
  BY AccountsAssumption, Focused, SendingIInvNext DEF AccountsAssumption
<1> QED BY <1>1, <1>2, PTL DEF AccountsSpec

\* Managed domains send, a client's own is the provider's unless the call that made it died on the way, and
\* an active campaign sends from its verified domain unless something overtook its launch or the row.
THEOREM SendersKept == AccountsSpec => []SendersHold
<1>1. (focus = "domains" => SendingIInv) => SendersHold
  BY DEF SendersHold, SendingIInv, Sending!DomainsInv, RegistrationsHold
<1> QED BY <1>1, SendingInductive, PTL

\* A domain that could send stops only by its removal or an answer older than its verification, and a
\* campaign that still has to send loses its domain only to a removal that had counted before.
THEOREM SendersStayKept == AccountsSpec => SendersStay
<1>1. (focus = "domains" => SendingIInv) /\ [AccountsNext]_allVars => [focus = "domains" => Sending!DomainsStep]_allVars
  BY AccountsAssumption, StepsOfOne, SendingSteps DEF AccountsAssumption
<1> QED BY <1>1, SendingInductive, PTL DEF AccountsSpec, SendersStay
=============================================================================
