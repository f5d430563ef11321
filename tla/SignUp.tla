------------------------------- MODULE SignUp -------------------------------
(* Whose an address is: self-serve sign-up (signup.service.ts) beside the    *)
(* accounts that staff and administrators create (staff-users.service.ts,    *)
(* tenants.service.ts).                                                      *)
(*                                                                           *)
(* A sign-up looks the address up among staff, then among all clients'       *)
(* accounts, then creates the workspace and last its administrator; each is  *)
(* a call of its own, and it may die in between.  Staff's addresses are      *)
(* unique, a client's accounts' are unique within the client; nothing else   *)
(* is enforced by the database.                                              *)
EXTENDS Integers, FiniteSets

CONSTANTS
  Emails,     \* addresses
  Workspaces, \* clients that can come to be
  Calls,      \* sign-ups that may be in progress at once
  None        \* nothing

\* A client that nobody signed up for has no address, but one of two other marks.
SignUpAssumption ==
  None \notin Emails \cup Workspaces /\ Emails \cap {"absent", "staff"} = {}

VARIABLES
  staff,   \* addresses of platform staff
  users,   \* console accounts: client and address
  tenants, \* clients there are, each with the address that signed up, or None
  pc, mail, workspace, \* sign-ups: next step, address, the client created
  abandoned, \* history: clients whose sign-up died before their administrator was there
  beaten     \* history: sign-ups whose address was taken after they had looked for it

vars == <<staff, users, tenants, pc, mail, workspace, abandoned, beaten>>
callVars == <<pc, mail, workspace>>

TypeOK ==
  /\ staff \subseteq Emails
  /\ users \subseteq Workspaces \X Emails
  /\ tenants \in [Workspaces -> Emails \cup {"absent", "staff"}]
  /\ pc \in [Calls -> {"idle", "clients", "create", "admin"}]
  /\ mail \in [Calls -> Emails \cup {None}]
  /\ workspace \in [Calls -> Workspaces \cup {None}]
  /\ abandoned \subseteq Workspaces /\ beaten \subseteq Calls

Init ==
  /\ staff = {} /\ users = {}
  /\ tenants = [w \in Workspaces |-> "absent"]
  /\ pc = [c \in Calls |-> "idle"]
  /\ mail = [c \in Calls |-> None]
  /\ workspace = [c \in Calls |-> None]
  /\ abandoned = {} /\ beaten = {}

There(w) == tenants[w] # "absent"
HasAccount(e) == \E w \in Workspaces : <<w, e>> \in users
LookedAtClients == {"create", "admin"}
LookedAtStaff == LookedAtClients \cup {"clients"}

\* The sign-ups of an address that has just been taken where they had looked.
Beaten(e, looked) == {d \in Calls : mail[d] = e /\ pc[d] \in looked}

-----------------------------------------------------------------------------
(* A definition named like the next one with a suffix is that definition with
   one mistake in it, to show which property notices. *)

Goes(c, step) == pc' = [pc EXCEPT ![c] = step]

CheckStaff(c) ==
  /\ pc[c] = "idle"
  /\ \E e \in Emails :
       /\ mail' = [mail EXCEPT ![c] = e]
       /\ Goes(c, IF e \in staff THEN "idle" ELSE "clients")
  /\ beaten' = beaten \ {c}
  /\ UNCHANGED <<staff, users, tenants, workspace, abandoned>>

CheckClientsThat(c, taken) ==
  /\ pc[c] = "clients"
  /\ Goes(c, IF taken THEN "idle" ELSE "create")
  /\ UNCHANGED <<staff, users, tenants, mail, workspace, abandoned, beaten>>
CheckNobody(c) == CheckClientsThat(c, FALSE)
CheckClients(c) == CheckClientsThat(c, HasAccount(mail[c]))

CreateTenant(c) ==
  /\ pc[c] = "create"
  /\ \E w \in Workspaces :
       /\ ~There(w)
       /\ tenants' = [tenants EXCEPT ![w] = mail[c]]
       /\ workspace' = [workspace EXCEPT ![c] = w]
  /\ Goes(c, "admin")
  /\ UNCHANGED <<staff, users, mail, abandoned, beaten>>

CreateAdmin(c) ==
  /\ pc[c] = "admin"
  /\ users' = users \cup {<<workspace[c], mail[c]>>}
  /\ beaten' = beaten \cup (Beaten(mail[c], LookedAtClients) \ {c})
  /\ Goes(c, "idle")
  /\ UNCHANGED <<staff, tenants, mail, workspace, abandoned>>

Dies(c) ==
  /\ pc[c] # "idle" /\ Goes(c, "idle")
  /\ abandoned' = IF pc[c] = "admin" THEN abandoned \cup {workspace[c]} ELSE abandoned
  /\ UNCHANGED <<staff, users, tenants, mail, workspace, beaten>>

\* StaffUsersService.create, TenantsService.create and createTenantUser.
CreateStaff ==
  /\ \E e \in Emails \ staff :
       staff' = staff \cup {e} /\ beaten' = beaten \cup Beaten(e, LookedAtStaff)
  /\ UNCHANGED <<users, tenants, callVars, abandoned>>

CreateClient ==
  /\ \E w \in Workspaces : ~There(w) /\ tenants' = [tenants EXCEPT ![w] = "staff"]
  /\ UNCHANGED <<staff, users, callVars, abandoned, beaten>>

CreateTenantUser ==
  /\ \E w \in Workspaces, e \in Emails :
       /\ There(w) /\ <<w, e>> \notin users
       /\ users' = users \cup {<<w, e>>}
       /\ beaten' = beaten \cup Beaten(e, LookedAtClients)
  /\ UNCHANGED <<staff, tenants, callVars, abandoned>>

Next ==
  \/ \E c \in Calls : \/ CheckStaff(c) \/ CheckClients(c) \/ CreateTenant(c)
                      \/ CreateAdmin(c) \/ Dies(c)
  \/ CreateStaff \/ CreateClient \/ CreateTenantUser

Spec == Init /\ [][Next]_vars

-----------------------------------------------------------------------------
(* Properties *)

\* "Email must be unique across staff and all client accounts": a sign-up adds
\* an account for an address that nobody else has, unless somebody took it
\* after the sign-up had looked.
SignsUpNewAddress ==
  \A c \in Calls \ beaten : pc[c] = "admin" /\ users' # users /\ pc'[c] = "idle" =>
    mail[c] \notin staff /\ ~HasAccount(mail[c])

\* A workspace that somebody signed up for has its administrator, or its
\* sign-up is about to add one, or has died on the way.
SignedUpHasAdmin ==
  \A w \in Workspaces : tenants[w] \in Emails =>
    \/ <<w, tenants[w]>> \in users \/ w \in abandoned
    \/ \E c \in Calls : pc[c] = "admin" /\ workspace[c] = w

SignUpInv == TypeOK /\ SignedUpHasAdmin
=============================================================================
