-------------------------- MODULE DeliveryContract --------------------------
(***************************************************************************)
(* What a campaign promises about its emails, with no queue, no worker and *)
(* no request: an email goes out only on a clearance given while the       *)
(* campaign was active and the recipient unsent, one clearance buys one    *)
(* email, and no email follows one that was recorded.  Only a recording    *)
(* that was lost lets the same recipient be emailed again.                 *)
(***************************************************************************)
EXTENDS Naturals

CONSTANTS Sends, Status

VARIABLES
  status,    \* the campaign's status
  rows,      \* each send: not materialised, unsent or recorded as sent
  cleared,   \* sends whose next email is allowed to go out
  mails,     \* emails that went out
  lost       \* emails that went out and will never be recorded

vars == <<status, rows, cleared, mails, lost>>

Init ==
  /\ status = "draft"
  /\ rows = [s \in Sends |-> "none"]
  /\ cleared = {}
  /\ mails = [s \in Sends |-> 0]
  /\ lost = [s \in Sends |-> 0]

InFlight(s) == rows[s] # "sent" /\ mails[s] = lost[s] + 1

Change ==
  /\ status' \in Status
  /\ UNCHANGED <<rows, cleared, mails, lost>>

\* A launch materialises sends nobody was emailed about.
Materialise(S) ==
  /\ \A s \in S : rows[s] = "none" /\ mails[s] = 0
  /\ rows' = [s \in Sends |-> IF s \in S THEN "pending" ELSE rows[s]]
  /\ UNCHANGED <<status, cleared, mails, lost>>

Clear(s) ==
  /\ status = "active"
  /\ rows[s] = "pending"
  /\ mails[s] = lost[s]
  /\ s \notin cleared
  /\ cleared' = cleared \cup {s}
  /\ UNCHANGED <<status, rows, mails, lost>>

\* The email goes out, known to the sender or not.
Send(s) ==
  /\ s \in cleared
  /\ cleared' = cleared \ {s}
  /\ mails' = [mails EXCEPT ![s] = @ + 1]
  /\ \/ UNCHANGED lost
     \/ lost' = [lost EXCEPT ![s] = @ + 1]
  /\ UNCHANGED <<status, rows>>

Revoke(s) ==
  /\ s \in cleared
  /\ cleared' = cleared \ {s}
  /\ UNCHANGED <<status, rows, mails, lost>>

Record(s) ==
  /\ rows[s] = "pending"
  /\ InFlight(s)
  /\ rows' = [rows EXCEPT ![s] = "sent"]
  /\ UNCHANGED <<status, cleared, mails, lost>>

Forget(s) ==
  /\ InFlight(s)
  /\ lost' = [lost EXCEPT ![s] = @ + 1]
  /\ UNCHANGED <<status, rows, cleared, mails>>

\* The recipient's records are deleted.
Withdraw(s) ==
  /\ rows' = [rows EXCEPT ![s] = "none"]
  /\ UNCHANGED <<status, cleared, mails, lost>>

Next ==
  \/ Change
  \/ \E S \in SUBSET Sends : Materialise(S)
  \/ \E s \in Sends : \/ Clear(s) \/ Send(s) \/ Revoke(s) \/ Record(s)
                      \/ Forget(s) \/ Withdraw(s)

Spec == Init /\ [][Next]_vars
=============================================================================
