---------------------------- MODULE MCEngagement ----------------------------
(* TLC instances of Engagement. *)
EXTENDS Engagement, TLC

Symmetry == Permutations(Sends) \cup Permutations(Calls) \cup Permutations(Modules)

\* What writes the marks of a send and what reads them; the training screens, the
\* moment page and completions are checked with Engagement in MCClients.
Tracking == {"click", "report", "forward", "submit", "rule", "metrics", "stamp"}

MarksNext ==
  \/ \E c \in Calls : Click(c) \/ Report(c) \/ Forward(c) \/ Submit(c) \/ CallDies(c)
  \/ \E m \in Modules \cup {None} : Route(m)
  \/ \E f \in Figures : ReadFigure(f)
  \/ NewReport
  \/ \E s \in Sends : Stamp(s)
  \/ Tick

MarksSpec == Init /\ [][MarksNext]_vars
=============================================================================
