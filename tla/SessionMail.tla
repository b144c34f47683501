---------------------------- MODULE SessionMail ----------------------------
(***************************************************************************)
(* What a retained session promises of a message                           *)
(* (docs/RETAINED_CHILD_SESSIONS.md, "Lifecycle and mailbox"): it is       *)
(* admitted once, its agent runs at most once, it ends at most once, and   *)
(* what ended stays as it ended until its session is disposed.  A message  *)
(* whose worker is fenced ends as outcome_unknown and never starts again.  *)
(*                                                                         *)
(* RetainedSessions implements this specification.                         *)
(***************************************************************************)
EXTENDS Naturals

CONSTANT Ids   \* the messages a root may admit

VARIABLES
  life,   \* where each message is
  runs    \* how often the agent was run on it

mailVars == <<life, runs>>

Endings == {"completed", "failed", "cancelled", "outcome_unknown"}
Lives == {"absent", "pending", "running", "removed"} \cup Endings

(* One step may move several messages: a fence ends every running one, a   *)
(* cancel or a spent budget every pending one, a disposal whole mailboxes. *)
Moves ==
  {<<"absent", "pending">>, <<"pending", "running">>, <<"pending", "cancelled">>}
    \cup ({"running"} \X Endings)
    \cup ((Lives \ {"absent"}) \X {"removed"})

MailInit ==
  /\ life = [m \in Ids |-> "absent"]
  /\ runs = [m \in Ids |-> 0]

(* Work is confirmed as completed only when the agent was run on it.       *)
Move ==
  /\ life' \in [Ids -> Lives]
  /\ \A m \in Ids : life'[m] # life[m] =>
       /\ <<life[m], life'[m]>> \in Moves
       /\ life'[m] = "completed" => runs[m] = 1
  /\ UNCHANGED runs

(* The claimant runs the agent, once.  It may be late: the message that it *)
(* claimed may meanwhile have been fenced, or disposed with its session.   *)
Run(m) ==
  /\ life[m] \in {"running", "outcome_unknown", "removed"}
  /\ runs[m] = 0
  /\ runs' = [runs EXCEPT ![m] = 1]
  /\ UNCHANGED life

MailNext == Move \/ \E m \in Ids : Run(m)

MailSpec == MailInit /\ [][MailNext]_mailVars
=============================================================================
