----------------------------- MODULE Statements -----------------------------
(***************************************************************************)
(* What the scripts of the PostgreSQL and the MySQL tools are made of.  A  *)
(* statement asks q when its condition holds; catch are the classes of     *)
(* exceptions that the clauses around it take.                             *)
(***************************************************************************)

Ask(q) == [q |-> q, catch |-> {}, when |-> "always"]
AskIf(q, condition) == [q |-> q, catch |-> {}, when |-> condition]

\* conn = _connect(...)
Connect == Ask("connect")

Everything == {"Refused", "Lost", "Timeout", "UndefinedFunction", "InsufficientPrivilege", "ReadOnly",
               "FeatureNotSupported", "InternalError", "UndefinedTable", "NotInRecoveryState",
               "InFailedTransaction", "SyntaxError", "ObjectNotInPrerequisiteState", "UndefinedColumn"}

\* The same, whatever it raises.
Try(statement) == [statement EXCEPT !.catch = Everything]

Answered(answer) == answer \in {"yes", "no"}
=============================================================================
