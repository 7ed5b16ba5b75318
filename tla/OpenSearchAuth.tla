--------------------------- MODULE OpenSearchAuth ---------------------------
(***************************************************************************)
(* With which credentials the OpenSearch server talks to a cluster: what   *)
(* the environment, the secret, the arguments of a call, its headers and   *)
(* the cluster file contribute, what the lock of the container takes away  *)
(* again, and which branch of _create_opensearch_client is taken.  The     *)
(* functions are pure; OpenSearchServer calls them.                        *)
(*                                                                         *)
(* Values stand for where they come from: a user name or a password is     *)
(* "env", "secret", "file", "call" or "header", or "" if there is none.    *)
(***************************************************************************)
EXTENDS Naturals, Functions

Absent == ""

\* What a call may give by itself: a value, or Absent when the argument is
\* there and blank (or false); and what its request headers may carry.
ArgFields == {"url", "username", "password", "no_auth", "iam_arn", "region"}
HeaderFields == {"url", "basic", "bearer", "aws_keys"}

\* The environment of single mode; held says whether the start-up took the
\* password from the secret.
FromEnvironment(d, held) ==
  [user |-> IF held THEN "secret" ELSE IF d.explicit # "none" THEN "env" ELSE Absent,
   password |-> IF held THEN "secret" ELSE IF d.explicit = "both" THEN "env" ELSE Absent,
   noAuth |-> d.noAuth, iam |-> d.iam, region |-> d.region, bearer |-> FALSE, awsKeys |-> FALSE,
   url |-> d.url]

\* One cluster of the file of multi mode.
FromFile(d) ==
  [user |-> "file", password |-> "file", noAuth |-> FALSE, iam |-> d.iam, region |-> d.region,
   bearer |-> FALSE, awsKeys |-> FALSE, url |-> TRUE]

Says(args, field) == field \in DOMAIN args /\ args[field] # Absent
Blanks(args, field) == field \in DOMAIN args /\ args[field] = Absent

\* Single mode lets every argument override its own field, a blank one too.
Overridden(p, args) ==
  LET now(field, before) == Says(args, field) \/ (before /\ ~Blanks(args, field))
  IN  [p EXCEPT !.user = IF "username" \in DOMAIN args THEN args["username"] ELSE @,
                !.password = IF "password" \in DOMAIN args THEN args["password"] ELSE @,
                !.noAuth = now("no_auth", @),
                !.iam = now("iam_arn", @),
                !.region = now("region", @),
                !.url = now("url", @)]

\* Headers override user and password together, or neither.
WithHeaders(p, headers) ==
  [p EXCEPT !.user = IF "basic" \in headers THEN "header" ELSE @,
            !.password = IF "basic" \in headers THEN "header" ELSE @,
            !.bearer = "bearer" \in headers,
            !.awsKeys = "aws_keys" \in headers,
            !.url = @ \/ "url" \in headers]

\* The headers that are looked at.
Heeded(d, headers) == IF d.headerAuth THEN headers ELSE {}

Parameters(d, held, args, headers) ==
  LET given == IF d.multi THEN FromFile(d) ELSE Overridden(FromEnvironment(d, held), args)
  IN  WithHeaders(given, Heeded(d, headers))

\* Mutant: the lock forgets what comes in the headers.
MutNeutralised(p) == [p EXCEPT !.iam = FALSE]

\* The lock of the container: the ways into IAM are cleared, no_auth is not.
Neutralised(p) == [p EXCEPT !.iam = FALSE, !.bearer = FALSE, !.awsKeys = FALSE]

\* The branches of _create_opensearch_client, in their order.
Branch(p, d) ==
  CASE ~p.url -> "error"
    [] p.url /\ p.noAuth -> "none"
    [] p.url /\ ~p.noAuth /\ p.bearer -> "bearer"
    [] p.url /\ ~p.noAuth /\ ~p.bearer /\ p.awsKeys /\ p.region -> "keys"
    [] OTHER ->
         IF p.iam THEN (IF p.region THEN "role" ELSE "error")
         ELSE IF p.user # Absent /\ p.password # Absent THEN "basic"
         ELSE IF p.region /\ d.session THEN "session" ELSE "error"

Branches == {"none", "bearer", "keys", "role", "basic", "session", "error"}
=============================================================================
