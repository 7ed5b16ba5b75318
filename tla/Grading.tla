------------------------------- MODULE Grading -------------------------------
(***************************************************************************)
(* What the inspection tools of the three servers share: how graded rows   *)
(* become a status and a slice of findings.                                *)
(*                                                                         *)
(* Grades stand for statuses and severities: 0 is "ok" or "info", 1 is     *)
(* "warning", 2 is "critical".  A row that a tool measures against its two *)
(* thresholds is the grade of that measure.                                *)
(***************************************************************************)
EXTENDS Orders, SequencesExt

CONSTANTS
  Shown,        \* slices of the findings: [:5], [:10] or [:15]
  MaxRows       \* bound on the rows a server has to offer

ASSUME ShownAssumption == Shown \in Nat \ {0} /\ MaxRows \in Nat

Grades == 0..2
None == -1

First(n, s) == SubSeq(s, 1, IF n < Len(s) THEN n ELSE Len(s))

\* Mutant: the first row is skipped.
MutFirstFew(s) == SubSeq(s, 2, IF Shown < Len(s) THEN Shown ELSE Len(s))

FirstFew(s) == First(Shown, s)

Some(g, s) == \E i \in DOMAIN s : s[i] = g

\* Mutant: the mildest row decides.
MutWorst(s) == IF Some(0, s) \/ s = <<>> THEN 0 ELSE IF Some(1, s) THEN 1 ELSE 2

\* The status that max() over the rows and two thresholds amount to.
Worst(s) == IF Some(2, s) THEN 2 ELSE IF Some(1, s) THEN 1 ELSE 0

All(g, s) == [i \in DOMAIN s |-> g]

Raised(s) == Picked(s, {i \in DOMAIN s : s[i] >= 1})

Verdict(status, findings) == [status |-> status, findings |-> findings]

\* What the tool would read is not there, or may not be read: the text says so.
Degraded == Verdict(1, <<>>)

\* A series of "if" statements, each raising the status and adding a finding.
Checks(s) == Verdict(Worst(s), Raised(s))

If(condition, grade) == IF condition THEN grade ELSE 0

\* A row that WHERE let through is worth a warning, or it is critical.
AtLeastWarning(s) == [i \in DOMAIN s |-> IF s[i] = 2 THEN 2 ELSE 1]

\* The order a statement's ORDER BY ... DESC gives.  Mutant: it lost its DESC.
MutDescending(s) == \A i, j \in DOMAIN s : i < j => s[i] <= s[j]

Descending(s) == \A i, j \in DOMAIN s : i < j => s[i] >= s[j]

Lists(S) == BoundedSeq(S, MaxRows)
=============================================================================
