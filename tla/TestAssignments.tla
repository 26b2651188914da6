-------------------------- MODULE TestAssignments --------------------------
(***************************************************************************)
(* Test parameters and their assignments (src/np/testnode.cxx 233-320).   *)
(* A parameter_t is a named char* variable and the values its value       *)
(* string tokenises into; create_assignments() makes one assignment_t per *)
(* parameter of the node and of every ancestor, innermost first, each at  *)
(* index 0; apply() stores the indexed value in the variable, unapply()   *)
(* clears it, and bump() steps the vector like an odometer whose first    *)
(* digit turns fastest, clearing it and returning true after the last    *)
(* combination.  The driver runs the test once per combination: create,   *)
(* then apply, run, unapply and bump until bump returns true.             *)
(*                                                                         *)
(* A value string is a sequence of fields, the text between separators;   *)
(* an empty field is Empty.  A field's text is a model value.             *)
(***************************************************************************)
EXTENDS Integers, SequencesExt, Bags

CONSTANTS
  Chains,    \* the parameters of a test node and its ancestors, innermost first
  Vars,      \* the char* variables parameters assign
  Empty,     \* an empty field (two separators in a row)
  NoValue,   \* a variable holding the null pointer
  MaxRuns    \* bound on test runs per node

VARIABLES
  chain,     \* per node, innermost first, its parameters_ (constant)
  assigns,   \* the assignment vector: [param, idx] per assignment_t
  value,     \* variable -> the value it points to, or NoValue
  runs,      \* bag of the index vectors the test has run with
  phase      \* "idle", "ready", "applied", "ran", "done", or "ub"

vars == <<chain, assigns, value, runs, phase>>

\* parameter_t::parameter_t: the non-empty fields of the value string.
Values(p) == SelectSeq(p.fields, LAMBDA f : f # Empty)

\* create_assignments: every parameter from this node up to the root.
CreateAssignments(ch) ==
  LET ps == FlattenSeq(ch) IN [i \in DOMAIN ps |-> [param |-> ps[i], idx |-> 0]]

\* Fault variant: apply() indexes the value string's fields, not its tokens.
ApplyAllRawField(val, a) ==
  FoldLeft(LAMBDA v, x : [v EXCEPT ![x.param.var] = x.param.fields[x.idx + 1]], val, a)

\* assignment_t::apply for each assignment in order: values_[idx_].
ApplyAll(val, a) ==
  FoldLeft(LAMBDA v, x : [v EXCEPT ![x.param.var] = Values(x.param)[x.idx + 1]], val, a)

\* An assignment whose idx_ is past its parameter's values_.
OutOfRange(a) == \E i \in DOMAIN a : a[i].idx >= Len(Values(a[i].param))

IndexVector(a) == [i \in DOMAIN a |-> a[i].idx]

(***************************************************************************)
(* bump() from assignment i on: the first one whose incremented index is  *)
(* still inside its values stops the walk; every one it passes is reset   *)
(* to 0; running off the end clears the vector and returns true.          *)
(***************************************************************************)
\* Fault variant: an exhausted assignment is not reset (`i->idx_ = 0` left out).
RECURSIVE BumpFromNoReset(_, _)
BumpFromNoReset(a, i) ==
  IF i > Len(a) THEN [done |-> TRUE, a |-> << >>]
  ELSE IF a[i].idx + 1 < Len(Values(a[i].param))
       THEN [done |-> FALSE, a |-> [a EXCEPT ![i].idx = @ + 1]]
       ELSE BumpFromNoReset([a EXCEPT ![i].idx = @ + 1], i + 1)

\* Fault variant: the walk returns true at the first exhausted assignment.
BumpFromNoCarry(a, i) ==
  IF i > Len(a) THEN [done |-> TRUE, a |-> << >>]
  ELSE IF a[i].idx + 1 < Len(Values(a[i].param))
       THEN [done |-> FALSE, a |-> [a EXCEPT ![i].idx = @ + 1]]
       ELSE [done |-> TRUE, a |-> << >>]

\* Fault variant: running off the end neither clears nor returns true.
RECURSIVE BumpFromNoClear(_, _)
BumpFromNoClear(a, i) ==
  IF i > Len(a) THEN [done |-> FALSE, a |-> a]
  ELSE IF a[i].idx + 1 < Len(Values(a[i].param))
       THEN [done |-> FALSE, a |-> [a EXCEPT ![i].idx = @ + 1]]
       ELSE BumpFromNoClear([a EXCEPT ![i].idx = 0], i + 1)

RECURSIVE BumpFrom(_, _)
BumpFrom(a, i) ==
  IF i > Len(a) THEN [done |-> TRUE, a |-> << >>]
  ELSE IF a[i].idx + 1 < Len(Values(a[i].param))
       THEN [done |-> FALSE, a |-> [a EXCEPT ![i].idx = @ + 1]]
       ELSE BumpFrom([a EXCEPT ![i].idx = 0], i + 1)

-----------------------------------------------------------------------------
Init ==
  /\ chain \in Chains
  /\ assigns = << >>
  /\ value = [v \in Vars |-> NoValue]
  /\ runs = EmptyBag
  /\ phase = "idle"

\* The driver asks the test node for its assignments.
Create ==
  /\ phase = "idle"
  /\ assigns' = CreateAssignments(chain)
  /\ phase' = "ready"
  /\ UNCHANGED <<chain, value, runs>>

\* apply() on each assignment before the test runs; reading values_ past
\* its end is undefined behaviour, after which nothing is known.
Apply ==
  /\ phase = "ready" /\ BagCardinality(runs) < MaxRuns
  /\ IF OutOfRange(assigns)
     THEN /\ phase' = "ub"
          /\ UNCHANGED <<value, runs>>
     ELSE /\ value' = ApplyAll(value, assigns)
          /\ runs' = runs (+) SetToBag({IndexVector(assigns)})
          /\ phase' = "applied"
  /\ UNCHANGED <<chain, assigns>>

\* unapply() on each assignment after the test.
Unapply ==
  /\ phase = "applied"
  /\ value' = [v \in Vars |->
                 IF \E i \in DOMAIN assigns : assigns[i].param.var = v
                 THEN NoValue ELSE value[v]]
  /\ phase' = "ran"
  /\ UNCHANGED <<chain, assigns, runs>>

\* bump(): on to the next combination, or done with this node.
Bump ==
  /\ phase = "ran"
  /\ LET r == BumpFrom(assigns, 1) IN
     /\ assigns' = r.a
     /\ phase' = IF r.done THEN "done" ELSE "ready"
  /\ UNCHANGED <<chain, value, runs>>

Next == Create \/ Apply \/ Unapply \/ Bump

\* The driver is one sequential loop that keeps taking its next step.
Spec == Init /\ [][Next]_vars /\ WF_vars(Next)
-----------------------------------------------------------------------------
TypeOK ==
  /\ chain \in Chains
  /\ \A i \in DOMAIN assigns : assigns[i].idx \in Nat
  /\ value \in [Vars -> {NoValue} \cup UNION {Range(Values(p)) : p \in ToSet(FlattenSeq(chain))}]
  /\ IsABag(runs) /\ BagCardinality(runs) <= MaxRuns
  /\ phase \in {"idle", "ready", "applied", "ran", "done", "ub"}

\* Every index vector a test can be given: one value of each parameter.
Combinations(ch) ==
  LET ps == FlattenSeq(ch) IN
  {f \in [DOMAIN ps -> 0..MaxRuns] : \A i \in DOMAIN ps : f[i] < Len(Values(ps[i]))}

(***************************************************************************)
(* Whenever the driver is about to apply the assignments, every           *)
(* assignment's idx_ names one of its parameter's values, so apply()      *)
(* never reads values_ past its end.  Depends on create_assignments       *)
(* starting at 0 and on bump() incrementing and resetting indices.        *)
(***************************************************************************)
AssignmentsIndexValues == phase = "ready" => ~OutOfRange(assigns)

(***************************************************************************)
(* When bump() returns true the test has run with every combination of    *)
(* its own and its ancestors' parameter values exactly once: no          *)
(* combination is skipped by a carry that goes wrong, none repeated.      *)
(***************************************************************************)
EachCombinationOnce == phase = "done" => runs = SetToBag(Combinations(chain))

(***************************************************************************)
(* The driver's loop over a node's assignments ends: bump() eventually    *)
(* returns true, under the weak fairness of the single driver loop.       *)
(***************************************************************************)
IterationEnds == <>(phase = "done")
=============================================================================
