-------------------------- MODULE ReflectionCache --------------------------
(***************************************************************************)
(* What spec.md promises of the reflection layer's objects (line 54 and   *)
(* line 57): there is at most one reflection object per underlying       *)
(* reference, so repeated queries for the same entry return the identical *)
(* object; objects are made lazily, and the cache only ever gains         *)
(* entries: one is never replaced, re-made or removed.                    *)
(***************************************************************************)
EXTENDS Naturals

CONSTANT Kinds    \* the classes of reflection object

VARIABLES
  objects, \* reference -> the kind of the object made for it
  made     \* reference -> how many objects were ever made for it; its
           \* domain is every reference a query can name

vars == <<objects, made>>

Init ==
  /\ objects = [r \in {} |-> CHOOSE k \in Kinds : TRUE]
  /\ \A r \in DOMAIN made : made[r] = 0

\* One query makes objects for some references that had none, one object
\* each, and keeps every object made before it unchanged.
Fill ==
  LET old == objects
      new == objects'
      added == DOMAIN new \ DOMAIN old
  IN  /\ DOMAIN old \subseteq DOMAIN new
      /\ DOMAIN new \subseteq DOMAIN made
      /\ \A r \in DOMAIN new : new[r] \in Kinds
      /\ \A r \in DOMAIN old : new[r] = old[r]
      /\ made' = [r \in DOMAIN made |->
                    IF r \in added THEN made[r] + 1 ELSE made[r]]

Next == Fill

Spec == Init /\ [][Next]_vars
=============================================================================
