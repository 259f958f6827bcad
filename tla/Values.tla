------------------------------- MODULE Values -------------------------------
(***************************************************************************)
(* What the copyable classes of the C++ API promise: docs/ARCHITECTURE.md  *)
(* calls Header and PointData RAII handles with deep copies.  A variable   *)
(* of such a class holds a value of its own, and a view into a value (a    *)
(* span, a string_view) stays good until that value is changed or goes     *)
(* away, wherever moves have carried it in the meantime.                   *)
(*                                                                         *)
(* This is the abstract specification of ValueHandles.                     *)
(***************************************************************************)
EXTENDS Naturals

CONSTANTS Variables,  \* C++ variables of one of the classes
          Contents    \* what a value can be

VARIABLES value,  \* per variable its content, Moved, or Absent before and after its life
          fixed,  \* the variables that are const: the headers of readers
          viewed  \* the variable whose value the view shows, or Nobody

vars == <<value, fixed, viewed>>

Absent == "absent"
Moved == "moved"
Nobody == "nobody"

Init ==
  /\ value = [v \in Variables |-> Absent]
  /\ fixed = {}
  /\ viewed = Nobody

HasValue(v) == value[v] \in Contents
Forget(v) == viewed' = IF viewed = v THEN Nobody ELSE viewed

Create(v, content, const) ==
  /\ value[v] = Absent
  /\ value' = [value EXCEPT ![v] = content]
  /\ fixed' = IF const THEN fixed \cup {v} ELSE fixed
  /\ UNCHANGED viewed

\* Construction from, or assignment of, another variable of the same class.
Copy(v, w) ==
  /\ HasValue(w) /\ v \notin fixed /\ v # w
  /\ value' = [value EXCEPT ![v] = value[w]]
  /\ Forget(v)
  /\ UNCHANGED fixed

Move(v, w) ==
  /\ value[w] # Absent /\ {v, w} \cap fixed = {} /\ v # w
  /\ value' = [value EXCEPT ![v] = value[w], ![w] = Moved]
  /\ viewed' = IF viewed = w THEN v ELSE IF viewed = v THEN Nobody ELSE viewed
  /\ UNCHANGED fixed

Mutate(v, content) ==
  /\ HasValue(v) /\ v \notin fixed
  /\ value' = [value EXCEPT ![v] = content]
  /\ Forget(v)
  /\ UNCHANGED fixed

Destroy(v) ==
  /\ value[v] # Absent
  /\ value' = [value EXCEPT ![v] = Absent]
  /\ fixed' = fixed \ {v}
  /\ Forget(v)

View(v) ==
  /\ HasValue(v)
  /\ viewed' = v
  /\ UNCHANGED <<value, fixed>>

Next ==
  \E v, w \in Variables :
    \/ \E content \in Contents : Mutate(v, content) \/ \E const \in BOOLEAN : Create(v, content, const)
    \/ Copy(v, w)
    \/ Move(v, w)
    \/ Destroy(v)
    \/ View(v)

Spec == Init /\ [][Next]_vars
=============================================================================
