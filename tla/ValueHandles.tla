---------------------------- MODULE ValueHandles ----------------------------
(***************************************************************************)
(* Header, PointData and CopcHierarchyVlr: C++ variables that own a value  *)
(* in Rust through a handle.  Copies clone in Rust, moves hand the handle  *)
(* over.  A Header also keeps ptr_, which it reads through: it is the      *)
(* handle it owns, or one that belongs to a reader (Header::Borrowed).     *)
(* The other classes read through the handle they own.                     *)
(*                                                                         *)
(* Mutators are all alike here: Header::clear, add_point, add_point_data,  *)
(* remove_crs_vlrs and set_wkt_crs, PointData::resize_for, and a reader    *)
(* filling a PointData.  A call that Rust refuses is no step.              *)
(***************************************************************************)
EXTENDS Naturals, FiniteSets

CONSTANTS Variables, Contents,
          Handles  \* addresses of values in Rust

Null == "null"
Free == "free"

ASSUME HandleAssumption ==
  /\ Null \notin Handles
  /\ {Free, "absent"} \cap Contents = {}
  /\ "nobody" \notin Variables

VARIABLES object,  \* per variable its members, and whether it is alive
          heap,    \* per address the value there, or Free
          view     \* the address a span shows, or Null once that memory has changed

vars == <<object, heap, view>>

Dead == [live |-> FALSE, owned |-> Null, ptr |-> Null]
Object(owned, ptr) == [live |-> TRUE, owned |-> owned, ptr |-> ptr]
Borrowing(v) == object[v].owned = Null /\ object[v].ptr # Null

Init ==
  /\ object = [v \in Variables |-> Dead]
  /\ heap = [h \in Handles |-> Free]
  /\ view = Null

\* Writing to or freeing the memory at h spoils a view into it.
Spoil(h) == view' = IF view = h THEN Null ELSE view

-----------------------------------------------------------------------------
\* A constructor that calls into Rust, and a reader's header.
Create(v, content) ==
  \E h \in Handles :
    /\ ~object[v].live /\ heap[h] = Free
    /\ heap' = [heap EXCEPT ![h] = content]
    /\ object' = [object EXCEPT ![v] = Object(h, h)]
    /\ UNCHANGED view

Borrow(v, content) ==
  \E h \in Handles :
    /\ ~object[v].live /\ heap[h] = Free
    /\ heap' = [heap EXCEPT ![h] = content]
    /\ object' = [object EXCEPT ![v] = Object(Null, h)]
    /\ UNCHANGED view

Readable(w) == object[w].live /\ object[w].ptr # Null

CopyConstruct(v, w) ==
  \E h \in Handles :
    /\ ~object[v].live /\ Readable(w) /\ heap[h] = Free
    /\ heap' = [heap EXCEPT ![h] = heap[object[w].ptr]]
    /\ object' = [object EXCEPT ![v] = Object(h, h)]
    /\ UNCHANGED view

MoveConstruct(v, w) ==
  /\ ~object[v].live /\ object[w].live /\ ~Borrowing(w)
  /\ object' = [object EXCEPT ![v] = object[w], ![w] = Object(Null, Null)]
  /\ UNCHANGED <<heap, view>>

\* The handle the variable owned so far is freed once the new one is there.
Released(v) ==
  IF object[v].owned = Null THEN heap ELSE [heap EXCEPT ![object[v].owned] = Free]

CopyAssign_Shares(v, w) ==
  /\ object[v].live /\ Readable(w) /\ ~Borrowing(v) /\ v # w
  /\ heap' = Released(v)
  /\ object' = [object EXCEPT ![v] = Object(Null, object[w].ptr)]
  /\ Spoil(object[v].owned)

CopyAssign_Leaks(v, w) ==
  \E h \in Handles :
    /\ object[v].live /\ Readable(w) /\ ~Borrowing(v) /\ v # w
    /\ heap[h] = Free
    /\ heap' = [heap EXCEPT ![h] = heap[object[w].ptr]]
    /\ object' = [object EXCEPT ![v] = Object(h, h)]
    /\ UNCHANGED view

CopyAssign(v, w) ==
  \E h \in Handles :
    /\ object[v].live /\ Readable(w) /\ ~Borrowing(v) /\ v # w
    /\ heap[h] = Free
    /\ heap' = [Released(v) EXCEPT ![h] = heap[object[w].ptr]]
    /\ object' = [object EXCEPT ![v] = Object(h, h)]
    /\ Spoil(object[v].owned)

MoveAssign(v, w) ==
  /\ object[v].live /\ object[w].live /\ ~Borrowing(v) /\ ~Borrowing(w) /\ v # w
  /\ heap' = Released(v)
  /\ object' = [object EXCEPT ![v] = object[w], ![w] = Object(Null, Null)]
  /\ Spoil(object[v].owned)

\* A borrowed header goes with its reader, whose handle holds the value.
Destroy(v) ==
  /\ object[v].live
  /\ heap' = IF object[v].ptr = Null THEN heap ELSE [heap EXCEPT ![object[v].ptr] = Free]
  /\ object' = [object EXCEPT ![v] = Dead]
  /\ Spoil(object[v].ptr)

\* Mutators go through mut_ptr(), the owned handle, and readers cannot be
\* reached: header() is const.
Mutate(v, content) ==
  /\ object[v].owned # Null
  /\ heap' = [heap EXCEPT ![object[v].owned] = content]
  /\ Spoil(object[v].owned)
  /\ UNCHANGED object

View(v) ==
  /\ Readable(v)
  /\ view' = object[v].ptr
  /\ UNCHANGED <<object, heap>>

Next ==
  \E v, w \in Variables :
    \/ \E content \in Contents : Create(v, content) \/ Borrow(v, content) \/ Mutate(v, content)
    \/ CopyConstruct(v, w)
    \/ MoveConstruct(v, w)
    \/ CopyAssign(v, w)
    \/ MoveAssign(v, w)
    \/ Destroy(v)
    \/ View(v)

Spec == Init /\ [][Next]_vars

-----------------------------------------------------------------------------
(* Properties *)

\* The type of the state: what a variable owns it also reads through.
TypeOK ==
  /\ heap \in [Handles -> Contents \cup {Free}]
  /\ \A v \in Variables : object[v].owned \in {Null, object[v].ptr}
  /\ \A v \in Variables : object[v].ptr \in Handles \cup {Null}
  /\ view \in Handles \cup {Null}

\* Every value in Rust belongs to exactly one variable (a borrowed one to its
\* reader): nothing leaks, nothing is freed twice, and no variable reads freed
\* memory (header.hpp, point_data.hpp and types.hpp, copy and move).
OneOwnerEach ==
  \A h \in Handles :
    Cardinality({v \in Variables : object[v].ptr = h}) = IF heap[h] = Free THEN 0 ELSE 1

Value(v) ==
  IF ~object[v].live THEN "absent" ELSE IF object[v].ptr = Null THEN "moved" ELSE heap[object[v].ptr]

Viewed ==
  IF view # Null THEN CHOOSE v \in Variables : object[v].ptr = view ELSE "nobody"

Abstract == INSTANCE Values WITH
  value <- [v \in Variables |-> Value(v)],
  fixed <- {v \in Variables : Borrowing(v)},
  viewed <- Viewed

\* Handles behave as values: a variable changes only by an operation on it,
\* copies are deep and never shared with the reader they came from, and a view
\* survives every move of the value it shows and dies only with a change of it.
ImplementsValues == Abstract!Spec
=============================================================================
