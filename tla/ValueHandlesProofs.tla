------------------------- MODULE ValueHandlesProofs -------------------------
(***************************************************************************)
(* Proofs about ValueHandles, for any number of variables, of addresses    *)
(* and of contents.                                                        *)
(***************************************************************************)
EXTENDS ValueHandles, TLAPS, FiniteSetTheorems

-----------------------------------------------------------------------------
(* The inductive invariant *)

Objects == [live : BOOLEAN, owned : Handles \cup {Null}, ptr : Handles \cup {Null}]

Typed ==
  /\ object \in [Variables -> Objects]
  /\ heap \in [Handles -> Contents \cup {Free}]
  /\ view \in Handles \cup {Null}

\* A variable owns nothing but what it reads through, and nothing outside its life.
MembersAgree ==
  \A v \in Variables :
    /\ object[v].owned \in {Null, object[v].ptr}
    /\ ~object[v].live => object[v].ptr = Null

\* No two variables read through one address.
Unshared ==
  \A v, w \in Variables : object[v].ptr = object[w].ptr /\ object[v].ptr # Null => v = w

\* What a variable reads through is in use.
Backed == \A v \in Variables : object[v].ptr # Null => heap[object[v].ptr] # Free

\* What is in use is read through by some variable.
Reached == \A h \in Handles : heap[h] # Free => \E v \in Variables : object[v].ptr = h

\* A view that is still good shows the value of some variable.
ViewOK == view # Null => \E v \in Variables : object[v].ptr = view

Inv == Typed /\ MembersAgree /\ Unshared /\ Backed /\ Reached /\ ViewOK

-----------------------------------------------------------------------------
(* Three ways in which variables and addresses change together *)

\* Addresses, values and the marks for their absence are different things.
LEMMA Distinct ==
  /\ \A h \in Handles : h # Null
  /\ \A c \in Contents : c # Free /\ c # "absent"
BY HandleAssumption

\* A variable's members, put together and taken apart.
LEMMA ObjectTyped ==
  ASSUME NEW owned \in Handles \cup {Null}, NEW ptr \in Handles \cup {Null}
  PROVE  /\ Object(owned, ptr) \in Objects
         /\ Object(owned, ptr).owned = owned /\ Object(owned, ptr).ptr = ptr
         /\ Object(owned, ptr).live = TRUE
BY DEF Object, Objects

\* A destroyed variable has no members.
LEMMA DeadTyped ==
  /\ Dead \in Objects /\ Dead.owned = Null /\ Dead.ptr = Null /\ Dead.live = FALSE
BY DEF Dead, Objects

\* The members of a variable are addresses or null.
LEMMA MemberTyped ==
  ASSUME Typed, NEW v \in Variables
  PROVE  /\ object[v] \in Objects /\ object[v].ptr \in Handles \cup {Null}
         /\ object[v].owned \in Handles \cup {Null} /\ object[v].live \in BOOLEAN
BY DEF Typed, Objects

\* v comes to read through h, which was free, and what it read through is freed.
Placed(v, obj, h, content) ==
  /\ heap[h] = Free
  /\ obj.owned \in {Null, h} /\ obj.ptr = h /\ obj.live = TRUE /\ obj \in Objects
  /\ object' = [object EXCEPT ![v] = obj]
  /\ heap' = [g \in Handles |-> IF g = h THEN content
                                ELSE IF g = object[v].ptr THEN Free ELSE heap[g]]
  /\ view' = IF view = object[v].ptr THEN Null ELSE view

\* A value put at a fresh address for one variable.
LEMMA PlacedInv ==
  ASSUME Inv, NEW v \in Variables, NEW h \in Handles, NEW content \in Contents, NEW obj,
         Placed(v, obj, h, content)
  PROVE  Inv'
<1>1. Typed /\ MembersAgree /\ Unshared /\ Backed /\ Reached /\ ViewOK
  BY DEF Inv
<1>2. \A u \in Variables : object'[u] = IF u = v THEN obj ELSE object[u]
  BY <1>1 DEF Placed, Typed
<1>3. \A u \in Variables : object[u].ptr # h
  BY <1>1, Distinct DEF Backed, Placed
<1>4. obj.owned \in {Null, h} /\ obj.ptr = h /\ obj.live = TRUE /\ obj \in Objects
  BY DEF Placed
<1>5. \A g \in Handles : heap'[g] = IF g = h THEN content
                                    ELSE IF g = object[v].ptr THEN Free ELSE heap[g]
  BY DEF Placed
<1>6. Typed'
  <2>1. object' \in [Variables -> Objects]
    BY <1>1, <1>4 DEF Placed, Typed
  <2>2. heap' \in [Handles -> Contents \cup {Free}]
    BY <1>1 DEF Placed, Typed
  <2>3. view' \in Handles \cup {Null}
    BY <1>1 DEF Placed, Typed
  <2>4. QED
    BY <2>1, <2>2, <2>3 DEF Typed
<1>7. MembersAgree'
  BY <1>1, <1>2, <1>4 DEF MembersAgree
<1>8. Unshared'
  BY <1>1, <1>2, <1>3, <1>4 DEF Unshared
<1>9. Backed'
  <2>. SUFFICES ASSUME NEW u \in Variables, object'[u].ptr # Null PROVE heap'[object'[u].ptr] # Free
    BY DEF Backed
  <2>1. CASE u = v
    BY <1>2, <1>4, <1>5, <2>1, Distinct
  <2>2. CASE u # v
    <3>1. object'[u] = object[u] /\ object[u].ptr # Null /\ object[u].ptr # h
      BY <1>2, <1>3, <2>2
    <3>2. object[u].ptr # object[v].ptr
      BY <1>1, <2>2, <3>1 DEF Unshared
    <3>3. object[u].ptr \in Handles
      BY <1>1, <3>1, MemberTyped
    <3>4. heap'[object[u].ptr] = heap[object[u].ptr]
      BY <1>5, <3>1, <3>2, <3>3
    <3>5. QED
      BY <1>1, <3>1, <3>4 DEF Backed
  <2>3. QED
    BY <2>1, <2>2
<1>10. Reached'
  <2>. SUFFICES ASSUME NEW g \in Handles, heap'[g] # Free PROVE \E u \in Variables : object'[u].ptr = g
    BY DEF Reached
  <2>1. CASE g = h
    BY <1>2, <1>4, <2>1
  <2>2. CASE g # h
    <3>1. heap[g] # Free /\ g # object[v].ptr
      BY <1>5, <2>2
    <3>2. PICK u \in Variables : object[u].ptr = g
      BY <1>1, <3>1 DEF Reached
    <3>3. u # v
      BY <3>1, <3>2
    <3>4. QED
      BY <1>2, <3>2, <3>3
  <2>3. QED
    BY <2>1, <2>2
<1>11. ViewOK'
  <2>. SUFFICES ASSUME view' # Null PROVE \E u \in Variables : object'[u].ptr = view'
    BY DEF ViewOK
  <2>1. view' = view /\ view # object[v].ptr
    BY DEF Placed
  <2>2. PICK u \in Variables : object[u].ptr = view
    BY <1>1, <2>1 DEF ViewOK
  <2>3. QED
    BY <1>2, <2>1, <2>2
<1>12. QED
  BY <1>6, <1>7, <1>8, <1>9, <1>10, <1>11 DEF Inv

\* v comes to be what w was, w is moved from, and what v read through is freed.
Taken(v, w) ==
  /\ v # w /\ object[w].live
  /\ object' = [object EXCEPT ![v] = object[w], ![w] = Object(Null, Null)]
  /\ heap' = [g \in Handles |-> IF g = object[v].ptr THEN Free ELSE heap[g]]
  /\ view' = IF view = object[v].ptr THEN Null ELSE view

\* A value that changes hands leaves its former owner with nothing.
LEMMA TakenInv ==
  ASSUME Inv, NEW v \in Variables, NEW w \in Variables, Taken(v, w)
  PROVE  Inv'
<1>1. Typed /\ MembersAgree /\ Unshared /\ Backed /\ Reached /\ ViewOK
  BY DEF Inv
<1>2. \A u \in Variables : object'[u] = IF u = v THEN object[w]
                                        ELSE IF u = w THEN Object(Null, Null) ELSE object[u]
  BY <1>1 DEF Taken, Typed
<1>3. /\ Object(Null, Null) \in Objects /\ Object(Null, Null).owned = Null
      /\ Object(Null, Null).ptr = Null /\ Object(Null, Null).live = TRUE
  BY ObjectTyped
<1>4. \A g \in Handles : heap'[g] = IF g = object[v].ptr THEN Free ELSE heap[g]
  BY DEF Taken
<1>5. v # w
  BY DEF Taken
<1>6. Typed'
  <2>1. object' \in [Variables -> Objects]
    BY <1>1, <1>3 DEF Taken, Typed
  <2>2. heap' \in [Handles -> Contents \cup {Free}]
    BY <1>1 DEF Taken, Typed
  <2>3. view' \in Handles \cup {Null}
    BY <1>1 DEF Taken, Typed
  <2>4. QED
    BY <2>1, <2>2, <2>3 DEF Typed
<1>7. MembersAgree'
  BY <1>1, <1>2, <1>3 DEF MembersAgree
<1>8. Unshared'
  BY <1>1, <1>2, <1>3 DEF Unshared
<1>9. Backed'
  <2>. SUFFICES ASSUME NEW u \in Variables, object'[u].ptr # Null PROVE heap'[object'[u].ptr] # Free
    BY DEF Backed
  <2>1. PICK t \in Variables \ {v} : object'[u].ptr = object[t].ptr
    BY <1>2, <1>3, <1>5
  <2>2. object[t].ptr # object[v].ptr /\ object[t].ptr \in Handles
    BY <1>1, <2>1, MemberTyped DEF Unshared
  <2>3. QED
    BY <1>1, <1>4, <2>1, <2>2 DEF Backed
<1>10. \A t \in Variables \ {v} : object[t].ptr # Null => \E u \in Variables : object'[u].ptr = object[t].ptr
  BY <1>2
<1>11. Reached'
  <2>. SUFFICES ASSUME NEW g \in Handles, heap'[g] # Free PROVE \E u \in Variables : object'[u].ptr = g
    BY DEF Reached
  <2>1. heap[g] # Free /\ g # object[v].ptr
    BY <1>4
  <2>2. PICK t \in Variables : object[t].ptr = g
    BY <1>1, <2>1 DEF Reached
  <2>3. QED
    BY <1>10, <2>1, <2>2, Distinct
<1>12. ViewOK'
  <2>. SUFFICES ASSUME view' # Null PROVE \E u \in Variables : object'[u].ptr = view'
    BY DEF ViewOK
  <2>1. view' = view /\ view # object[v].ptr
    BY DEF Taken
  <2>2. PICK t \in Variables : object[t].ptr = view
    BY <1>1, <2>1 DEF ViewOK
  <2>3. QED
    BY <1>10, <2>1, <2>2
<1>13. QED
  BY <1>6, <1>7, <1>8, <1>9, <1>11, <1>12 DEF Inv

-----------------------------------------------------------------------------
(* The actions are of these kinds *)

\* A variable that is not alive, or that borrows nothing, owns what it reads through.
LEMMA OwnsWhatItReads ==
  ASSUME Inv, NEW v \in Variables, ~object[v].live \/ ~Borrowing(v)
  PROVE  object[v].owned = object[v].ptr
BY DEF Inv, MembersAgree, Borrowing

\* What a variable reads through is a value.
LEMMA ReadsContent ==
  ASSUME Inv, NEW w \in Variables, object[w].ptr # Null
  PROVE  object[w].ptr \in Handles /\ heap[object[w].ptr] \in Contents
<1>1. object[w].ptr \in Handles
  BY MemberTyped DEF Inv
<1>2. QED
  BY <1>1 DEF Inv, Typed, Backed

\* A constructor puts its value at a fresh address.
LEMMA CreatePlaces ==
  ASSUME Inv, NEW v \in Variables, NEW content \in Contents, NEW h \in Handles,
         NEW owned \in {Null, h}, ~object[v].live, heap[h] = Free,
         heap' = [heap EXCEPT ![h] = content],
         object' = [object EXCEPT ![v] = Object(owned, h)], view' = view
  PROVE  Placed(v, Object(owned, h), h, content)
<1>1. object[v].ptr = Null
  BY DEF Inv, MembersAgree
<1>2. \A g \in Handles : g # object[v].ptr
  BY <1>1, Distinct
<1>3. heap' = [g \in Handles |-> IF g = h THEN content ELSE IF g = object[v].ptr THEN Free ELSE heap[g]]
  BY <1>2 DEF Inv, Typed
<1>4. view' = IF view = object[v].ptr THEN Null ELSE view
  BY <1>1
<1>5. owned \in Handles \cup {Null} /\ h \in Handles \cup {Null}
  OBVIOUS
<1>6. QED
  BY <1>3, <1>4, <1>5, ObjectTyped DEF Placed

\* A copy assignment clones, then frees what was there.
LEMMA CopyAssignPlaces ==
  ASSUME Inv, NEW v \in Variables, NEW w \in Variables, CopyAssign(v, w)
  PROVE  \E h \in Handles : Placed(v, Object(h, h), h, heap[object[w].ptr])
<1>1. PICK h \in Handles :
         /\ heap[h] = Free
         /\ heap' = [Released(v) EXCEPT ![h] = heap[object[w].ptr]]
         /\ object' = [object EXCEPT ![v] = Object(h, h)]
         /\ Spoil(object[v].owned)
  BY DEF CopyAssign
<1>2. object[v].owned = object[v].ptr
  BY OwnsWhatItReads DEF CopyAssign
<1>3. Released(v) = [g \in Handles |-> IF g = object[v].ptr THEN Free ELSE heap[g]]
  <2>1. heap \in [Handles -> Contents \cup {Free}] /\ object[v].ptr \in Handles \cup {Null}
    BY MemberTyped DEF Inv, Typed
  <2>2. CASE object[v].ptr = Null
    BY <1>2, <2>1, <2>2, Distinct DEF Released
  <2>3. CASE object[v].ptr \in Handles
    BY <1>2, <2>1, <2>3, Distinct DEF Released
  <2>4. QED
    BY <2>1, <2>2, <2>3
<1>4. heap' = [g \in Handles |-> IF g = h THEN heap[object[w].ptr]
                                 ELSE IF g = object[v].ptr THEN Free ELSE heap[g]]
  BY <1>1, <1>3
<1>5. h \in Handles \cup {Null}
  OBVIOUS
<1>6. Placed(v, Object(h, h), h, heap[object[w].ptr])
  BY <1>1, <1>2, <1>4, <1>5, ObjectTyped DEF Placed, Spoil
<1>7. QED
  BY <1>6

\* A move takes the address and leaves null, also from itself.
LEMMA MoveTakes ==
  ASSUME Inv, NEW v \in Variables, NEW w \in Variables, MoveConstruct(v, w) \/ MoveAssign(v, w)
  PROVE  Taken(v, w)
<1>1. heap \in [Handles -> Contents \cup {Free}] /\ object[v].ptr \in Handles \cup {Null}
  BY MemberTyped DEF Inv, Typed
<1>2. v # w /\ object[w].live
      /\ object' = [object EXCEPT ![v] = object[w], ![w] = Object(Null, Null)]
  BY DEF MoveConstruct, MoveAssign
<1>3. object[v].owned = object[v].ptr
  BY OwnsWhatItReads DEF MoveConstruct, MoveAssign
<1>4. CASE MoveConstruct(v, w)
  <2>1. object[v].ptr = Null
    BY <1>4 DEF MoveConstruct, Inv, MembersAgree
  <2>2. heap' = [g \in Handles |-> IF g = object[v].ptr THEN Free ELSE heap[g]]
    BY <1>1, <1>4, <2>1, Distinct DEF MoveConstruct
  <2>3. QED
    BY <1>2, <1>4, <2>1, <2>2 DEF Taken, MoveConstruct
<1>5. CASE MoveAssign(v, w)
  <2>1. heap' = [g \in Handles |-> IF g = object[v].ptr THEN Free ELSE heap[g]]
    <3>1. CASE object[v].ptr = Null
      BY <1>1, <1>3, <1>5, <3>1, Distinct DEF MoveAssign, Released
    <3>2. CASE object[v].ptr \in Handles
      BY <1>1, <1>3, <1>5, <3>2, Distinct DEF MoveAssign, Released
    <3>3. QED
      BY <1>1, <3>1, <3>2
  <2>2. QED
    BY <1>2, <1>3, <1>5, <2>1 DEF Taken, MoveAssign, Spoil
<1>6. QED
  BY <1>4, <1>5

\* The end of a variable, in the same form.
LEMMA DestroyFrees ==
  ASSUME Inv, NEW v \in Variables, Destroy(v)
  PROVE  /\ heap' = [g \in Handles |-> IF g = object[v].ptr THEN Free ELSE heap[g]]
         /\ \A u \in Variables : object'[u] = IF u = v THEN Dead ELSE object[u]
         /\ object' \in [Variables -> Objects]
         /\ view' = IF view = object[v].ptr THEN Null ELSE view
<1>1. heap \in [Handles -> Contents \cup {Free}] /\ object[v].ptr \in Handles \cup {Null}
      /\ object \in [Variables -> Objects]
  BY MemberTyped DEF Inv, Typed
<1>2. heap' = [g \in Handles |-> IF g = object[v].ptr THEN Free ELSE heap[g]]
  <2>1. CASE object[v].ptr = Null
    BY <1>1, <2>1, Distinct DEF Destroy
  <2>2. CASE object[v].ptr \in Handles
    BY <1>1, <2>2, Distinct DEF Destroy
  <2>3. QED
    BY <1>1, <2>1, <2>2
<1>3. QED
  BY <1>1, <1>2, DeadTyped DEF Destroy, Spoil

\* A destructor frees what its variable owns, once.
LEMMA DestroyInv == ASSUME Inv, NEW v \in Variables, Destroy(v) PROVE Inv'
<1>1. Typed /\ MembersAgree /\ Unshared /\ Backed /\ Reached /\ ViewOK
  BY DEF Inv
<1>2. /\ heap' = [g \in Handles |-> IF g = object[v].ptr THEN Free ELSE heap[g]]
      /\ \A u \in Variables : object'[u] = IF u = v THEN Dead ELSE object[u]
      /\ object' \in [Variables -> Objects]
      /\ view' = IF view = object[v].ptr THEN Null ELSE view
  BY DestroyFrees
<1>3. Typed'
  BY <1>1, <1>2 DEF Typed
<1>4. MembersAgree' /\ Unshared'
  BY <1>1, <1>2, DeadTyped DEF MembersAgree, Unshared
<1>5. Backed'
  <2>. SUFFICES ASSUME NEW u \in Variables, object'[u].ptr # Null PROVE heap'[object'[u].ptr] # Free
    BY DEF Backed
  <2>1. u # v /\ object'[u] = object[u]
    BY <1>2, DeadTyped
  <2>2. object[u].ptr # object[v].ptr /\ object[u].ptr \in Handles
    BY <1>1, <2>1, MemberTyped DEF Unshared
  <2>3. QED
    BY <1>1, <1>2, <2>1, <2>2 DEF Backed
<1>6. Reached'
  BY <1>1, <1>2 DEF Reached
<1>7. ViewOK'
  BY <1>1, <1>2 DEF ViewOK
<1>8. QED
  BY <1>3, <1>4, <1>5, <1>6, <1>7 DEF Inv

\* A mutator writes through its own address and ends the views of it.
LEMMA MutateInv ==
  ASSUME Inv, NEW v \in Variables, NEW content \in Contents, Mutate(v, content)
  PROVE  Inv'
<1>1. Typed /\ MembersAgree /\ Unshared /\ Backed /\ Reached /\ ViewOK
  BY DEF Inv
<1>2. object' = object /\ object[v].owned # Null /\ object[v].owned = object[v].ptr
      /\ heap' = [heap EXCEPT ![object[v].ptr] = content]
      /\ view' = (IF view = object[v].ptr THEN Null ELSE view)
  BY <1>1 DEF Mutate, MembersAgree, Spoil
<1>3. object[v].ptr \in Handles
  BY <1>1, <1>2, MemberTyped
<1>4. \A g \in Handles : heap'[g] # Free <=> heap[g] # Free
  BY <1>1, <1>2, <1>3, Distinct DEF Typed, Backed
<1>5. Typed'
  BY <1>1, <1>2 DEF Typed
<1>6. Backed'
  <2>. SUFFICES ASSUME NEW u \in Variables, object[u].ptr # Null PROVE heap'[object[u].ptr] # Free
    BY <1>2 DEF Backed
  <2>1. object[u].ptr \in Handles
    BY <1>1, MemberTyped
  <2>2. QED
    BY <1>1, <1>4, <2>1 DEF Backed
<1>7. Reached'
  BY <1>1, <1>2, <1>4 DEF Reached
<1>8. MembersAgree' /\ Unshared' /\ ViewOK'
  BY <1>1, <1>2 DEF MembersAgree, Unshared, ViewOK
<1>9. QED
  BY <1>5, <1>6, <1>7, <1>8 DEF Inv

\* At first there are no variables alive and no values.
LEMMA InitInv == Init => Inv
<1>. SUFFICES ASSUME Init PROVE Inv
  OBVIOUS
<1>1. \A v \in Variables : object[v] = Dead
  BY DEF Init
<1>2. Typed
  BY DeadTyped DEF Init, Typed
<1>3. QED
  BY <1>1, <1>2, DeadTyped DEF Init, Inv, MembersAgree, Unshared, Backed, Reached, ViewOK

\* The four ways to give a variable a value of its own, or a reader's.
LEMMA AllPlace ==
  ASSUME Inv, NEW v \in Variables, NEW w \in Variables
  PROVE  /\ \A content \in Contents :
              Create(v, content) => \E h \in Handles : Placed(v, Object(h, h), h, content)
         /\ \A content \in Contents :
              Borrow(v, content) => \E h \in Handles : Placed(v, Object(Null, h), h, content)
         /\ CopyConstruct(v, w) \/ CopyAssign(v, w) =>
              /\ object[w].ptr \in Handles /\ heap[object[w].ptr] \in Contents
              /\ \E h \in Handles : Placed(v, Object(h, h), h, heap[object[w].ptr])
<1>1. ASSUME NEW content \in Contents, Create(v, content)
      PROVE  \E h \in Handles : Placed(v, Object(h, h), h, content)
  BY <1>1, CreatePlaces DEF Create
<1>2. ASSUME NEW content \in Contents, Borrow(v, content)
      PROVE  \E h \in Handles : Placed(v, Object(Null, h), h, content)
  BY <1>2, CreatePlaces DEF Borrow
<1>3. ASSUME CopyConstruct(v, w) \/ CopyAssign(v, w)
      PROVE  object[w].ptr \in Handles /\ heap[object[w].ptr] \in Contents
  <2>1. object[w].ptr # Null
    BY <1>3 DEF CopyConstruct, CopyAssign, Readable
  <2>2. QED
    BY <2>1, ReadsContent
<1>4. ASSUME CopyConstruct(v, w)
      PROVE  \E h \in Handles : Placed(v, Object(h, h), h, heap[object[w].ptr])
  <2>1. heap[object[w].ptr] \in Contents
    BY <1>3, <1>4
  <2>2. QED
    BY <1>4, <2>1, CreatePlaces DEF CopyConstruct
<1>5. QED
  BY <1>1, <1>2, <1>3, <1>4, CopyAssignPlaces

\* Every special member function keeps the invariant.
LEMMA NextInv == Inv /\ [Next]_vars => Inv'
<1>. SUFFICES ASSUME Inv, [Next]_vars PROVE Inv'
  OBVIOUS
<1>1. ASSUME NEW v \in Variables, NEW w \in Variables,
             \/ \E content \in Contents :
                  Create(v, content) \/ Borrow(v, content) \/ Mutate(v, content)
             \/ CopyConstruct(v, w) \/ MoveConstruct(v, w) \/ CopyAssign(v, w)
             \/ MoveAssign(v, w) \/ Destroy(v) \/ View(v)
      PROVE  Inv'
  <2>1. CASE \E content \in Contents : Create(v, content) \/ Borrow(v, content)
    BY <2>1, AllPlace, PlacedInv
  <2>2. CASE \E content \in Contents : Mutate(v, content)
    BY <2>2, MutateInv
  <2>3. CASE CopyConstruct(v, w) \/ CopyAssign(v, w)
    BY <2>3, AllPlace, PlacedInv
  <2>4. CASE MoveConstruct(v, w) \/ MoveAssign(v, w)
    BY <2>4, MoveTakes, TakenInv
  <2>5. CASE Destroy(v)
    BY <2>5, DestroyInv
  <2>6. CASE View(v)
    <3>1. object' = object /\ heap' = heap /\ view' = object[v].ptr
      BY <2>6 DEF View
    <3>2. object[v].ptr \in Handles \cup {Null}
      BY MemberTyped DEF Inv
    <3>3. QED
      BY <3>1, <3>2 DEF Inv, Typed, MembersAgree, Unshared, Backed, Reached, ViewOK
  <2>7. QED
    BY <1>1, <2>1, <2>2, <2>3, <2>4, <2>5, <2>6
<1>2. CASE UNCHANGED vars
  BY <1>2 DEF vars, Inv, Typed, MembersAgree, Unshared, Backed, Reached, ViewOK
<1>3. QED
  BY <1>1, <1>2 DEF Next

-----------------------------------------------------------------------------
(* Theorems *)

\* In every reachable state a variable owns what it reads through or nothing,
\* no address is shared, an address is in use just when a variable reads
\* through it, and a good view shows the value of a variable.
THEOREM Invariance == Spec => []Inv
<1>1. Init => Inv
  BY InitInv
<1>2. Inv /\ [Next]_vars => Inv'
  BY NextInv
<1>3. QED
  BY <1>1, <1>2, PTL DEF Spec

\* Addresses in use and variables that read through them are paired.
LEMMA InvOneOwner == Inv => OneOwnerEach
<1>. SUFFICES ASSUME Inv, NEW h \in Handles
              PROVE  Cardinality({v \in Variables : object[v].ptr = h}) = IF heap[h] = Free THEN 0 ELSE 1
  BY DEF OneOwnerEach
<1>. DEFINE S == {v \in Variables : object[v].ptr = h}
<1>1. CASE heap[h] = Free
  <2>1. S = {}
    BY <1>1, Distinct DEF Inv, Backed
  <2>2. QED
    BY <1>1, <2>1, FS_EmptySet
<1>2. CASE heap[h] # Free
  <2>1. PICK v \in Variables : object[v].ptr = h
    BY <1>2 DEF Inv, Reached
  <2>2. S = {v}
    BY <2>1, Distinct DEF Inv, Unshared
  <2>3. Cardinality({v}) = 1
    BY FS_Singleton
  <2>4. QED
    BY <1>2, <2>2, <2>3
<1>3. QED
  BY <1>1, <1>2

\* Every value in Rust belongs to exactly one variable of the C++ side: no copy,
\* move, assignment or destruction leaks one, shares one or frees one twice.
THEOREM EveryValueHasOneOwner == Spec => []OneOwnerEach
<1>1. QED
  BY Invariance, InvOneOwner, PTL

-----------------------------------------------------------------------------
(* Refinement: ValueHandles implements Values *)

ValueMap == [v \in Variables |-> Value(v)]
Fixed == {v \in Variables : Borrowing(v)}

\* The variable a good view shows is the one that reads through its address.
LEMMA ChosenVariable ==
  ASSUME NEW obj, NEW h, NEW v \in Variables, obj[v].ptr = h, h # Null,
         \A a, b \in Variables : obj[a].ptr = obj[b].ptr /\ obj[a].ptr # Null => a = b
  PROVE  (CHOOSE u \in Variables : obj[u].ptr = h) = v
OBVIOUS

\* A good view is of the one variable that reads through its address.
LEMMA ViewedIs ==
  ASSUME Inv
  PROVE  /\ view = Null => Viewed = "nobody"
         /\ \A v \in Variables : view # Null /\ object[v].ptr = view => Viewed = v
BY ChosenVariable DEF Inv, Unshared, Viewed

\* The same in the next state.
LEMMA ViewedIsNext ==
  ASSUME Inv'
  PROVE  /\ view' = Null => Viewed' = "nobody"
         /\ \A v \in Variables : view' # Null /\ object'[v].ptr = view' => Viewed' = v
BY ChosenVariable DEF Inv, Unshared, Viewed

\* Where one variable's value is exchanged for another, the others keep theirs.
LEMMA PlacedMaps ==
  ASSUME Inv, NEW v \in Variables, NEW h \in Handles, NEW content \in Contents, NEW obj,
         Placed(v, obj, h, content)
  PROVE  /\ ValueMap' = [ValueMap EXCEPT ![v] = content]
         /\ Fixed' = IF obj.owned = Null THEN Fixed \cup {v} ELSE Fixed \ {v}
         /\ Viewed' = IF Viewed = v THEN "nobody" ELSE Viewed
<1>1. Typed /\ MembersAgree /\ Unshared /\ Backed /\ Reached /\ ViewOK /\ Inv'
  BY PlacedInv DEF Inv
<1>2. \A u \in Variables : object'[u] = IF u = v THEN obj ELSE object[u]
  BY <1>1 DEF Placed, Typed
<1>3. obj.ptr = h /\ obj.live = TRUE /\ h # Null
  BY Distinct DEF Placed
<1>4. \A g \in Handles : heap'[g] = IF g = h THEN content
                                    ELSE IF g = object[v].ptr THEN Free ELSE heap[g]
  BY DEF Placed
<1>5. Value(v)' = content
  BY <1>2, <1>3, <1>4 DEF Value
<1>6. ASSUME NEW u \in Variables, u # v PROVE Value(u)' = Value(u)
  <2>1. object'[u] = object[u]
    BY <1>2, <1>6
  <2>2. CASE object[u].ptr = Null
    BY <2>1, <2>2 DEF Value
  <2>3. CASE object[u].ptr # Null
    <3>1. object[u].ptr \in Handles /\ object[u].ptr # h /\ object[u].ptr # object[v].ptr
      BY <1>1, <1>6, <2>3, MemberTyped DEF Unshared, Backed, Placed
    <3>2. heap'[object[u].ptr] = heap[object[u].ptr]
      BY <1>4, <3>1
    <3>3. QED
      BY <2>1, <3>2 DEF Value
  <2>4. QED
    BY <2>2, <2>3
<1>7. ValueMap' = [ValueMap EXCEPT ![v] = content]
  BY <1>5, <1>6 DEF ValueMap
<1>8. Fixed' = IF obj.owned = Null THEN Fixed \cup {v} ELSE Fixed \ {v}
  <2>1. Borrowing(v)' <=> obj.owned = Null
    BY <1>2, <1>3 DEF Borrowing
  <2>2. \A u \in Variables : u # v => (Borrowing(u)' <=> Borrowing(u))
    BY <1>2 DEF Borrowing
  <2>3. QED
    BY <2>1, <2>2 DEF Fixed
<1>9. Viewed' = IF Viewed = v THEN "nobody" ELSE Viewed
  <2>1. CASE view = Null
    <3>1. view' = Null
      BY <2>1 DEF Placed
    <3>2. QED
      BY <1>1, <2>1, <3>1, ViewedIs, ViewedIsNext
  <2>2. CASE view # Null
    <3>1. PICK u \in Variables : object[u].ptr = view
      BY <1>1, <2>2 DEF ViewOK
    <3>2. Viewed = u
      BY <2>2, <3>1, ViewedIs
    <3>3. CASE u = v
      <4>1. view' = Null
        BY <3>1, <3>3 DEF Placed
      <4>2. QED
        BY <1>1, <3>2, <3>3, <4>1, ViewedIsNext
    <3>4. CASE u # v
      <4>1. object'[u] = object[u] /\ view' = view
        BY <1>1, <1>2, <2>2, <3>1, <3>4 DEF Placed, Unshared
      <4>2. Viewed' = u
        BY <1>1, <2>2, <3>1, <4>1, ViewedIsNext
      <4>3. QED
        BY <3>2, <3>4, <4>2
    <3>5. QED
      BY <3>3, <3>4
  <2>3. QED
    BY <2>1, <2>2
<1>10. QED
  BY <1>7, <1>8, <1>9

\* In terms of values a move is a move.
LEMMA TakenMaps ==
  ASSUME Inv, NEW v \in Variables, NEW w \in Variables, Taken(v, w)
  PROVE  /\ ValueMap' = [ValueMap EXCEPT ![v] = Value(w), ![w] = "moved"]
         /\ Viewed' = IF Viewed = w THEN v ELSE IF Viewed = v THEN "nobody" ELSE Viewed
         /\ ~Borrowing(v) /\ ~Borrowing(w) => Fixed' = Fixed
<1>1. Typed /\ MembersAgree /\ Unshared /\ Backed /\ Reached /\ ViewOK /\ Inv'
  BY TakenInv DEF Inv
<1>2. \A u \in Variables : object'[u] = IF u = v THEN object[w]
                                        ELSE IF u = w THEN Object(Null, Null) ELSE object[u]
  BY <1>1 DEF Taken, Typed
<1>3. /\ Object(Null, Null).owned = Null /\ Object(Null, Null).ptr = Null
      /\ Object(Null, Null).live = TRUE /\ v # w
  BY ObjectTyped DEF Taken
<1>4. \A g \in Handles : heap'[g] = IF g = object[v].ptr THEN Free ELSE heap[g]
  BY DEF Taken
<1>5. \A t \in Variables : t # v /\ object[t].ptr # Null => heap'[object[t].ptr] = heap[object[t].ptr]
  <2>. SUFFICES ASSUME NEW t \in Variables, t # v, object[t].ptr # Null
                PROVE  heap'[object[t].ptr] = heap[object[t].ptr]
    OBVIOUS
  <2>1. object[t].ptr \in Handles /\ object[t].ptr # object[v].ptr
    BY <1>1, MemberTyped DEF Unshared
  <2>2. QED
    BY <1>4, <2>1
<1>6. Value(v)' = Value(w)
  BY <1>2, <1>3, <1>5 DEF Value
<1>7. Value(w)' = "moved"
  BY <1>2, <1>3 DEF Value
<1>8. \A u \in Variables : u # v /\ u # w => Value(u)' = Value(u)
  BY <1>2, <1>5 DEF Value
<1>9. ValueMap' = [ValueMap EXCEPT ![v] = Value(w), ![w] = "moved"]
  BY <1>3, <1>6, <1>7, <1>8 DEF ValueMap
<1>10. ~Borrowing(v) /\ ~Borrowing(w) => Fixed' = Fixed
  BY <1>2, <1>3 DEF Borrowing, Fixed
<1>11. Viewed' = IF Viewed = w THEN v ELSE IF Viewed = v THEN "nobody" ELSE Viewed
  <2>1. CASE view = Null
    <3>1. view' = Null
      BY <2>1 DEF Taken
    <3>2. Viewed = "nobody" /\ Viewed' = "nobody"
      BY <1>1, <2>1, <3>1, ViewedIs, ViewedIsNext
    <3>3. QED
      BY <3>2, HandleAssumption
  <2>2. CASE view # Null
    <3>1. PICK u \in Variables : object[u].ptr = view
      BY <1>1, <2>2 DEF ViewOK
    <3>2. Viewed = u
      BY <2>2, <3>1, ViewedIs
    <3>3. CASE u = v
      <4>1. view' = Null
        BY <3>1, <3>3 DEF Taken
      <4>2. QED
        BY <1>1, <1>3, <3>2, <3>3, <4>1, ViewedIsNext
    <3>4. CASE u = w
      <4>1. object'[v] = object[w] /\ view' = view
        BY <1>1, <1>2, <1>3, <2>2, <3>1, <3>4 DEF Taken, Unshared
      <4>2. Viewed' = v
        BY <1>1, <2>2, <3>1, <3>4, <4>1, ViewedIsNext
      <4>3. QED
        BY <3>2, <3>4, <4>2
    <3>5. CASE u # v /\ u # w
      <4>1. object'[u] = object[u] /\ view' = view
        BY <1>1, <1>2, <2>2, <3>1, <3>5 DEF Taken, Unshared
      <4>2. Viewed' = u
        BY <1>1, <2>2, <3>1, <4>1, ViewedIsNext
      <4>3. QED
        BY <3>2, <3>5, <4>2
    <3>6. QED
      BY <3>3, <3>4, <3>5
  <2>3. QED
    BY <2>1, <2>2
<1>12. QED
  BY <1>9, <1>10, <1>11

\* A view forgets the variable whose value is changed or ends, and no other.
LEMMA SpoiledView ==
  ASSUME Inv, Inv', NEW v \in Variables, object[v].ptr # Null \/ view # Null,
         view' = IF view = object[v].ptr THEN Null ELSE view,
         \A u \in Variables : u # v => object'[u] = object[u]
  PROVE  Viewed' = IF Viewed = v THEN "nobody" ELSE Viewed
<1>1. CASE view = Null
  <2>1. view' = Null
    BY <1>1
  <2>2. QED
    BY <1>1, <2>1, ViewedIs, ViewedIsNext
<1>2. CASE view # Null
  <2>1. PICK u \in Variables : object[u].ptr = view
    BY <1>2 DEF Inv, ViewOK
  <2>2. Viewed = u
    BY <1>2, <2>1, ViewedIs
  <2>3. CASE u = v
    BY <2>1, <2>2, <2>3, ViewedIsNext
  <2>4. CASE u # v
    <3>1. view' = view /\ object'[u] = object[u]
      BY <1>2, <2>1, <2>4 DEF Inv, Unshared
    <3>2. QED
      BY <1>2, <2>1, <2>2, <2>4, <3>1, ViewedIsNext
  <2>5. QED
    BY <2>3, <2>4
<1>3. QED
  BY <1>1, <1>2

\* In terms of values a destruction forgets one.
LEMMA DestroyMaps ==
  ASSUME Inv, NEW v \in Variables, Destroy(v)
  PROVE  /\ ValueMap' = [ValueMap EXCEPT ![v] = "absent"]
         /\ Fixed' = Fixed \ {v}
         /\ Viewed' = IF Viewed = v THEN "nobody" ELSE Viewed
<1>1. Inv' /\ Typed /\ Unshared
  BY DestroyInv DEF Inv
<1>2. /\ heap' = [g \in Handles |-> IF g = object[v].ptr THEN Free ELSE heap[g]]
      /\ \A u \in Variables : object'[u] = IF u = v THEN Dead ELSE object[u]
      /\ view' = IF view = object[v].ptr THEN Null ELSE view
  BY DestroyFrees
<1>3. Value(v)' = "absent"
  BY <1>2, DeadTyped DEF Value
<1>4. ASSUME NEW u \in Variables, u # v PROVE Value(u)' = Value(u)
  <2>1. object'[u] = object[u]
    BY <1>2, <1>4
  <2>2. CASE object[u].ptr = Null
    BY <2>1, <2>2 DEF Value
  <2>3. CASE object[u].ptr # Null
    <3>1. object[u].ptr \in Handles /\ object[u].ptr # object[v].ptr
      BY <1>1, <1>4, <2>3, MemberTyped DEF Unshared
    <3>2. QED
      BY <1>2, <2>1, <3>1 DEF Value
  <2>4. QED
    BY <2>2, <2>3
<1>5. ValueMap' = [ValueMap EXCEPT ![v] = "absent"]
  BY <1>3, <1>4 DEF ValueMap
<1>6. Fixed' = Fixed \ {v}
  BY <1>2, DeadTyped DEF Borrowing, Fixed
<1>7. CASE object[v].ptr = Null /\ view = Null
  BY <1>1, <1>2, <1>5, <1>6, <1>7, ViewedIs, ViewedIsNext
<1>8. CASE object[v].ptr # Null \/ view # Null
  BY <1>1, <1>2, <1>5, <1>6, <1>8, SpoiledView
<1>9. QED
  BY <1>7, <1>8

\* In terms of values a mutation changes one variable.
LEMMA MutateMaps ==
  ASSUME Inv, NEW v \in Variables, NEW content \in Contents, Mutate(v, content)
  PROVE  /\ Value(v) \in Contents /\ ~Borrowing(v)
         /\ ValueMap' = [ValueMap EXCEPT ![v] = content]
         /\ Fixed' = Fixed
         /\ Viewed' = IF Viewed = v THEN "nobody" ELSE Viewed
<1>1. Inv' /\ Typed /\ MembersAgree /\ Unshared
  BY MutateInv DEF Inv
<1>2. /\ object' = object /\ object[v].owned # Null /\ object[v].owned = object[v].ptr
      /\ object[v].ptr # Null
      /\ heap' = [heap EXCEPT ![object[v].ptr] = content]
      /\ view' = (IF view = object[v].ptr THEN Null ELSE view)
  <2>1. object[v].owned # Null /\ object[v].owned = object[v].ptr
    BY <1>1 DEF Mutate, MembersAgree
  <2>2. QED
    BY <2>1 DEF Mutate, Spoil
<1>3. object[v].ptr \in Handles /\ heap[object[v].ptr] \in Contents /\ object[v].live
  BY <1>1, <1>2, ReadsContent DEF MembersAgree
<1>4. Value(v) \in Contents /\ ~Borrowing(v)
  BY <1>2, <1>3 DEF Value, Borrowing
<1>5. \A g \in Handles : heap'[g] = IF g = object[v].ptr THEN content ELSE heap[g]
  BY <1>1, <1>2 DEF Typed
<1>6. Value(v)' = content
  BY <1>2, <1>3, <1>5 DEF Value
<1>7. ASSUME NEW u \in Variables, u # v PROVE Value(u)' = Value(u)
  <2>1. CASE object[u].ptr = Null
    BY <1>2, <2>1 DEF Value
  <2>2. CASE object[u].ptr # Null
    <3>1. object[u].ptr \in Handles /\ object[u].ptr # object[v].ptr
      BY <1>1, <1>7, <2>2, MemberTyped DEF Unshared
    <3>2. QED
      BY <1>2, <1>5, <3>1 DEF Value
  <2>3. QED
    BY <2>1, <2>2
<1>8. ValueMap' = [ValueMap EXCEPT ![v] = content]
  BY <1>6, <1>7 DEF ValueMap
<1>9. Fixed' = Fixed
  BY <1>2 DEF Fixed, Borrowing
<1>10. Viewed' = IF Viewed = v THEN "nobody" ELSE Viewed
  BY <1>1, <1>2, SpoiledView
<1>11. QED
  BY <1>4, <1>8, <1>9, <1>10

-----------------------------------------------------------------------------
(* Every step is a step of Values *)

\* A variable that is alive shows a value, or that it was moved from.
LEMMA AliveHasValue ==
  ASSUME Inv, NEW w \in Variables, object[w].live
  PROVE  Value(w) # "absent" /\ (object[w].ptr # Null => Value(w) \in Contents)
<1>1. CASE object[w].ptr = Null
  BY <1>1 DEF Value
<1>2. CASE object[w].ptr # Null
  BY <1>2, ReadsContent, Distinct DEF Value
<1>3. QED
  BY <1>1, <1>2

\* A new variable has its value.
LEMMA NewMatches ==
  ASSUME Inv, NEW v \in Variables, NEW content \in Contents, Create(v, content) \/ Borrow(v, content)
  PROVE  \E const \in BOOLEAN : Abstract!Create(v, content, const)
<1>1. ~object[v].live /\ object[v].ptr = Null /\ ~Borrowing(v)
  BY DEF Create, Borrow, Inv, MembersAgree, Borrowing
<1>2. ValueMap[v] = "absent" /\ v \notin Fixed
  BY <1>1 DEF ValueMap, Value, Fixed
<1>3. Viewed # v
  <2>1. CASE view = Null
    BY <2>1, ViewedIs, HandleAssumption
  <2>2. CASE view # Null
    <3>1. PICK u \in Variables : object[u].ptr = view
      BY <2>2 DEF Inv, ViewOK
    <3>2. QED
      BY <1>1, <2>2, <3>1, ViewedIs
  <2>3. QED
    BY <2>1, <2>2
<1>4. CASE Create(v, content)
  <2>1. PICK h \in Handles : Placed(v, Object(h, h), h, content)
    BY <1>4, AllPlace
  <2>2. Object(h, h).owned # Null
    BY Distinct, ObjectTyped
  <2>3. /\ ValueMap' = [ValueMap EXCEPT ![v] = content] /\ Fixed' = Fixed /\ Viewed' = Viewed
    BY <1>2, <1>3, <2>1, <2>2, PlacedMaps
  <2>4. Abstract!Create(v, content, FALSE)
    BY <1>2, <2>3 DEF Abstract!Create, Abstract!Absent, ValueMap, Fixed
  <2>5. QED
    BY <2>4
<1>5. CASE Borrow(v, content)
  <2>1. PICK h \in Handles : Placed(v, Object(Null, h), h, content)
    BY <1>5, AllPlace
  <2>2. Object(Null, h).owned = Null
    BY ObjectTyped
  <2>3. /\ ValueMap' = [ValueMap EXCEPT ![v] = content] /\ Fixed' = Fixed \cup {v} /\ Viewed' = Viewed
    BY <1>2, <1>3, <2>1, <2>2, PlacedMaps
  <2>4. Abstract!Create(v, content, TRUE)
    BY <1>2, <2>3 DEF Abstract!Create, Abstract!Absent, ValueMap, Fixed
  <2>5. QED
    BY <2>4
<1>6. QED
  BY <1>4, <1>5

\* A copy has the value of what it copies.
LEMMA CopyMatches ==
  ASSUME Inv, NEW v \in Variables, NEW w \in Variables, CopyConstruct(v, w) \/ CopyAssign(v, w)
  PROVE  Abstract!Copy(v, w)
<1>1. object[w].live /\ object[w].ptr # Null /\ v # w /\ ~Borrowing(v)
  BY DEF CopyConstruct, CopyAssign, Readable, Borrowing, Inv, MembersAgree
<1>2. PICK h \in Handles : Placed(v, Object(h, h), h, heap[object[w].ptr])
  BY AllPlace
<1>3. Value(w) = heap[object[w].ptr] /\ Value(w) \in Contents /\ v \notin Fixed
  BY <1>1, AliveHasValue DEF Value, Fixed
<1>4. Object(h, h).owned # Null
  BY Distinct, ObjectTyped
<1>5. /\ ValueMap' = [ValueMap EXCEPT ![v] = Value(w)] /\ Fixed' = Fixed
      /\ Viewed' = IF Viewed = v THEN "nobody" ELSE Viewed
  <2>1. PICK content \in Contents : content = Value(w)
    BY <1>3
  <2>2. Placed(v, Object(h, h), h, content)
    BY <1>2, <1>3, <2>1
  <2>3. /\ ValueMap' = [ValueMap EXCEPT ![v] = content] /\ Fixed' = Fixed \ {v}
        /\ Viewed' = IF Viewed = v THEN "nobody" ELSE Viewed
    BY <1>4, <2>2, PlacedMaps
  <2>4. QED
    BY <1>3, <2>1, <2>3
<1>6. ValueMap[w] = Value(w)
  BY DEF ValueMap
<1>7. QED
  BY <1>1, <1>3, <1>5, <1>6
     DEF Abstract!Copy, Abstract!HasValue, Abstract!Forget, Abstract!Nobody, ValueMap, Fixed

\* A move hands the value on.
LEMMA MoveMatches ==
  ASSUME Inv, NEW v \in Variables, NEW w \in Variables, MoveConstruct(v, w) \/ MoveAssign(v, w)
  PROVE  Abstract!Move(v, w)
<1>1. object[w].live /\ v # w /\ ~Borrowing(v) /\ ~Borrowing(w)
  BY DEF MoveConstruct, MoveAssign, Borrowing, Inv, MembersAgree
<1>2. /\ ValueMap' = [ValueMap EXCEPT ![v] = Value(w), ![w] = "moved"] /\ Fixed' = Fixed
      /\ Viewed' = IF Viewed = w THEN v ELSE IF Viewed = v THEN "nobody" ELSE Viewed
  BY <1>1, MoveTakes, TakenMaps
<1>3. ValueMap[w] = Value(w) /\ Value(w) # "absent" /\ {v, w} \cap Fixed = {}
  BY <1>1, AliveHasValue DEF ValueMap, Fixed
<1>4. QED
  BY <1>1, <1>2, <1>3 DEF Abstract!Move, Abstract!Absent, Abstract!Moved, Abstract!Nobody, ValueMap, Fixed

\* A mutator changes its variable's value and no other.
LEMMA MutateMatches ==
  ASSUME Inv, NEW v \in Variables, NEW content \in Contents, Mutate(v, content)
  PROVE  Abstract!Mutate(v, content)
<1>1. Value(v) \in Contents /\ ~Borrowing(v) /\ ValueMap' = [ValueMap EXCEPT ![v] = content]
      /\ Fixed' = Fixed /\ Viewed' = IF Viewed = v THEN "nobody" ELSE Viewed
  BY MutateMaps
<1>2. ValueMap[v] \in Contents /\ v \notin Fixed
  BY <1>1 DEF ValueMap, Fixed
<1>3. QED
  BY <1>1, <1>2
     DEF Abstract!Mutate, Abstract!HasValue, Abstract!Forget, Abstract!Nobody, ValueMap, Fixed

\* A destructor ends its variable and the views of it.
LEMMA DestroyMatches ==
  ASSUME Inv, NEW v \in Variables, Destroy(v)
  PROVE  Abstract!Destroy(v)
<1>1. ValueMap[v] # "absent"
  BY AliveHasValue DEF Destroy, ValueMap
<1>2. QED
  BY <1>1, DestroyMaps
     DEF Abstract!Destroy, Abstract!Absent, Abstract!Forget, Abstract!Nobody, ValueMap, Fixed

\* A span shows the value of its variable.
LEMMA ViewMatches ==
  ASSUME Inv, NEW v \in Variables, View(v)
  PROVE  Abstract!View(v)
<1>1. object' = object /\ heap' = heap /\ view' = object[v].ptr /\ object[v].ptr # Null /\ object[v].live
  BY DEF View, Readable
<1>2. Inv'
  <2>1. object[v].ptr \in Handles
    BY <1>1, ReadsContent
  <2>2. QED
    BY <1>1, <2>1 DEF Inv, Typed, MembersAgree, Unshared, Backed, Reached, ViewOK
<1>3. Viewed' = v
  BY <1>1, <1>2, ViewedIsNext
<1>4. ValueMap[v] \in Contents
  BY <1>1, AliveHasValue DEF ValueMap
<1>5. ValueMap' = ValueMap /\ Fixed' = Fixed
  BY <1>1 DEF ValueMap, Value, Fixed, Borrowing
<1>6. QED
  BY <1>3, <1>4, <1>5 DEF Abstract!View, Abstract!HasValue, ValueMap, Fixed

\* Handles behave as values: every constructor, assignment, mutator, destructor
\* and view of Header, PointData and CopcHierarchyVlr is the operation of the
\* same name on plain values, for any number of variables and addresses.
THEOREM ValueRefinement == Spec => ImplementsValues
<1>1. Init => Abstract!Init
  <2>. SUFFICES ASSUME Init PROVE Abstract!Init
    OBVIOUS
  <2>1. \A v \in Variables : object[v] = Dead
    BY DEF Init
  <2>2. \A v \in Variables : Value(v) = "absent" /\ ~Borrowing(v)
    BY <2>1, DeadTyped DEF Value, Borrowing
  <2>3. QED
    BY <2>2 DEF Init, Abstract!Init, Abstract!Absent, Abstract!Nobody, Viewed
<1>2. Inv /\ [Next]_vars => [Abstract!Next]_Abstract!vars
  <2>. SUFFICES ASSUME Inv, [Next]_vars PROVE [Abstract!Next]_Abstract!vars
    OBVIOUS
  <2>1. ASSUME NEW v \in Variables, NEW w \in Variables,
               \/ \E content \in Contents :
                    Create(v, content) \/ Borrow(v, content) \/ Mutate(v, content)
               \/ CopyConstruct(v, w) \/ MoveConstruct(v, w) \/ CopyAssign(v, w)
               \/ MoveAssign(v, w) \/ Destroy(v) \/ View(v)
        PROVE  Abstract!Next
    <3>1. \/ \E content \in Contents :
               Abstract!Mutate(v, content) \/ \E const \in BOOLEAN : Abstract!Create(v, content, const)
          \/ Abstract!Copy(v, w) \/ Abstract!Move(v, w) \/ Abstract!Destroy(v) \/ Abstract!View(v)
      BY <2>1, NewMatches, CopyMatches, MoveMatches, MutateMatches, DestroyMatches, ViewMatches
    <3>2. QED
      BY <3>1 DEF Abstract!Next
  <2>2. CASE UNCHANGED vars
    BY <2>2 DEF vars, Abstract!vars, Value, Viewed, Borrowing
  <2>3. QED
    BY <2>1, <2>2 DEF Next
<1>3. QED
  BY <1>1, <1>2, Invariance, PTL DEF Spec, ImplementsValues, Abstract!Spec
=============================================================================
