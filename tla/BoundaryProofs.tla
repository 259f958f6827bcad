--------------------------- MODULE BoundaryProofs ---------------------------
(***************************************************************************)
(* Proofs about the two halves of include/lasrs/error.hpp, through which   *)
(* every class reaches Rust: handles with their Deleter (Ownership), for   *)
(* any number of variables and heap objects, and the status of a call that *)
(* check turns into an exception (ErrorReporting), for any threads,        *)
(* messages and depth.  The two share no variable.                         *)
(***************************************************************************)
EXTENDS Ownership, ErrorReporting, TLAPS

-----------------------------------------------------------------------------
(* Ownership: the inductive invariant *)

\* The special member function under way is a rest of one of the two orders,
\* on variables in the state that function needs.
RunningOK ==
  \/ running = Idle
  \/ \E todo \in {<<"handle", "stream", "header">>, <<"stream", "header">>, <<"header">>},
        d, s \in Objects :
       /\ running = [todo |-> todo, dst |-> d, src |-> s]
       /\ state[d] = "live" /\ state[s] = "live" /\ SameClass(d, s)
  \/ \E todo \in {<<"header", "handle", "stream">>, <<"handle", "stream">>, <<"stream">>},
        d \in Objects :
       /\ running = [todo |-> todo, dst |-> d, src |-> Null]
       /\ state[d] = "dying"

\* What a variable may hold in each state; a dying variable is the one that is
\* being destroyed, and its members go one by one.
MembersOK ==
  \A o \in Objects :
    /\ state[o] = "none" => stream[o] = Null
    /\ state[o] \in {"none", "opening"} => handle[o] = Null /\ header[o] = Null
    /\ state[o] = "dying" =>
         /\ running.dst = o /\ running.src = Null /\ running # Idle
         /\ running.todo # <<"header", "handle", "stream">> => header[o] = Null
         /\ running.todo = <<"stream">> => handle[o] = Null

\* No two variables hold the same pointer, and what they own is allocated.
Exclusive ==
  /\ \A o, p \in Objects : o # p /\ stream[o] # Null => stream[o] # stream[p]
  /\ \A o, p \in Objects : o # p /\ handle[o] # Null => handle[o] # handle[p]
  /\ \A o, p \in Writers : o # p /\ header[o] # Null => header[o] # header[p]

OwnsLive ==
  /\ \A o \in Objects : stream[o] # Null => stream[o] \in live
  /\ \A o \in Objects : handle[o] # Null => handle[o] \in live
  /\ \A o \in Writers : header[o] # Null => header[o] \in live

NoLeak ==
  \A x \in live :
    \/ \E o \in Objects : stream[o] = x
    \/ \E o \in Objects : handle[o] = x
    \/ \E o \in Writers : header[o] = x

\* The members that move assignment has already moved.
HandleMoved == running.todo \in {<<"stream", "header">>, <<"header">>} /\ running.src \in Objects
OnlyHandleMoved == running.todo = <<"stream", "header">> /\ running.src \in Objects

\* A handle is with its adapter, but for the time in which the assignment has
\* moved the handle and not yet the adapter.
Paired ==
  /\ \A o \in Objects :
       handle[o] # Null =>
         context[handle[o]] = IF OnlyHandleMoved /\ o = running.dst
                              THEN stream[running.src] ELSE stream[o]
  /\ HandleMoved /\ running.src # running.dst => handle[running.src] = Null

\* The same of a reader's header, which follows last.
Borrows ==
  \A r \in Readers :
    state[r] = "live" =>
      /\ ~(HandleMoved /\ r \in {running.dst, running.src}) => header[r] = handle[r]
      /\ HandleMoved /\ r = running.dst => header[running.src] = handle[r]

Inv ==
  /\ TypeOK /\ RunningOK /\ MembersOK
  /\ Exclusive /\ OwnsLive /\ NoLeak
  /\ Paired /\ Borrows

-----------------------------------------------------------------------------
(* What the invariant implies *)

\* A live handle is some variable's, and its adapter some variable's stream;
\* the kinds of heap objects are disjoint, so what each member owns once is
\* owned once altogether.
LEMMA InvImplies ==
  Inv => AdapterOutlivesHandle /\ OwnedExactlyOnce /\ HeaderBorrowsOwnHandle /\ StreamBelongsToHandle
<1>. SUFFICES ASSUME Inv
     PROVE  AdapterOutlivesHandle /\ OwnedExactlyOnce /\ HeaderBorrowsOwnHandle /\ StreamBelongsToHandle
  OBVIOUS
<1>. USE OwnershipAssumption DEF Inv, Objects, Heap
<1>1. Idle.src \notin Objects /\ Idle.src = Null
  BY DEF Idle
<1>2. AdapterOutlivesHandle
  <2>. SUFFICES ASSUME NEW h \in Handles \cap live, context[h] # Null
       PROVE  context[h] \in live
    BY DEF AdapterOutlivesHandle
  <2>1. PICK o \in Objects : handle[o] = h
    BY DEF NoLeak, TypeOK
  <2>2. handle[o] # Null
    BY <2>1
  <2>3. CASE OnlyHandleMoved /\ o = running.dst
    BY <2>1, <2>2, <2>3 DEF Paired, OwnsLive, OnlyHandleMoved
  <2>4. CASE ~(OnlyHandleMoved /\ o = running.dst)
    BY <2>1, <2>2, <2>4 DEF Paired, OwnsLive
  <2>5. QED
    BY <2>3, <2>4
<1>3. OwnedExactlyOnce
  <2>1. \A p \in live : \E o \in Objects : p \in OwnedBy(o)
    <3>. SUFFICES ASSUME NEW x \in live PROVE \E o \in Objects : x \in OwnedBy(o)
      OBVIOUS
    <3>1. x # Null
      BY DEF TypeOK
    <3>2. QED
      BY <3>1 DEF NoLeak, OwnedBy
  <2>2. \A o \in Objects : OwnedBy(o) \subseteq live
    BY DEF OwnsLive, OwnedBy
  <2>3. \A o, p \in Objects : o # p => OwnedBy(o) \cap OwnedBy(p) = {}
    <3>. SUFFICES ASSUME NEW o \in Objects, NEW p \in Objects, o # p, NEW x \in OwnedBy(o), x \in OwnedBy(p)
         PROVE  FALSE
      OBVIOUS
    <3>1. /\ stream[o] \in Adapters \cup {Null} /\ stream[p] \in Adapters \cup {Null}
          /\ handle[o] \in Handles \cup {Null} /\ handle[p] \in Handles \cup {Null}
          /\ o \in Writers => header[o] \in Copies \cup {Null}
          /\ p \in Writers => header[p] \in Copies \cup {Null}
      BY DEF TypeOK
    <3>2. QED
      BY <3>1 DEF OwnedBy, Exclusive
  <2>4. QED
    BY <2>1, <2>2, <2>3 DEF OwnedExactlyOnce
<1>4. HeaderBorrowsOwnHandle
  BY <1>1 DEF HeaderBorrowsOwnHandle, Borrows, HandleMoved
<1>5. StreamBelongsToHandle
  BY <1>1 DEF StreamBelongsToHandle, Paired, OnlyHandleMoved
<1>6. QED
  BY <1>2, <1>3, <1>4, <1>5

-----------------------------------------------------------------------------
(* The steps of a special member function *)

\* A step of an assignment or of a destruction is one of six: what is left to
\* do says which member changes, and what is left then.
LEMMA StepCases ==
  ASSUME Inv, Step
  PROVE  \/ /\ running.src \in Objects
            /\ \/ running.todo = <<"handle", "stream", "header">> /\ StepHandle /\ running' = [running EXCEPT !.todo = <<"stream", "header">>]
               \/ running.todo = <<"stream", "header">> /\ StepStream /\ running' = [running EXCEPT !.todo = <<"header">>]
               \/ running.todo = <<"header">> /\ StepHeader /\ running' = Idle
            /\ state' = state
         \/ /\ running.src = Null
            /\ \/ running.todo = <<"header", "handle", "stream">> /\ StepHeader /\ running' = [running EXCEPT !.todo = <<"handle", "stream">>]
                  /\ state' = state
               \/ running.todo = <<"handle", "stream">> /\ StepHandle /\ running' = [running EXCEPT !.todo = <<"stream">>]
                  /\ state' = state
               \/ running.todo = <<"stream">> /\ StepStream /\ running' = Idle
                  /\ state' = [state EXCEPT ![running.dst] = "none"]
<1>1. running # Idle
  BY DEF Step
<1>2. CASE \E todo \in {<<"handle", "stream", "header">>, <<"stream", "header">>, <<"header">>}, d, s \in Objects :
             /\ running = [todo |-> todo, dst |-> d, src |-> s]
             /\ state[d] = "live" /\ state[s] = "live" /\ SameClass(d, s)
  <2>1. state = [state EXCEPT ![running.dst] = IF @ = "dying" /\ Tail(running.todo) = <<>> THEN "none" ELSE @]
    BY <1>2 DEF Inv, TypeOK
  <2>2. state' = state /\ running.src \in Objects
    BY <1>2, <2>1 DEF Step
  <2>3. CASE running.todo = <<"handle", "stream", "header">>
    <3>1. Head(running.todo) = "handle" /\ Tail(running.todo) = <<"stream", "header">>
      BY <2>3
    <3>2. QED
      BY <2>2, <2>3, <3>1 DEF Step
  <2>4. CASE running.todo = <<"stream", "header">>
    <3>1. Head(running.todo) = "stream" /\ Tail(running.todo) = <<"header">>
      BY <2>4
    <3>2. QED
      BY <2>2, <2>4, <3>1 DEF Step
  <2>5. CASE running.todo = <<"header">>
    <3>1. Head(running.todo) = "header" /\ Tail(running.todo) = <<>>
      BY <2>5
    <3>2. QED
      BY <2>2, <2>5, <3>1 DEF Step
  <2>6. QED
    BY <1>2, <2>3, <2>4, <2>5
<1>3. CASE \E todo \in {<<"header", "handle", "stream">>, <<"handle", "stream">>, <<"stream">>}, d \in Objects :
             /\ running = [todo |-> todo, dst |-> d, src |-> Null]
             /\ state[d] = "dying"
  <2>1. running.src = Null /\ running.dst \in Objects /\ state[running.dst] = "dying"
    BY <1>3
  <2>2. CASE running.todo = <<"header", "handle", "stream">>
    <3>1. Head(running.todo) = "header" /\ Tail(running.todo) = <<"handle", "stream">>
      BY <2>2
    <3>2. Tail(running.todo) # <<>>
      BY <3>1
    <3>3. QED
      BY <2>1, <2>2, <3>1, <3>2 DEF Step, Inv, TypeOK
  <2>3. CASE running.todo = <<"handle", "stream">>
    <3>1. Head(running.todo) = "handle" /\ Tail(running.todo) = <<"stream">>
      BY <2>3
    <3>2. Tail(running.todo) # <<>>
      BY <3>1
    <3>3. QED
      BY <2>1, <2>3, <3>1, <3>2 DEF Step, Inv, TypeOK
  <2>4. CASE running.todo = <<"stream">>
    <3>1. Head(running.todo) = "stream" /\ Tail(running.todo) = <<>>
      BY <2>4
    <3>2. QED
      BY <2>1, <2>4, <3>1 DEF Step, Inv, TypeOK
  <2>5. QED
    BY <1>3, <2>2, <2>3, <2>4
<1>4. QED
  BY <1>1, <1>2, <1>3 DEF Inv, RunningOK

-----------------------------------------------------------------------------
(* Construction and use *)

\* Nothing is allocated and no variable holds anything.
LEMMA InitInv == Init => Inv
<1>. SUFFICES ASSUME Init PROVE Inv
  OBVIOUS
<1>. USE OwnershipAssumption DEF Init, Idle
<1>1. TypeOK
  BY DEF TypeOK
<1>2. RunningOK /\ MembersOK /\ NoLeak /\ Paired
  BY DEF RunningOK, MembersOK, NoLeak, Paired, HandleMoved
<1>3. Exclusive /\ OwnsLive
  BY DEF Exclusive, OwnsLive, Objects
<1>4. Borrows
  BY DEF Borrows, Objects
<1>5. QED
  BY <1>1, <1>2, <1>3, <1>4 DEF Inv

\* A variable that is being constructed takes no part in what is running.
LEMMA OpeningApart ==
  ASSUME Inv, NEW o \in Objects, state[o] \in {"none", "opening"}
  PROVE  o # running.dst /\ o # running.src
BY OwnershipAssumption DEF Inv, RunningOK, Idle, Objects

\* A new adapter is owned by the variable being constructed and by no other.
LEMMA OpenStreamInv ==
  ASSUME Inv, NEW o \in Objects, OpenStream(o)
  PROVE  Inv'
<1>. USE OwnershipAssumption
<1>1. PICK a \in Adapters \ live :
        /\ live' = live \cup {a}
        /\ stream' = [stream EXCEPT ![o] = a]
  BY DEF OpenStream
<1>2. /\ state[o] = "none" /\ running = Idle /\ running' = Idle
      /\ state' = [state EXCEPT ![o] = "opening"]
      /\ handle' = handle /\ header' = header /\ context' = context /\ views' = views
      /\ stream[o] = Null /\ handle[o] = Null /\ header[o] = Null
  BY DEF OpenStream, Inv, MembersOK
<1>3. TypeOK'
  BY <1>1, <1>2 DEF Inv, TypeOK, Heap
<1>4. RunningOK' /\ MembersOK'
  BY <1>1, <1>2 DEF Inv, TypeOK, RunningOK, MembersOK, Idle
<1>5. Exclusive' /\ OwnsLive'
  BY <1>1, <1>2 DEF Inv, TypeOK, Exclusive, OwnsLive, Objects
<1>6. NoLeak'
  BY <1>1, <1>2 DEF Inv, TypeOK, NoLeak, Objects
<1>7. Paired' /\ Borrows'
  BY <1>1, <1>2 DEF Inv, TypeOK, Paired, Borrows, HandleMoved, OnlyHandleMoved, Objects, Idle
<1>8. QED
  BY <1>3, <1>4, <1>5, <1>6, <1>7 DEF Inv

\* A constructor from a path gives its handle no adapter.
LEMMA OpenPathInv ==
  ASSUME Inv, NEW o \in Objects, OpenPath(o)
  PROVE  Inv'
<1>. USE OwnershipAssumption
<1>1. /\ state[o] = "none" /\ running = Idle /\ running' = Idle
      /\ state' = [state EXCEPT ![o] = "opening"]
      /\ UNCHANGED <<stream, handle, header, live, context, views>>
      /\ stream[o] = Null /\ handle[o] = Null /\ header[o] = Null
  BY DEF OpenPath, Inv, MembersOK
<1>2. TypeOK'
  BY <1>1 DEF Inv, TypeOK
<1>3. RunningOK' /\ MembersOK'
  BY <1>1 DEF Inv, TypeOK, RunningOK, MembersOK, Idle
<1>4. Exclusive' /\ OwnsLive' /\ NoLeak'
  BY <1>1 DEF Inv, Exclusive, OwnsLive, NoLeak
<1>5. Paired' /\ Borrows'
  BY <1>1 DEF Inv, TypeOK, Paired, Borrows, HandleMoved, OnlyHandleMoved, Objects, Idle
<1>6. QED
  BY <1>2, <1>3, <1>4, <1>5 DEF Inv

\* The new handle calls the adapter its variable holds; a reader's header
\* borrows from it.
LEMMA OpenSucceedsInv ==
  ASSUME Inv, NEW o \in Objects, OpenSucceeds(o)
  PROVE  Inv'
<1>. USE OwnershipAssumption
<1>1. PICK h \in Handles \ live :
        /\ live' = live \cup {h}
        /\ context' = [context EXCEPT ![h] = stream[o]]
        /\ handle' = [handle EXCEPT ![o] = h]
        /\ header' = [header EXCEPT ![o] = IF o \in Readers THEN h ELSE Null]
  BY DEF OpenSucceeds
<1>2. /\ state[o] = "opening" /\ running' = running
      /\ state' = [state EXCEPT ![o] = "live"]
      /\ stream' = stream /\ views' = views
      /\ handle[o] = Null /\ header[o] = Null
      /\ o # running.dst /\ o # running.src
  BY OpeningApart DEF OpenSucceeds, Inv, MembersOK
<1>3. TypeOK'
  BY <1>1, <1>2 DEF Inv, TypeOK, Heap, Objects
<1>4. RunningOK'
  BY <1>1, <1>2 DEF Inv, TypeOK, RunningOK
<1>5. MembersOK'
  BY <1>1, <1>2 DEF Inv, TypeOK, MembersOK
<1>6. Exclusive' /\ OwnsLive'
  BY <1>1, <1>2 DEF Inv, TypeOK, Exclusive, OwnsLive, Objects
<1>7. NoLeak'
  <2>. SUFFICES ASSUME NEW x \in live'
       PROVE  \/ \E p \in Objects : stream'[p] = x
              \/ \E p \in Objects : handle'[p] = x
              \/ \E p \in Writers : header'[p] = x
    BY DEF NoLeak
  <2>1. CASE x = h
    BY <1>1, <2>1 DEF Inv, TypeOK
  <2>2. CASE x \in live
    <3>1. x # Null
      BY <2>2 DEF Inv, TypeOK, Heap
    <3>2. QED
      BY <1>1, <1>2, <2>2, <3>1 DEF Inv, TypeOK, NoLeak, Objects
  <2>3. QED
    BY <1>1, <2>1, <2>2
<1>8. Paired'
  <2>1. \A p \in Objects : p # o /\ handle[p] # Null => handle[p] # h /\ handle[p] \in Handles
    BY DEF Inv, TypeOK, OwnsLive
  <2>2. OnlyHandleMoved' <=> OnlyHandleMoved
    BY <1>2 DEF OnlyHandleMoved
  <2>3. HandleMoved' <=> HandleMoved
    BY <1>2 DEF HandleMoved
  <2>4. QED
    BY <1>1, <1>2, <2>1, <2>2, <2>3 DEF Inv, TypeOK, Paired, HandleMoved
<1>9. Borrows'
  <2>1. HandleMoved' <=> HandleMoved
    BY <1>2 DEF HandleMoved
  <2>2. QED
    BY <1>1, <1>2, <2>1 DEF Inv, TypeOK, Borrows, HandleMoved, Objects
<1>10. QED
  BY <1>3, <1>4, <1>5, <1>6, <1>7, <1>8, <1>9 DEF Inv

\* A failed open frees its adapter, which no handle calls.
LEMMA OpenFailsInv ==
  ASSUME Inv, NEW o \in Objects, OpenFails(o)
  PROVE  Inv'
<1>. USE OwnershipAssumption
<1>1. /\ state[o] = "opening" /\ running' = running
      /\ live' = live \ {stream[o]}
      /\ stream' = [stream EXCEPT ![o] = Null]
      /\ state' = [state EXCEPT ![o] = "none"]
      /\ UNCHANGED <<handle, header, context, views>>
      /\ handle[o] = Null /\ header[o] = Null
      /\ o # running.dst /\ o # running.src
  BY OpeningApart DEF OpenFails, Inv, MembersOK
<1>2. \A p \in Objects : p # o /\ stream[p] # Null => stream[p] # stream[o]
  BY DEF Inv, Exclusive
<1>3. /\ \A p \in Objects : handle[p] # Null => handle[p] # stream[o]
      /\ \A p \in Writers : header[p] # Null => header[p] # stream[o]
  BY DEF Inv, TypeOK, Objects
<1>4. TypeOK'
  BY <1>1 DEF Inv, TypeOK
<1>5. RunningOK' /\ MembersOK'
  BY <1>1 DEF Inv, TypeOK, RunningOK, MembersOK
<1>6. Exclusive' /\ OwnsLive'
  BY <1>1, <1>2, <1>3 DEF Inv, TypeOK, Exclusive, OwnsLive, Objects
<1>7. NoLeak'
  BY <1>1 DEF Inv, TypeOK, NoLeak
<1>8. Paired' /\ Borrows'
  <2>1. (OnlyHandleMoved' <=> OnlyHandleMoved) /\ (HandleMoved' <=> HandleMoved)
    BY <1>1 DEF OnlyHandleMoved, HandleMoved
  <2>2. QED
    BY <1>1, <2>1 DEF Inv, TypeOK, Paired, Borrows, OnlyHandleMoved, HandleMoved, Objects
<1>9. QED
  BY <1>4, <1>5, <1>6, <1>7, <1>8 DEF Inv

\* Writer::header frees the copy it replaces.
LEMMA CallHeaderInv ==
  ASSUME Inv, NEW w \in Writers, CallHeader(w)
  PROVE  Inv'
<1>. USE OwnershipAssumption
<1>1. PICK c \in Copies \ live :
        /\ live' = (live \cup {c}) \ {header[w]}
        /\ header' = [header EXCEPT ![w] = c]
        /\ views' = {v \in views : v.of # w} \cup {[of |-> w, copy |-> c]}
  BY DEF CallHeader
<1>2. /\ state[w] = "live" /\ running = Idle /\ running' = Idle
      /\ UNCHANGED <<state, stream, handle, context>>
  BY DEF CallHeader
<1>3. /\ \A o \in Objects : stream[o] # Null => stream[o] # header[w] /\ stream[o] # c
      /\ \A o \in Objects : handle[o] # Null => handle[o] # header[w] /\ handle[o] # c
      /\ c # header[w] /\ c # Null /\ header[w] \in Copies \cup {Null}
      /\ \A o \in Writers : o # w /\ header[o] # Null => header[o] # header[w] /\ header[o] # c
  BY DEF Inv, TypeOK, OwnsLive, Exclusive, Objects
<1>4. TypeOK'
  BY <1>1, <1>2 DEF Inv, TypeOK, Heap, Objects
<1>5. RunningOK' /\ MembersOK'
  BY <1>1, <1>2 DEF Inv, TypeOK, RunningOK, MembersOK, Objects
<1>6. Exclusive' /\ OwnsLive'
  BY <1>1, <1>2, <1>3 DEF Inv, TypeOK, Exclusive, OwnsLive, Objects
<1>7. NoLeak'
  <2>. SUFFICES ASSUME NEW x \in live'
       PROVE  \/ \E o \in Objects : stream'[o] = x
              \/ \E o \in Objects : handle'[o] = x
              \/ \E o \in Writers : header'[o] = x
    BY DEF NoLeak
  <2>1. CASE x = c
    BY <1>1, <2>1 DEF Inv, TypeOK, Objects
  <2>2. CASE x \in live /\ x # header[w]
    BY <1>1, <1>2, <2>2 DEF Inv, TypeOK, NoLeak, Objects
  <2>3. QED
    BY <1>1, <2>1, <2>2
<1>8. Paired'
  BY <1>1, <1>2 DEF Inv, TypeOK, Paired, OnlyHandleMoved, HandleMoved, Objects, Idle
<1>9. Borrows'
  BY <1>1, <1>2 DEF Inv, TypeOK, Borrows, HandleMoved, Objects, Idle
<1>10. QED
  BY <1>4, <1>5, <1>6, <1>7, <1>8, <1>9 DEF Inv

-----------------------------------------------------------------------------
(* Moves, assignments and destructions *)

\* The moved-to variable holds what the moved-from one held.
LEMMA MoveConstructInv ==
  ASSUME Inv, NEW dst \in Objects, NEW src \in Objects, SameClass(dst, src),
         MoveConstruct(dst, src)
  PROVE  Inv'
<1>. USE OwnershipAssumption
<1>1. /\ running = Idle /\ running' = Idle /\ state[dst] = "none" /\ state[src] = "live"
      /\ dst # src
      /\ state' = [state EXCEPT ![dst] = "live"]
      /\ stream' = [stream EXCEPT ![dst] = stream[src], ![src] = Null]
      /\ handle' = [handle EXCEPT ![dst] = handle[src], ![src] = Null]
      /\ header' = [header EXCEPT ![dst] = header[src], ![src] = Null]
      /\ UNCHANGED <<live, context, views>>
      /\ stream[dst] = Null /\ handle[dst] = Null /\ header[dst] = Null
  BY DEF MoveConstruct, Inv, MembersOK
<1>2. TypeOK'
  BY <1>1 DEF Inv, TypeOK, SameClass, Objects
<1>3. RunningOK' /\ MembersOK'
  BY <1>1 DEF Inv, TypeOK, RunningOK, MembersOK
<1>4. Exclusive' /\ OwnsLive'
  BY <1>1 DEF Inv, TypeOK, Exclusive, OwnsLive, SameClass, Objects
<1>5. NoLeak'
  <2>. SUFFICES ASSUME NEW x \in live
       PROVE  \/ \E o \in Objects : stream'[o] = x
              \/ \E o \in Objects : handle'[o] = x
              \/ \E o \in Writers : header'[o] = x
    BY <1>1 DEF NoLeak
  <2>1. x # Null
    BY DEF Inv, TypeOK, Heap
  <2>2. CASE \E o \in Objects : stream[o] = x
    BY <1>1, <2>1, <2>2 DEF Inv, TypeOK
  <2>3. CASE \E o \in Objects : handle[o] = x
    BY <1>1, <2>1, <2>3 DEF Inv, TypeOK
  <2>4. CASE \E o \in Writers : header[o] = x
    BY <1>1, <2>1, <2>4 DEF Inv, TypeOK, SameClass, Objects
  <2>5. QED
    BY <2>2, <2>3, <2>4 DEF Inv, NoLeak
<1>6. Paired'
  BY <1>1 DEF Inv, TypeOK, Paired, OnlyHandleMoved, HandleMoved, Objects, Idle
<1>7. Borrows'
  BY <1>1 DEF Inv, TypeOK, Borrows, HandleMoved, SameClass, Objects, Idle
<1>8. QED
  BY <1>2, <1>3, <1>4, <1>5, <1>6, <1>7 DEF Inv

\* Entering an assignment or a destruction moves nothing yet.
LEMMA MoveAssignInv ==
  ASSUME Inv, NEW dst \in Objects, NEW src \in Objects, SameClass(dst, src),
         MoveAssign(dst, src)
  PROVE  Inv'
<1>. USE OwnershipAssumption
<1>1. /\ running = Idle /\ state[dst] = "live" /\ state[src] = "live"
      /\ running' = [todo |-> <<"handle", "stream", "header">>, dst |-> dst, src |-> src]
      /\ UNCHANGED <<state, stream, handle, header, live, context, views>>
  BY DEF MoveAssign, AssignOrder
<1>2. ~HandleMoved /\ ~OnlyHandleMoved /\ ~HandleMoved' /\ ~OnlyHandleMoved'
  BY <1>1 DEF HandleMoved, OnlyHandleMoved, Idle, Objects
<1>3. TypeOK'
  BY <1>1 DEF Inv, TypeOK
<1>4. RunningOK'
  <2>1. state'[dst] = "live" /\ state'[src] = "live"
    BY <1>1
  <2>2. \E todo \in {<<"handle", "stream", "header">>, <<"stream", "header">>, <<"header">>},
           d, s \in Objects :
          /\ running' = [todo |-> todo, dst |-> d, src |-> s]
          /\ state'[d] = "live" /\ state'[s] = "live" /\ SameClass(d, s)
    BY <1>1, <2>1, Zenon
  <2>3. QED
    BY <2>2 DEF RunningOK, SameClass
<1>5. MembersOK'
  BY <1>1 DEF Inv, MembersOK
<1>6. Exclusive' /\ OwnsLive' /\ NoLeak'
  BY <1>1 DEF Inv, Exclusive, OwnsLive, NoLeak
<1>7. Paired' /\ Borrows'
  BY <1>1, <1>2 DEF Inv, Paired, Borrows
<1>8. QED
  BY <1>3, <1>4, <1>5, <1>6, <1>7 DEF Inv

\* A destructor begins with everything still in its place.
LEMMA DestroyInv ==
  ASSUME Inv, NEW o \in Objects, Destroy(o)
  PROVE  Inv'
<1>. USE OwnershipAssumption
<1>1. /\ running = Idle /\ state[o] = "live"
      /\ state' = [state EXCEPT ![o] = "dying"]
      /\ running' = [todo |-> <<"header", "handle", "stream">>, dst |-> o, src |-> Null]
      /\ views' \subseteq views
      /\ UNCHANGED <<stream, handle, header, live, context>>
  BY DEF Destroy, DestroyOrder
<1>2. ~HandleMoved /\ ~OnlyHandleMoved /\ ~HandleMoved' /\ ~OnlyHandleMoved'
  BY <1>1 DEF HandleMoved, OnlyHandleMoved, Idle, Objects
<1>3. TypeOK'
  BY <1>1 DEF Inv, TypeOK
<1>4. RunningOK'
  BY <1>1 DEF Inv, TypeOK, RunningOK
<1>5. MembersOK'
  <2>1. running'.dst = o /\ running'.src = Null /\ running' # Idle
        /\ running'.todo = <<"header", "handle", "stream">> /\ running'.todo # <<"stream">>
    BY <1>1 DEF Idle, Objects
  <2>2. QED
    BY <1>1, <2>1 DEF Inv, TypeOK, MembersOK
<1>6. Exclusive' /\ OwnsLive' /\ NoLeak'
  BY <1>1 DEF Inv, Exclusive, OwnsLive, NoLeak
<1>7. Paired' /\ Borrows'
  BY <1>1, <1>2 DEF Inv, TypeOK, Paired, Borrows
<1>8. QED
  BY <1>3, <1>4, <1>5, <1>6, <1>7 DEF Inv

-----------------------------------------------------------------------------
(* One member changes hands or goes *)

\* The pointers after a member was taken from another variable (or from
\* none): the target has the source's, the source has none.
LEMMA TransferredIs ==
  ASSUME running.src # running.dst, NEW member
  PROVE  /\ Transferred(member).freed = {member[running.dst]}
         /\ Transferred(member).pointers =
              [o \in Objects |-> IF o = running.dst
                                 THEN (IF running.src = Null THEN Null ELSE member[running.src])
                                 ELSE IF o = running.src THEN Null ELSE member[o]]
BY DEF Transferred

\* Assigning a variable to itself changes no member.
LEMMA TransferredToSelf ==
  ASSUME running.src = running.dst, NEW member
  PROVE  Transferred(member).freed = {} /\ Transferred(member).pointers = member
BY DEF Transferred

\* What the invariant says of an assignment under way.
LEMMA Assigning ==
  ASSUME Inv, running.src \in Objects
  PROVE  /\ running.dst \in Objects
         /\ state[running.dst] = "live" /\ state[running.src] = "live"
         /\ SameClass(running.dst, running.src)
         /\ running = [todo |-> running.todo, dst |-> running.dst, src |-> running.src]
         /\ \A o \in Objects : state[o] # "dying"
BY OwnershipAssumption DEF Inv, RunningOK, MembersOK, Idle, Objects

\* What the invariant says of a destruction under way.
LEMMA Destroying ==
  ASSUME Inv, running.src = Null, running.todo # <<>>
  PROVE  /\ running.dst \in Objects
         /\ state[running.dst] = "dying"
         /\ running = [todo |-> running.todo, dst |-> running.dst, src |-> Null]
         /\ \A o \in Objects : state[o] = "dying" => o = running.dst
BY OwnershipAssumption DEF Inv, RunningOK, MembersOK, Idle, Objects

\* A step of an assignment to itself keeps the invariant: the same variable is
\* both the one that gives and the one that takes.
LEMMA SelfAssignInv ==
  ASSUME Inv, Step, running.src = running.dst
  PROVE  Inv'
<1>. USE OwnershipAssumption
<1>1. running.src \in Objects
  BY StepCases, Destroying DEF Objects
<1>2. UNCHANGED <<state, stream, handle, header, live, context, views>>
  BY <1>1, StepCases, TransferredToSelf DEF StepHandle, StepStream, StepHeader, Step, Objects
<1>3. /\ running.dst \in Objects /\ state[running.dst] = "live"
      /\ running = [todo |-> running.todo, dst |-> running.dst, src |-> running.dst]
      /\ \A o \in Objects : state[o] # "dying"
  BY <1>1, Assigning
<1>4. \/ running' = Idle
      \/ \E todo \in {<<"stream", "header">>, <<"header">>} :
           running' = [todo |-> todo, dst |-> running.dst, src |-> running.dst]
  BY <1>1, <1>3, StepCases DEF Objects
<1>5. RunningOK'
  <2>1. SameClass(running.dst, running.dst)
    BY <1>3 DEF SameClass, Objects
  <2>2. CASE \E todo \in {<<"stream", "header">>, <<"header">>} :
               running' = [todo |-> todo, dst |-> running.dst, src |-> running.dst]
    <3>1. \E todo \in {<<"handle", "stream", "header">>, <<"stream", "header">>, <<"header">>},
             d, s \in Objects :
            /\ running' = [todo |-> todo, dst |-> d, src |-> s]
            /\ state'[d] = "live" /\ state'[s] = "live" /\ SameClass(d, s)
      BY <1>2, <1>3, <2>1, <2>2, Zenon
    <3>2. QED
      BY <3>1 DEF RunningOK, SameClass
  <2>3. QED
    BY <1>4, <2>2 DEF RunningOK, Idle
<1>6. TypeOK'
  <2>1. running'.todo \in {<<>>, <<"stream", "header">>, <<"header">>}
    BY <1>4 DEF Idle
  <2>2. running'.todo \in Seq({"stream", "handle", "header"})
    <3>1. /\ <<>> \in Seq({"stream", "handle", "header"})
          /\ <<"stream", "header">> \in Seq({"stream", "handle", "header"})
          /\ <<"header">> \in Seq({"stream", "handle", "header"})
      OBVIOUS
    <3>2. QED
      BY <2>1, <3>1
  <2>3. QED
    BY <1>2, <2>2 DEF Inv, TypeOK
<1>7. MembersOK' /\ Exclusive' /\ OwnsLive' /\ NoLeak'
  BY <1>2, <1>3 DEF Inv, MembersOK, Exclusive, OwnsLive, NoLeak
<1>8. /\ running'.src = running'.dst
      /\ running'.dst = running.dst \/ running'.src \notin Objects
  BY <1>4 DEF Idle, Objects
<1>9. Paired'
  BY <1>2, <1>3, <1>8 DEF Inv, Paired, OnlyHandleMoved, HandleMoved
<1>10. Borrows'
  <2>1. \A r \in Readers : state[r] = "live" => header[r] = handle[r]
    BY DEF Inv, Borrows
  <2>2. HandleMoved' => running'.src = running.dst
    BY <1>8 DEF HandleMoved
  <2>3. QED
    BY <1>2, <1>8, <2>1, <2>2 DEF Borrows
<1>11. QED
  BY <1>5, <1>6, <1>7, <1>9, <1>10 DEF Inv

\* The handle moves: the target's old handle is freed while its adapter is
\* still there, and the new one's adapter stays with the source for a step.
LEMMA AssignHandleInv ==
  ASSUME Inv, Step, running.src \in Objects, running.src # running.dst,
         running.todo = <<"handle", "stream", "header">>,
         StepHandle, running' = [running EXCEPT !.todo = <<"stream", "header">>], state' = state
  PROVE  Inv'
<1>. USE OwnershipAssumption
<1>. DEFINE d == running.dst
            s == running.src
<1>1. /\ d \in Objects /\ s \in Objects /\ d # s /\ s # Null
      /\ state[d] = "live" /\ state[s] = "live" /\ SameClass(d, s)
      /\ \A o \in Objects : state[o] # "dying"
      /\ running' = [todo |-> <<"stream", "header">>, dst |-> d, src |-> s]
  BY Assigning DEF Objects
<1>2. /\ live' = live \ {handle[d]}
      /\ handle' = [o \in Objects |-> IF o = d THEN handle[s] ELSE IF o = s THEN Null ELSE handle[o]]
      /\ UNCHANGED <<stream, header, context, views, state>>
  BY <1>1, TransferredIs DEF StepHandle, Step
<1>3. ~HandleMoved /\ ~OnlyHandleMoved /\ HandleMoved' /\ OnlyHandleMoved'
      /\ running'.dst = d /\ running'.src = s
  BY <1>1 DEF HandleMoved, OnlyHandleMoved
<1>4. TypeOK'
  BY <1>1, <1>2 DEF Inv, TypeOK
<1>5. RunningOK'
  <2>1. \E todo \in {<<"handle", "stream", "header">>, <<"stream", "header">>, <<"header">>},
           p, q \in Objects :
          /\ running' = [todo |-> todo, dst |-> p, src |-> q]
          /\ state'[p] = "live" /\ state'[q] = "live" /\ SameClass(p, q)
    BY <1>1, <1>2, Zenon
  <2>2. QED
    BY <2>1 DEF RunningOK, SameClass
<1>6. MembersOK'
  BY <1>1, <1>2 DEF Inv, MembersOK
<1>7. Exclusive' /\ OwnsLive'
  <2>1. \A o \in Objects : stream[o] # Null => stream[o] # handle[d]
    BY <1>1 DEF Inv, TypeOK
  <2>2. \A w \in Writers : header[w] # Null => header[w] # handle[d]
    BY <1>1 DEF Inv, TypeOK, Objects
  <2>3. Exclusive'
    BY <1>1, <1>2 DEF Inv, Exclusive
  <2>4. OwnsLive'
    BY <1>1, <1>2, <2>1, <2>2 DEF Inv, Exclusive, OwnsLive, Objects
  <2>5. QED
    BY <2>3, <2>4
<1>8. NoLeak'
  <2>. SUFFICES ASSUME NEW x \in live, x # handle[d]
       PROVE  \/ \E o \in Objects : stream'[o] = x
              \/ \E o \in Objects : handle'[o] = x
              \/ \E o \in Writers : header'[o] = x
    BY <1>2 DEF NoLeak
  <2>1. CASE \E o \in Objects : handle[o] = x
    BY <1>1, <1>2, <2>1
  <2>2. QED
    BY <1>2, <2>1 DEF Inv, NoLeak
<1>9. Paired'
  BY <1>1, <1>2, <1>3 DEF Inv, Paired
<1>10. Borrows'
  BY <1>1, <1>2, <1>3 DEF Inv, Borrows, SameClass, Objects
<1>11. QED
  BY <1>4, <1>5, <1>6, <1>7, <1>8, <1>9, <1>10 DEF Inv

\* The adapter follows its handle; the target's old one is freed, and the
\* handle that called it is gone already.
LEMMA AssignStreamInv ==
  ASSUME Inv, Step, running.src \in Objects, running.src # running.dst,
         running.todo = <<"stream", "header">>,
         StepStream, running' = [running EXCEPT !.todo = <<"header">>], state' = state
  PROVE  Inv'
<1>. USE OwnershipAssumption
<1>. DEFINE d == running.dst
            s == running.src
<1>1. /\ d \in Objects /\ s \in Objects /\ d # s /\ s # Null
      /\ state[d] = "live" /\ state[s] = "live" /\ SameClass(d, s)
      /\ \A o \in Objects : state[o] # "dying"
      /\ running' = [todo |-> <<"header">>, dst |-> d, src |-> s]
  BY Assigning DEF Objects
<1>2. /\ live' = live \ {stream[d]}
      /\ stream' = [o \in Objects |-> IF o = d THEN stream[s] ELSE IF o = s THEN Null ELSE stream[o]]
      /\ UNCHANGED <<handle, header, context, views, state>>
  BY <1>1, TransferredIs DEF StepStream, Step
<1>3. HandleMoved /\ OnlyHandleMoved /\ HandleMoved' /\ ~OnlyHandleMoved'
      /\ running'.dst = d /\ running'.src = s
  BY <1>1 DEF HandleMoved, OnlyHandleMoved
<1>4. TypeOK'
  BY <1>1, <1>2 DEF Inv, TypeOK
<1>5. RunningOK'
  <2>1. \E todo \in {<<"handle", "stream", "header">>, <<"stream", "header">>, <<"header">>},
           p, q \in Objects :
          /\ running' = [todo |-> todo, dst |-> p, src |-> q]
          /\ state'[p] = "live" /\ state'[q] = "live" /\ SameClass(p, q)
    BY <1>1, <1>2, Zenon
  <2>2. QED
    BY <2>1 DEF RunningOK, SameClass
<1>6. MembersOK'
  BY <1>1, <1>2 DEF Inv, MembersOK
<1>7. Exclusive' /\ OwnsLive'
  <2>1. \A o \in Objects : handle[o] # Null => handle[o] # stream[d]
    BY <1>1 DEF Inv, TypeOK
  <2>2. \A w \in Writers : header[w] # Null => header[w] # stream[d]
    BY <1>1 DEF Inv, TypeOK, Objects
  <2>3. Exclusive'
    BY <1>1, <1>2 DEF Inv, Exclusive
  <2>4. OwnsLive'
    BY <1>1, <1>2, <2>1, <2>2 DEF Inv, Exclusive, OwnsLive, Objects
  <2>5. QED
    BY <2>3, <2>4
<1>8. NoLeak'
  <2>. SUFFICES ASSUME NEW x \in live, x # stream[d]
       PROVE  \/ \E o \in Objects : stream'[o] = x
              \/ \E o \in Objects : handle'[o] = x
              \/ \E o \in Writers : header'[o] = x
    BY <1>2 DEF NoLeak
  <2>1. CASE \E o \in Objects : stream[o] = x
    BY <1>1, <1>2, <2>1
  <2>2. QED
    BY <1>2, <2>1 DEF Inv, NoLeak
<1>9. Paired'
  <2>1. handle[s] = Null
    BY <1>1, <1>3 DEF Inv, Paired
  <2>2. QED
    BY <1>1, <1>2, <1>3, <2>1 DEF Inv, Paired
<1>10. Borrows'
  BY <1>1, <1>2, <1>3 DEF Inv, Borrows
<1>11. QED
  BY <1>4, <1>5, <1>6, <1>7, <1>8, <1>9, <1>10 DEF Inv

\* The header follows last; only a writer frees the one it had.
LEMMA AssignHeaderInv ==
  ASSUME Inv, Step, running.src \in Objects, running.src # running.dst,
         running.todo = <<"header">>,
         StepHeader, running' = Idle, state' = state
  PROVE  Inv'
<1>. USE OwnershipAssumption
<1>. DEFINE d == running.dst
            s == running.src
<1>1. /\ d \in Objects /\ s \in Objects /\ d # s /\ s # Null
      /\ state[d] = "live" /\ state[s] = "live" /\ SameClass(d, s)
      /\ \A o \in Objects : state[o] # "dying"
  BY Assigning DEF Objects
<1>2. /\ live' = live \ ({header[d]} \cap Copies)
      /\ header' = [o \in Objects |-> IF o = d THEN header[s] ELSE IF o = s THEN Null ELSE header[o]]
      /\ UNCHANGED <<stream, handle, context, views, state>>
  BY <1>1, TransferredIs DEF StepHeader, Step
<1>3. HandleMoved /\ ~OnlyHandleMoved /\ ~HandleMoved' /\ ~OnlyHandleMoved'
  BY <1>1 DEF HandleMoved, OnlyHandleMoved, Idle, Objects
<1>4. TypeOK'
  <2>1. \A o \in Objects : header'[o] \in {Null} \cup (IF o \in Readers THEN Handles ELSE Copies)
    BY <1>1, <1>2 DEF Inv, TypeOK, SameClass, Objects
  <2>2. QED
    BY <1>1, <1>2, <2>1 DEF Inv, TypeOK, Idle
<1>5. RunningOK' /\ MembersOK'
  BY <1>1, <1>2 DEF Inv, RunningOK, MembersOK
<1>6. Exclusive' /\ OwnsLive'
  <2>1. /\ \A o \in Objects : handle[o] # Null => handle[o] \notin {header[d]} \cap Copies
        /\ \A o \in Objects : stream[o] # Null => stream[o] \notin {header[d]} \cap Copies
    BY <1>1 DEF Inv, TypeOK
  <2>2. Exclusive'
    BY <1>1, <1>2 DEF Inv, Exclusive, SameClass, Objects
  <2>3. \A w \in Writers : header'[w] # Null => header'[w] \in live'
    <3>. SUFFICES ASSUME NEW w \in Writers, header'[w] # Null PROVE header'[w] \in live'
      OBVIOUS
    <3>1. PICK v \in Writers : header'[w] = header[v] /\ v # d
      BY <1>1, <1>2 DEF SameClass, Objects
    <3>2. header[v] \in live
      BY <3>1 DEF Inv, OwnsLive
    <3>3. header[v] \notin {header[d]} \cap Copies
      BY <1>1, <3>1 DEF Inv, Exclusive, TypeOK, Objects
    <3>4. QED
      BY <1>2, <3>1, <3>2, <3>3
  <2>4. OwnsLive'
    BY <1>2, <2>1, <2>3 DEF Inv, OwnsLive
  <2>5. QED
    BY <2>2, <2>4
<1>7. NoLeak'
  <2>. SUFFICES ASSUME NEW x \in live, x \notin {header[d]} \cap Copies
       PROVE  \/ \E o \in Objects : stream'[o] = x
              \/ \E o \in Objects : handle'[o] = x
              \/ \E o \in Writers : header'[o] = x
    BY <1>2 DEF NoLeak
  <2>1. CASE \E w \in Writers : header[w] = x
    <3>1. PICK w \in Writers : header[w] = x
      BY <2>1
    <3>2. x \in Copies
      BY <3>1 DEF Inv, TypeOK, Objects, Heap
    <3>3. QED
      BY <1>1, <1>2, <3>1, <3>2 DEF SameClass, Objects
  <2>2. QED
    BY <1>2, <2>1 DEF Inv, NoLeak
<1>8. Paired'
  BY <1>1, <1>2, <1>3 DEF Inv, Paired
<1>9. Borrows'
  <2>1. handle[s] = Null
    BY <1>1, <1>3 DEF Inv, Paired
  <2>2. QED
    BY <1>1, <1>2, <1>3, <2>1 DEF Inv, Borrows, SameClass, Objects
<1>10. QED
  BY <1>4, <1>5, <1>6, <1>7, <1>8, <1>9 DEF Inv

\* Destruction begins with the header.
LEMMA DestroyHeaderInv ==
  ASSUME Inv, Step, running.src = Null, running.todo = <<"header", "handle", "stream">>,
         StepHeader, running' = [running EXCEPT !.todo = <<"handle", "stream">>], state' = state
  PROVE  Inv'
<1>. USE OwnershipAssumption
<1>. DEFINE d == running.dst
<1>1. /\ d \in Objects /\ d # Null /\ state[d] = "dying"
      /\ \A o \in Objects : state[o] = "dying" => o = d
      /\ running' = [todo |-> <<"handle", "stream">>, dst |-> d, src |-> Null]
  BY Destroying DEF Objects
<1>2. /\ live' = live \ ({header[d]} \cap Copies)
      /\ header' = [o \in Objects |-> IF o = d THEN Null ELSE header[o]]
      /\ UNCHANGED <<stream, handle, context, views, state>>
  <2>1. running.src # running.dst
    BY <1>1
  <2>2. Transferred(header).pointers = [o \in Objects |-> IF o = d THEN Null ELSE header[o]]
    BY <1>1, <2>1, TransferredIs DEF Objects
  <2>3. QED
    BY <2>1, <2>2, TransferredIs DEF StepHeader, Step
<1>3. /\ ~HandleMoved /\ ~OnlyHandleMoved /\ ~HandleMoved' /\ ~OnlyHandleMoved'
      /\ running'.dst = d /\ running'.src = Null /\ running' # Idle
      /\ running'.todo # <<"stream">>
  BY <1>1 DEF HandleMoved, OnlyHandleMoved, Idle, Objects
<1>4. TypeOK'
  <2>1. \A o \in Objects : header'[o] \in {Null} \cup (IF o \in Readers THEN Handles ELSE Copies)
    BY <1>2 DEF Inv, TypeOK
  <2>2. QED
    BY <1>1, <1>2, <2>1 DEF Inv, TypeOK
<1>5. RunningOK'
  BY <1>1, <1>2 DEF RunningOK
<1>6. MembersOK'
  BY <1>1, <1>2, <1>3 DEF Inv, MembersOK
<1>7. Exclusive' /\ OwnsLive'
  <2>1. /\ \A o \in Objects : handle[o] # Null => handle[o] \notin {header[d]} \cap Copies
        /\ \A o \in Objects : stream[o] # Null => stream[o] \notin {header[d]} \cap Copies
    BY <1>1 DEF Inv, TypeOK
  <2>2. Exclusive'
    BY <1>1, <1>2 DEF Inv, Exclusive, Objects
  <2>3. \A w \in Writers : w # d /\ header[w] # Null => header[w] \notin {header[d]} \cap Copies
    BY <1>1 DEF Inv, Exclusive, TypeOK, Objects
  <2>4. OwnsLive'
    BY <1>2, <2>1, <2>3 DEF Inv, OwnsLive, Objects
  <2>5. QED
    BY <2>2, <2>4
<1>8. NoLeak'
  <2>. SUFFICES ASSUME NEW x \in live, x \notin {header[d]} \cap Copies
       PROVE  \/ \E o \in Objects : stream'[o] = x
              \/ \E o \in Objects : handle'[o] = x
              \/ \E o \in Writers : header'[o] = x
    BY <1>2 DEF NoLeak
  <2>1. CASE \E w \in Writers : header[w] = x
    <3>1. PICK w \in Writers : header[w] = x
      BY <2>1
    <3>2. x \in Copies
      BY <3>1 DEF Inv, TypeOK, Objects, Heap
    <3>3. QED
      BY <1>1, <1>2, <3>1, <3>2 DEF Objects
  <2>2. QED
    BY <1>2, <2>1 DEF Inv, NoLeak
<1>9. Paired'
  BY <1>1, <1>2, <1>3 DEF Inv, Paired
<1>10. Borrows'
  BY <1>1, <1>2, <1>3 DEF Inv, Borrows, Objects
<1>11. QED
  BY <1>4, <1>5, <1>6, <1>7, <1>8, <1>9, <1>10 DEF Inv

\* The handle is freed next, while the adapter it may still call is there.
LEMMA DestroyHandleInv ==
  ASSUME Inv, Step, running.src = Null, running.todo = <<"handle", "stream">>,
         StepHandle, running' = [running EXCEPT !.todo = <<"stream">>], state' = state
  PROVE  Inv'
<1>. USE OwnershipAssumption
<1>. DEFINE d == running.dst
<1>1. /\ d \in Objects /\ d # Null /\ state[d] = "dying"
      /\ \A o \in Objects : state[o] = "dying" => o = d
      /\ running' = [todo |-> <<"stream">>, dst |-> d, src |-> Null]
  BY Destroying DEF Objects
<1>2. /\ live' = live \ {handle[d]}
      /\ handle' = [o \in Objects |-> IF o = d THEN Null ELSE handle[o]]
      /\ UNCHANGED <<stream, header, context, views, state>>
  <2>1. running.src # running.dst
    BY <1>1
  <2>2. Transferred(handle).pointers = [o \in Objects |-> IF o = d THEN Null ELSE handle[o]]
    BY <1>1, <2>1, TransferredIs DEF Objects
  <2>3. QED
    BY <2>1, <2>2, TransferredIs DEF StepHandle, Step
<1>3. /\ ~HandleMoved /\ ~OnlyHandleMoved /\ ~HandleMoved' /\ ~OnlyHandleMoved'
      /\ running'.dst = d /\ running'.src = Null /\ running' # Idle
  BY <1>1 DEF HandleMoved, OnlyHandleMoved, Idle, Objects
<1>4. TypeOK'
  BY <1>1, <1>2 DEF Inv, TypeOK
<1>5. RunningOK'
  BY <1>1, <1>2 DEF RunningOK
<1>6. MembersOK'
  <2>1. running.todo # <<"header", "handle", "stream">>
    OBVIOUS
  <2>2. QED
    BY <1>1, <1>2, <1>3, <2>1 DEF Inv, MembersOK
<1>7. Exclusive' /\ OwnsLive'
  <2>1. /\ \A o \in Objects : stream[o] # Null => stream[o] # handle[d]
        /\ \A w \in Writers : header[w] # Null => header[w] # handle[d]
    BY <1>1 DEF Inv, TypeOK, Objects
  <2>2. QED
    BY <1>1, <1>2, <2>1 DEF Inv, Exclusive, OwnsLive, Objects
<1>8. NoLeak'
  BY <1>1, <1>2 DEF Inv, NoLeak
<1>9. Paired'
  BY <1>1, <1>2, <1>3 DEF Inv, Paired
<1>10. Borrows'
  BY <1>1, <1>2, <1>3 DEF Inv, Borrows, Objects
<1>11. QED
  BY <1>4, <1>5, <1>6, <1>7, <1>8, <1>9, <1>10 DEF Inv

\* The adapter goes last; the variable is gone.
LEMMA DestroyStreamInv ==
  ASSUME Inv, Step, running.src = Null, running.todo = <<"stream">>,
         StepStream, running' = Idle, state' = [state EXCEPT ![running.dst] = "none"]
  PROVE  Inv'
<1>. USE OwnershipAssumption
<1>. DEFINE d == running.dst
<1>1. /\ d \in Objects /\ d # Null /\ state[d] = "dying"
      /\ \A o \in Objects : state[o] = "dying" => o = d
  BY Destroying DEF Objects
<1>2. /\ live' = live \ {stream[d]}
      /\ stream' = [o \in Objects |-> IF o = d THEN Null ELSE stream[o]]
      /\ UNCHANGED <<handle, header, context, views>>
  <2>1. running.src # running.dst
    BY <1>1
  <2>2. Transferred(stream).pointers = [o \in Objects |-> IF o = d THEN Null ELSE stream[o]]
    BY <1>1, <2>1, TransferredIs DEF Objects
  <2>3. QED
    BY <2>1, <2>2, TransferredIs DEF StepStream, Step
<1>3. ~HandleMoved /\ ~OnlyHandleMoved /\ ~HandleMoved' /\ ~OnlyHandleMoved'
  BY <1>1 DEF HandleMoved, OnlyHandleMoved, Idle, Objects
<1>4. handle[d] = Null /\ header[d] = Null
  <2>1. running.todo # <<"header", "handle", "stream">>
    OBVIOUS
  <2>2. QED
    BY <1>1, <2>1 DEF Inv, MembersOK
<1>5. TypeOK'
  BY <1>1, <1>2 DEF Inv, TypeOK, Idle
<1>6. RunningOK' /\ MembersOK'
  BY <1>1, <1>2, <1>4 DEF Inv, TypeOK, RunningOK, MembersOK
<1>7. Exclusive' /\ OwnsLive'
  <2>1. /\ \A o \in Objects : handle[o] # Null => handle[o] # stream[d]
        /\ \A w \in Writers : header[w] # Null => header[w] # stream[d]
    BY <1>1 DEF Inv, TypeOK, Objects
  <2>2. QED
    BY <1>1, <1>2, <2>1 DEF Inv, Exclusive, OwnsLive, Objects
<1>8. NoLeak'
  BY <1>1, <1>2 DEF Inv, NoLeak
<1>9. Paired'
  BY <1>1, <1>2, <1>3, <1>4 DEF Inv, Paired
<1>10. Borrows'
  BY <1>1, <1>2, <1>3 DEF Inv, TypeOK, Borrows, Objects
<1>11. QED
  BY <1>5, <1>6, <1>7, <1>8, <1>9, <1>10 DEF Inv

-----------------------------------------------------------------------------
(* The theorems *)

\* One member of a move assignment or of a destructor.
LEMMA StepInv ==
  ASSUME Inv, Step
  PROVE  Inv'
<1>1. CASE running.src = running.dst
  BY <1>1, SelfAssignInv
<1>2. CASE running.src # running.dst
  BY <1>2, StepCases, AssignHandleInv, AssignStreamInv, AssignHeaderInv,
     DestroyHeaderInv, DestroyHandleInv, DestroyStreamInv
<1>3. QED
  BY <1>1, <1>2

\* Every operation, and every member step of one, keeps the invariant.
LEMMA NextInv == Inv /\ [Next]_vars => Inv'
<1>. SUFFICES ASSUME Inv, [Next]_vars PROVE Inv'
  OBVIOUS
<1>1. CASE UNCHANGED vars
  BY <1>1 DEF vars, Inv, TypeOK, RunningOK, MembersOK, Exclusive, OwnsLive, NoLeak,
              Paired, Borrows, HandleMoved, OnlyHandleMoved
<1>2. CASE \E o \in Objects : OpenStream(o) \/ OpenPath(o) \/ OpenSucceeds(o) \/ OpenFails(o) \/ Destroy(o)
  BY <1>2, OpenStreamInv, OpenPathInv, OpenSucceedsInv, OpenFailsInv, DestroyInv
<1>3. CASE \E o, p \in Objects : SameClass(o, p) /\ (MoveConstruct(o, p) \/ MoveAssign(o, p))
  BY <1>3, MoveConstructInv, MoveAssignInv
<1>4. CASE \E w \in Writers : CallHeader(w)
  BY <1>4, CallHeaderInv
<1>5. CASE Step
  BY <1>5, StepInv
<1>6. QED
  BY <1>1, <1>2, <1>3, <1>4, <1>5 DEF Next

\* The state is well typed, a special member function runs on variables that
\* are live or dying, and handle, adapter and header are where it has moved them.
THEOREM Invariance == Spec => []Inv
BY InitInv, NextInv, PTL DEF Spec

\* A Rust handle never outlives the adapter it calls back into, for any number
\* of readers and writers and between any two member steps of a move
\* assignment or a destructor.
THEOREM AdaptersOutliveHandles == Spec => []AdapterOutlivesHandle
BY Invariance, InvImplies, PTL

\* Every heap object is owned by exactly one variable: no double free, no leak.
THEOREM OwnershipIsExclusive == Spec => []OwnedExactlyOnce
BY Invariance, InvImplies, PTL

\* A reader's header borrows from that reader's own handle, after any moves.
THEOREM HeadersBorrowOwnHandle == Spec => []HeaderBorrowsOwnHandle
BY Invariance, InvImplies, PTL

\* A handle and the adapter it was made for are held by the same variable.
THEOREM StreamsStayWithHandles == Spec => []StreamBelongsToHandle
BY Invariance, InvImplies, PTL

-----------------------------------------------------------------------------
(* ErrorReporting *)

\* The inductive invariant: what was caught is right because what is under
\* way is right, frame by frame.
ReportingInv == ReportingTypeOK /\ StatusBelongsToTop /\ CaughtErrorIsOwn

\* Before any call nothing was caught and nothing is under way.
LEMMA ReportingInitInv == ReportingInit => ReportingInv
BY ErrorAssumption
   DEF ReportingInit, ReportingInv, ReportingTypeOK, StatusBelongsToTop, CaughtErrorIsOwn, NewFrame, Frame, Kinds, Stages, Texts

\* The innermost frame of a thread that is in a call is a frame.
LEMMA TopTyped ==
  ASSUME ReportingTypeOK, NEW t \in Threads, NEW stage, InStage(t, stage)
  PROVE  /\ depth[t] \in 1 .. MaxDepth
         /\ Top(t) \in Frame
         /\ Top(t).stage = stage
         /\ depth[t] - 1 \in 0 .. MaxDepth
BY ErrorAssumption DEF ReportingTypeOK, InStage, Top

\* Calling keeps the invariant: the new frame is neither failed nor thrown,
\* and the frame it covers is not between guard and check.
LEMMA CallInv ==
  ASSUME ReportingInv, NEW t \in Threads, NEW kind \in Kinds, Call(t, kind)
  PROVE  ReportingInv'
<1>. USE ErrorAssumption DEF ReportingInv
<1>1. /\ depth[t] \in 0 .. MaxDepth
      /\ depth[t] + 1 \in 1 .. MaxDepth
      /\ NewFrame(kind) \in Frame
      /\ NewFrame(kind).stage = "rust"
  BY DEF ReportingTypeOK, Call, NewFrame, Frame, Stages, Texts
<1>2. ReportingTypeOK'
  BY <1>1 DEF ReportingTypeOK, Call
<1>3. StatusBelongsToTop'
  <2>. SUFFICES ASSUME NEW u \in Threads, NEW d \in 1 .. depth'[u]
       PROVE /\ frames'[u][d].stage = "status" => d = depth'[u] /\ last'[u] = frames'[u][d].error
             /\ frames'[u][d].stage = "unwinding" => frames'[u][d].message = frames'[u][d].error
    BY DEF StatusBelongsToTop
  <2>1. CASE u = t /\ d = depth[t] + 1
    BY <1>1, <2>1 DEF ReportingTypeOK, Call
  <2>2. CASE u = t /\ d # depth[t] + 1
    <3>1. d \in 1 .. depth[t] /\ d \in 1 .. MaxDepth /\ frames'[u][d] = frames[u][d]
      BY <1>1, <2>2 DEF ReportingTypeOK, Call
    <3>2. frames[t][depth[t]].stage # "status"
      BY <3>1, <2>2 DEF Call, InStage, Top, ReportingTypeOK
    <3>3. QED
      BY <2>2, <3>1, <3>2 DEF StatusBelongsToTop, Call
  <2>3. CASE u # t
    <3>1. depth'[u] = depth[u] /\ frames'[u] = frames[u] /\ last' = last
      BY <2>3 DEF ReportingTypeOK, Call
    <3>2. QED
      BY <3>1 DEF StatusBelongsToTop
  <2>4. QED
    BY <2>1, <2>2, <2>3
<1>4. QED
  BY <1>2, <1>3 DEF CaughtErrorIsOwn, Call

\* A step that rewrites only the innermost frame keeps the invariant when the
\* new frame is right about LAST_ERROR and its own message.
LEMMA SetTopInv ==
  ASSUME ReportingInv, NEW t \in Threads, NEW frame \in Frame, NEW text \in Texts,
         depth[t] \in 1 .. MaxDepth,
         SetTop(t, frame), depth' = depth, caught' = caught,
         last' = [last EXCEPT ![t] = text],
         frame.stage = "status" => text = frame.error,
         frame.stage = "unwinding" => frame.message = frame.error
  PROVE  ReportingInv'
<1>. USE ErrorAssumption DEF ReportingInv
<1>1. ReportingTypeOK'
  BY DEF ReportingTypeOK, SetTop
<1>2. StatusBelongsToTop'
  <2>. SUFFICES ASSUME NEW u \in Threads, NEW d \in 1 .. depth'[u]
       PROVE /\ frames'[u][d].stage = "status" => d = depth'[u] /\ last'[u] = frames'[u][d].error
             /\ frames'[u][d].stage = "unwinding" => frames'[u][d].message = frames'[u][d].error
    BY DEF StatusBelongsToTop
  <2>1. CASE u = t /\ d = depth[t]
    BY <2>1 DEF ReportingTypeOK, SetTop
  <2>2. CASE u = t /\ d # depth[t]
    <3>1. d \in 1 .. MaxDepth /\ d \in 1 .. depth[t] /\ frames'[u][d] = frames[u][d]
      BY <2>2 DEF ReportingTypeOK, SetTop
    <3>2. QED
      BY <2>2, <3>1 DEF StatusBelongsToTop
  <2>3. CASE u # t
    <3>1. frames'[u] = frames[u] /\ last'[u] = last[u]
      BY <2>3 DEF ReportingTypeOK, SetTop
    <3>2. QED
      BY <3>1 DEF StatusBelongsToTop
  <2>4. QED
    BY <2>1, <2>2, <2>3
<1>3. QED
  BY <1>1, <1>2 DEF CaughtErrorIsOwn

\* A step that drops the innermost frame, whatever it does to LAST_ERROR,
\* keeps what the frames below rely on: none of them is waiting for it.
LEMMA PopInv ==
  ASSUME ReportingTypeOK, StatusBelongsToTop, NEW t \in Threads, NEW text \in Texts,
         depth[t] \in 1 .. MaxDepth,
         Pop(t), frames' = frames, last' = [last EXCEPT ![t] = text]
  PROVE  StatusBelongsToTop'
<1>. SUFFICES ASSUME NEW u \in Threads, NEW d \in 1 .. depth'[u]
     PROVE /\ frames'[u][d].stage = "status" => d = depth'[u] /\ last'[u] = frames'[u][d].error
           /\ frames'[u][d].stage = "unwinding" => frames'[u][d].message = frames'[u][d].error
  BY DEF StatusBelongsToTop
<1>1. CASE u = t
  <2>1. d \in 1 .. depth[t] /\ d # depth[t]
    BY <1>1, ErrorAssumption DEF ReportingTypeOK, Pop
  <2>2. QED
    BY <1>1, <2>1 DEF StatusBelongsToTop
<1>2. CASE u # t
  <2>1. depth'[u] = depth[u] /\ last'[u] = last[u]
    BY <1>2 DEF ReportingTypeOK, Pop
  <2>2. QED
    BY <2>1 DEF StatusBelongsToTop
<1>3. QED
  BY <1>1, <1>2

\* Every step of a thread keeps the invariant.
LEMMA ReportingStepInv == ReportingInv /\ [ReportingNext]_reportingVars => ReportingInv'
<1>. SUFFICES ASSUME ReportingInv, [ReportingNext]_reportingVars PROVE ReportingInv'
  OBVIOUS
<1>. USE ErrorAssumption
<1>1. CASE UNCHANGED reportingVars
  BY <1>1 DEF ReportingInv, ReportingTypeOK, StatusBelongsToTop, CaughtErrorIsOwn, reportingVars
<1>2. CASE ReportingNext
  <2>1. PICK t \in Threads :
          \/ \E kind \in Kinds : Call(t, kind)
          \/ Callback(t) \/ CallbackReturns(t) \/ Succeeds(t)
          \/ \E message \in Messages : Fails(t, message)
          \/ Throw(t) \/ Catch(t)
    BY <1>2 DEF ReportingNext
  <2>2. last[t] \in Texts /\ last = [last EXCEPT ![t] = last[t]]
    BY DEF ReportingInv, ReportingTypeOK
  <2>3. CASE \E kind \in Kinds : Call(t, kind)
    BY <2>3, CallInv
  <2>4. CASE Callback(t)
    <3>1. InStage(t, "rust")
      BY <2>4 DEF Callback
    <3>2. [Top(t) EXCEPT !.stage = "callback"] \in Frame
      BY <3>1, TopTyped DEF ReportingInv, Frame, Stages
    <3>3. [Top(t) EXCEPT !.stage = "callback"].stage = "callback"
      BY <3>1, TopTyped DEF ReportingInv, Frame
    <3>4. QED
      BY <2>2, <2>4, <3>1, <3>2, <3>3, TopTyped, SetTopInv DEF ReportingInv, Callback
  <2>5. CASE CallbackReturns(t)
    <3>1. InStage(t, "callback")
      BY <2>5 DEF CallbackReturns
    <3>2. [Top(t) EXCEPT !.stage = "rust"] \in Frame
      BY <3>1, TopTyped DEF ReportingInv, Frame, Stages
    <3>3. [Top(t) EXCEPT !.stage = "rust"].stage = "rust"
      BY <3>1, TopTyped DEF ReportingInv, Frame
    <3>4. QED
      BY <2>2, <2>5, <3>1, <3>2, <3>3, TopTyped, SetTopInv DEF ReportingInv, CallbackReturns
  <2>6. CASE Succeeds(t)
    <3>1. depth[t] \in 1 .. MaxDepth /\ depth[t] - 1 \in 0 .. MaxDepth
      BY <2>6, TopTyped DEF ReportingInv, Succeeds
    <3>2. StatusBelongsToTop'
      BY <2>2, <2>6, <3>1, PopInv DEF ReportingInv, Succeeds
    <3>3. QED
      BY <2>6, <3>1, <3>2 DEF ReportingInv, ReportingTypeOK, CaughtErrorIsOwn, Succeeds, Pop
  <2>7. CASE \E message \in Messages : Fails(t, message)
    <3>1. PICK message \in Messages : Fails(t, message)
      BY <2>7
    <3>2. message \in Texts
      BY DEF Texts
    <3>3. InStage(t, "rust")
      BY <3>1 DEF Fails
    <3>4. CASE Top(t).kind = "check"
      <4>. DEFINE frame == [Top(t) EXCEPT !.stage = "status", !.error = message]
      <4>1. Top(t) \in Frame /\ depth[t] \in 1 .. MaxDepth
        BY <3>3, TopTyped DEF ReportingInv
      <4>2. frame \in Frame /\ frame.stage = "status" /\ frame.error = message
        BY <4>1, <3>2 DEF Frame, Stages
      <4>3. SetTop(t, frame) /\ depth' = depth
        BY <3>1, <3>4 DEF Fails
      <4>4. QED
        BY <3>1, <3>2, <4>1, <4>2, <4>3, SetTopInv DEF Fails
    <3>5. CASE Top(t).kind = "free"
      <4>1. depth[t] \in 1 .. MaxDepth /\ depth[t] - 1 \in 0 .. MaxDepth
        BY <3>3, TopTyped DEF ReportingInv
      <4>2. Pop(t) /\ frames' = frames
        BY <3>1, <3>5 DEF Fails
      <4>3. StatusBelongsToTop'
        BY <3>1, <3>2, <4>1, <4>2, PopInv DEF ReportingInv, Fails
      <4>4. QED
        BY <3>1, <3>2, <4>1, <4>2, <4>3 DEF ReportingInv, ReportingTypeOK, CaughtErrorIsOwn, Fails, Pop
    <3>6. QED
      BY <3>1, <3>4, <3>5 DEF Fails
  <2>8. CASE Throw(t)
    <3>. DEFINE frame == [Top(t) EXCEPT !.stage = "unwinding", !.message = last[t]]
    <3>1. InStage(t, "status")
      BY <2>8 DEF Throw
    <3>2. Top(t) \in Frame /\ depth[t] \in 1 .. MaxDepth /\ Top(t).stage = "status"
      BY <3>1, TopTyped DEF ReportingInv
    <3>3. last[t] = Top(t).error
      BY <3>2 DEF ReportingInv, StatusBelongsToTop, Top
    <3>4. frame \in Frame /\ frame.stage = "unwinding" /\ frame.message = frame.error
      BY <2>2, <3>2, <3>3 DEF Frame, Stages
    <3>5. QED
      BY <2>2, <2>8, <3>2, <3>4, SetTopInv DEF Throw
  <2>9. CASE Catch(t)
    <3>1. InStage(t, "unwinding")
      BY <2>9 DEF Catch
    <3>2. /\ Top(t) \in Frame /\ Top(t).stage = "unwinding"
          /\ depth[t] \in 1 .. MaxDepth /\ depth[t] - 1 \in 0 .. MaxDepth
      BY <3>1, TopTyped DEF ReportingInv
    <3>3. Top(t).message = Top(t).error
      BY <3>2 DEF ReportingInv, StatusBelongsToTop, Top
    <3>4. StatusBelongsToTop'
      BY <2>2, <2>9, <3>2, PopInv DEF ReportingInv, Catch
    <3>5. ReportingTypeOK'
      BY <2>9, <3>2 DEF ReportingInv, ReportingTypeOK, Catch, Pop
    <3>6. CaughtErrorIsOwn'
      BY <2>9, <3>2, <3>3 DEF ReportingInv, ReportingTypeOK, CaughtErrorIsOwn, Catch
    <3>7. QED
      BY <3>4, <3>5, <3>6 DEF ReportingInv
  <2>10. QED
    BY <2>1, <2>3, <2>4, <2>5, <2>6, <2>7, <2>8, <2>9
<1>3. QED
  BY <1>1, <1>2

\* Every reachable state is well typed, and every failure under way is still
\* told from LAST_ERROR or from its own copy.
THEOREM ReportingInvariance == ReportingSpec => []ReportingInv
BY ReportingInitInv, ReportingStepInv, PTL DEF ReportingSpec

\* A caught las::Error carries the message of the call that failed, for any
\* number of threads and any nesting of callbacks and destructors.
THEOREM CaughtErrorsAreOwn == ReportingSpec => []CaughtErrorIsOwn
<1>1. ReportingInv => CaughtErrorIsOwn
  BY DEF ReportingInv
<1>2. QED
  BY ReportingInvariance, <1>1, PTL

\* Between the failed Rust call and the throw of las::Error, LAST_ERROR is that
\* call's own: no other call of the thread, no callback and no destructor comes
\* in between, and what is already unwinding carries its own copy.
THEOREM StatusesBelongToTop == ReportingSpec => []StatusBelongsToTop
<1>1. ReportingInv => StatusBelongsToTop
  BY DEF ReportingInv
<1>2. QED
  BY ReportingInvariance, <1>1, PTL
=============================================================================
