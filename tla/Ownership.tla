----------------------------- MODULE Ownership ------------------------------
(***************************************************************************)
(* Who owns what behind las::Reader, las::CopcReader and las::Writer: an   *)
(* object holds a stream adapter (input_, output_), a Rust handle (handle_)*)
(* that calls back into that adapter, and a header (header_).  A reader's  *)
(* header borrows the one inside its handle; a writer's header is a copy   *)
(* that header() makes anew.  Objects are moved, assigned and destroyed in *)
(* any order.                                                              *)
(*                                                                         *)
(* The special member functions run member by member and free what the     *)
(* member held, so they are one step per member: the Rust writer closes    *)
(* while it is freed, and must still find its adapter then.                *)
(* Readers and CopcReaders have the same members and the same functions.   *)
(***************************************************************************)
EXTENDS Integers, Sequences, FiniteSets

CONSTANTS Readers, Writers,            \* C++ variables
          Adapters, Handles, Copies,   \* heap objects
          Null

ASSUME OwnershipAssumption ==
  /\ Readers \cap Writers = {}
  /\ Adapters \cap Handles = {} /\ Handles \cap Copies = {} /\ Copies \cap Adapters = {}
  /\ Null \notin Readers \cup Writers \cup Adapters \cup Handles \cup Copies

Objects == Readers \cup Writers
Heap == Adapters \cup Handles \cup Copies

VARIABLES
  state,    \* of each variable: "none", "opening", "live" or "dying"
  stream,   \* input_ / output_, a unique_ptr
  handle,   \* handle_, a unique_ptr with a Rust deleter
  header,   \* header_: the handle it borrows from, or the copy it owns
  live,     \* the heap objects that are allocated
  context,  \* of each Rust handle: the adapter it calls, or Null for a file
  running,  \* the special member function being executed
  views     \* the header references that users of writers hold

vars == <<state, stream, handle, header, live, context, running, views>>

Idle == [todo |-> <<>>, dst |-> Null, src |-> Null]

Init ==
  /\ state = [o \in Objects |-> "none"]
  /\ stream = [o \in Objects |-> Null]
  /\ handle = [o \in Objects |-> Null]
  /\ header = [o \in Objects |-> Null]
  /\ live = {}
  /\ context = [h \in Handles |-> Null]
  /\ running = Idle
  /\ views = {}

-----------------------------------------------------------------------------
(* Construction: open *)

\* make_unique of the adapter, for the constructors that take a stream.
OpenStream(o) ==
  /\ running = Idle
  /\ state[o] = "none"
  /\ \E a \in Adapters \ live :
       /\ live' = live \cup {a}
       /\ stream' = [stream EXCEPT ![o] = a]
  /\ state' = [state EXCEPT ![o] = "opening"]
  /\ UNCHANGED <<handle, header, context, running, views>>

\* from_path has no adapter.
OpenPath(o) ==
  /\ running = Idle
  /\ state[o] = "none"
  /\ state' = [state EXCEPT ![o] = "opening"]
  /\ UNCHANGED <<stream, handle, header, live, context, running, views>>

\* Rust made the handle: the private constructor takes both pointers.
OpenSucceeds(o) ==
  /\ state[o] = "opening"
  /\ \E h \in Handles \ live :
       /\ live' = live \cup {h}
       /\ context' = [context EXCEPT ![h] = stream[o]]
       /\ handle' = [handle EXCEPT ![o] = h]
       /\ header' = [header EXCEPT ![o] = IF o \in Readers THEN h ELSE Null]
  /\ state' = [state EXCEPT ![o] = "live"]
  /\ UNCHANGED <<stream, running, views>>

\* check throws; unwinding frees the adapter.
OpenFails_Leaks(o) ==
  /\ state[o] = "opening"
  /\ stream' = [stream EXCEPT ![o] = Null]
  /\ state' = [state EXCEPT ![o] = "none"]
  /\ UNCHANGED <<handle, header, live, context, running, views>>

OpenFails(o) ==
  /\ state[o] = "opening"
  /\ live' = live \ {stream[o]}
  /\ stream' = [stream EXCEPT ![o] = Null]
  /\ state' = [state EXCEPT ![o] = "none"]
  /\ UNCHANGED <<handle, header, context, running, views>>

-----------------------------------------------------------------------------
(* Move construction, move assignment, destruction *)

\* The defaulted move constructor: the members change hands.
MoveConstruct(dst, src) ==
  /\ running = Idle
  /\ state[dst] = "none"
  /\ state[src] = "live"
  /\ state' = [state EXCEPT ![dst] = "live"]
  /\ stream' = [stream EXCEPT ![dst] = stream[src], ![src] = Null]
  /\ handle' = [handle EXCEPT ![dst] = handle[src], ![src] = Null]
  /\ header' = [header EXCEPT ![dst] = header[src], ![src] = Null]
  /\ UNCHANGED <<live, context, running, views>>

\* The body of the move assignment operators.
AssignOrder_Memberwise == <<"stream", "handle", "header">>
AssignOrder_NoHeader == <<"handle", "stream">>
AssignOrder_NoStream == <<"handle", "header">>
AssignOrder == <<"handle", "stream", "header">>

\* Members are destroyed in the reverse of their declaration: header_ is the
\* last one declared, the adapter the first.
DestroyOrder == <<"header", "handle", "stream">>

MoveAssign(dst, src) ==
  /\ running = Idle
  /\ state[dst] = "live"
  /\ state[src] = "live"
  /\ running' = [todo |-> AssignOrder, dst |-> dst, src |-> src]
  /\ UNCHANGED <<state, stream, handle, header, live, context, views>>

Destroy(o) ==
  /\ running = Idle
  /\ state[o] = "live"
  /\ state' = [state EXCEPT ![o] = "dying"]
  /\ running' = [todo |-> DestroyOrder, dst |-> o, src |-> Null]
  /\ views' = {v \in views : v.of # o}
  /\ UNCHANGED <<stream, handle, header, live, context>>

\* unique_ptr::operator=(&&) and ~unique_ptr: take the source's pointer and
\* delete the old one.  Assigning a member to itself changes nothing.
Transferred(member) ==
  LET old == member[running.dst]
      new == IF running.src = Null THEN Null ELSE member[running.src]
  IN  IF running.src = running.dst
      THEN [pointers |-> member, freed |-> {}]
      ELSE [pointers |-> [o \in Objects |-> CASE o = running.dst -> new
                                              [] o = running.src -> Null
                                              [] OTHER -> member[o]],
            freed |-> {old}]

StepStream ==
  LET t == Transferred(stream)
  IN  stream' = t.pointers /\ live' = live \ t.freed /\ UNCHANGED <<handle, header>>

StepHandle ==
  LET t == Transferred(handle)
  IN  handle' = t.pointers /\ live' = live \ t.freed /\ UNCHANGED <<stream, header>>

\* A borrowed header frees nothing.
StepHeader ==
  LET t == Transferred(header)
  IN  header' = t.pointers /\ live' = live \ (t.freed \cap Copies) /\ UNCHANGED <<stream, handle>>

Step ==
  /\ running # Idle
  /\ LET member == Head(running.todo)
         rest == Tail(running.todo)
     IN  /\ \/ member = "stream" /\ StepStream
            \/ member = "handle" /\ StepHandle
            \/ member = "header" /\ StepHeader
         /\ running' = IF rest = <<>> THEN Idle ELSE [running EXCEPT !.todo = rest]
         /\ state' = [state EXCEPT ![running.dst] =
                        IF @ = "dying" /\ rest = <<>> THEN "none" ELSE @]
  /\ UNCHANGED <<context, views>>

-----------------------------------------------------------------------------
(* Use *)

\* Writer::header: a new copy replaces the cached one, and with it the views.
CallHeader(w) ==
  /\ running = Idle
  /\ state[w] = "live"
  /\ handle[w] # Null
  /\ \E c \in Copies \ live :
       /\ live' = (live \cup {c}) \ {header[w]}
       /\ header' = [header EXCEPT ![w] = c]
       /\ views' = {v \in views : v.of # w} \cup {[of |-> w, copy |-> c]}
  /\ UNCHANGED <<state, stream, handle, context, running>>

-----------------------------------------------------------------------------
SameClass(o, p) == {o, p} \subseteq Readers \/ {o, p} \subseteq Writers

Next ==
  \/ \E o \in Objects : OpenStream(o) \/ OpenPath(o) \/ OpenSucceeds(o) \/ OpenFails(o) \/ Destroy(o)
  \/ \E o, p \in Objects : SameClass(o, p) /\ (MoveConstruct(o, p) \/ MoveAssign(o, p))
  \/ \E w \in Writers : CallHeader(w)
  \/ Step

Spec == Init /\ [][Next]_vars

-----------------------------------------------------------------------------
(* Properties *)

\* The type of the state: readers borrow their header, writers own a copy.
TypeOK ==
  /\ state \in [Objects -> {"none", "opening", "live", "dying"}]
  /\ stream \in [Objects -> Adapters \cup {Null}]
  /\ handle \in [Objects -> Handles \cup {Null}]
  /\ header \in [Objects -> Handles \cup Copies \cup {Null}]
  /\ \A o \in Objects : header[o] \in {Null} \cup (IF o \in Readers THEN Handles ELSE Copies)
  /\ live \subseteq Heap
  /\ context \in [Handles -> Adapters \cup {Null}]
  /\ running.todo \in Seq({"stream", "handle", "header"})
  /\ views \subseteq [of : Writers, copy : Copies]

\* A Rust handle never outlives the adapter it calls back into, in no step of
\* an assignment or a destruction either: a writer that closes while it is
\* freed still writes through a live adapter (writer.hpp, reader.hpp, copc.hpp).
AdapterOutlivesHandle ==
  \A h \in Handles \cap live : context[h] # Null => context[h] \in live

\* Every pointer an object owns.
OwnedBy(o) ==
  ({stream[o], handle[o]} \cup (IF o \in Writers THEN {header[o]} ELSE {})) \ {Null}

\* Exclusive ownership: what is allocated is owned by exactly one object, so
\* nothing is freed twice, and nothing leaks, whatever is moved where and
\* whichever constructor failed.
OwnedExactlyOnce ==
  /\ \A p \in live : \E o \in Objects : p \in OwnedBy(o)
  /\ \A o \in Objects : OwnedBy(o) \subseteq live
  /\ \A o, p \in Objects : o # p => OwnedBy(o) \cap OwnedBy(p) = {}

\* Between two calls a reader's header borrows from the handle that very
\* reader owns, also after moves; and a reader that was moved from has none.
HeaderBorrowsOwnHandle ==
  running = Idle => \A r \in Readers : state[r] = "live" => header[r] = handle[r]

\* A handle stays with the adapter it was made for.
StreamBelongsToHandle ==
  running = Idle =>
    \A o \in Objects : state[o] = "live" /\ handle[o] # Null => context[handle[o]] = stream[o]

Valid(v) == header[v.of] = v.copy /\ v.copy \in live

\* Of Writer::header, writer.hpp says "the returned reference and views into it
\* stay valid until the next call of header() or the writer's destruction".
\* Moving the writer or assigning to it takes the header away before that.
HeaderViewsValidUntilDestroyed == running = Idle => \A v \in views : Valid(v)
=============================================================================
