--------------------------- MODULE ErrorReporting ---------------------------
(***************************************************************************)
(* How the failure of a call reaches the C++ caller: guard of              *)
(* rust/src/error.rs turns errors and panics into a status and stores the  *)
(* message in the thread's LAST_ERROR; check of include/lasrs/error.hpp    *)
(* sees the status and throws a las::Error with that message.              *)
(*                                                                         *)
(* Several threads make calls.  On each of them calls nest: Rust calls     *)
(* back into a stream, whose C++ code may use the library itself, and the  *)
(* destructors that run while an exception unwinds free handles, which is  *)
(* a guarded call again (lasrs_writer_free) though no one looks at its     *)
(* status.  Messages are model values; a frame remembers the message its   *)
(* call failed with.                                                       *)
(***************************************************************************)
EXTENDS Naturals

CONSTANTS Threads,
          Messages,
          Empty,     \* the message of LAST_ERROR before any failure
          MaxDepth   \* bound on the nesting of calls

ASSUME ErrorAssumption ==
  /\ MaxDepth \in Nat
  /\ Empty \notin Messages

Texts == Messages \cup {Empty}

\* "rust": inside guard; "callback": in a callback made from there; "status":
\* guard returned a failure; "unwinding": thrown and not yet caught.
Stages == {"rust", "callback", "status", "unwinding"}

\* Whether the caller passes the status to check, or drops it as Deleter does.
Kinds == {"check", "free"}

Frame == [kind : Kinds, stage : Stages, error : Texts, message : Texts]

VARIABLES last,    \* LAST_ERROR of each thread
          depth,   \* nesting of the calls of each thread
          frames,  \* its calls, the innermost at depth
          caught   \* the last exception each thread caught

reportingVars == <<last, depth, frames, caught>>

NewFrame(kind) == [kind |-> kind, stage |-> "rust", error |-> Empty, message |-> Empty]

ReportingInit ==
  /\ last = [t \in Threads |-> Empty]
  /\ depth = [t \in Threads |-> 0]
  /\ frames = [t \in Threads |-> [d \in 1 .. MaxDepth |-> NewFrame("check")]]
  /\ caught = [t \in Threads |-> NewFrame("check")]

Top(t) == frames[t][depth[t]]

InStage(t, stage) == depth[t] > 0 /\ Top(t).stage = stage

SetTop(t, frame) == frames' = [frames EXCEPT ![t][depth[t]] = frame]

Pop(t) == depth' = [depth EXCEPT ![t] = @ - 1]

-----------------------------------------------------------------------------
(* Rust *)

\* C++ code calls the library: the program, a callback, or a destructor.
Call(t, kind) ==
  /\ depth[t] = 0 \/ InStage(t, "callback") \/ InStage(t, "unwinding")
  /\ depth[t] < MaxDepth
  /\ depth' = [depth EXCEPT ![t] = @ + 1]
  /\ frames' = [frames EXCEPT ![t][depth[t] + 1] = NewFrame(kind)]
  /\ UNCHANGED <<last, caught>>

Callback(t) ==
  /\ InStage(t, "rust")
  /\ SetTop(t, [Top(t) EXCEPT !.stage = "callback"])
  /\ UNCHANGED <<last, depth, caught>>

\* Also with an exception in it, which the adapter catches.
CallbackReturns(t) ==
  /\ InStage(t, "callback")
  /\ SetTop(t, [Top(t) EXCEPT !.stage = "rust"])
  /\ UNCHANGED <<last, depth, caught>>

\* guard: f returned Ok.
Succeeds(t) ==
  /\ InStage(t, "rust")
  /\ Pop(t)
  /\ UNCHANGED <<last, frames, caught>>

\* The second failure is not stored.
Fails_KeepsFirst(t, message) ==
  /\ InStage(t, "rust")
  /\ last' = [last EXCEPT ![t] = IF @ = Empty THEN message ELSE @]
  /\ \/ /\ Top(t).kind = "check"
        /\ SetTop(t, [Top(t) EXCEPT !.stage = "status", !.error = message])
        /\ UNCHANGED depth
     \/ /\ Top(t).kind = "free"
        /\ Pop(t)
        /\ UNCHANGED frames
  /\ UNCHANGED caught

\* guard: the message of the error or the panic, then the status.
Fails(t, message) ==
  /\ InStage(t, "rust")
  /\ last' = [last EXCEPT ![t] = message]
  /\ \/ /\ Top(t).kind = "check"
        /\ SetTop(t, [Top(t) EXCEPT !.stage = "status", !.error = message])
        /\ UNCHANGED depth
     \/ /\ Top(t).kind = "free"
        /\ Pop(t)
        /\ UNCHANGED frames
  /\ UNCHANGED caught

-----------------------------------------------------------------------------
(* C++ *)

\* throw_last_error copies the message into the exception.
Throw(t) ==
  /\ InStage(t, "status")
  /\ SetTop(t, [Top(t) EXCEPT !.stage = "unwinding", !.message = last[t]])
  /\ UNCHANGED <<last, depth, caught>>

\* An exception that refers to the message of lasrs_last_error.
Catch_ReadsLate(t) ==
  /\ InStage(t, "unwinding")
  /\ caught' = [caught EXCEPT ![t] = [Top(t) EXCEPT !.message = last[t]]]
  /\ Pop(t)
  /\ UNCHANGED <<last, frames>>

Catch(t) ==
  /\ InStage(t, "unwinding")
  /\ caught' = [caught EXCEPT ![t] = Top(t)]
  /\ Pop(t)
  /\ UNCHANGED <<last, frames>>

-----------------------------------------------------------------------------
ReportingNext ==
  \E t \in Threads :
    \/ \E kind \in Kinds : Call(t, kind)
    \/ Callback(t) \/ CallbackReturns(t) \/ Succeeds(t)
    \/ \E message \in Messages : Fails(t, message)
    \/ Throw(t) \/ Catch(t)

ReportingSpec == ReportingInit /\ [][ReportingNext]_reportingVars

-----------------------------------------------------------------------------
(* Properties *)

\* The type of the state.
ReportingTypeOK ==
  /\ last \in [Threads -> Texts]
  /\ depth \in [Threads -> 0 .. MaxDepth]
  /\ frames \in [Threads -> [1 .. MaxDepth -> Frame]]
  /\ caught \in [Threads -> Frame]

\* The exception a caller catches carries the message of the very call that
\* failed: not that of a call another thread, a callback or a destructor made
\* before or meanwhile (guard, throw_last_error).
CaughtErrorIsOwn == \A t \in Threads : caught[t].message = caught[t].error

\* Why it does: between guard and check nothing else runs on the thread, so
\* LAST_ERROR is still the message of the innermost call, and an exception
\* under way already holds its copy.
StatusBelongsToTop ==
  \A t \in Threads : \A d \in 1 .. depth[t] :
    /\ frames[t][d].stage = "status" => d = depth[t] /\ last[t] = frames[t][d].error
    /\ frames[t][d].stage = "unwinding" => frames[t][d].message = frames[t][d].error
=============================================================================
