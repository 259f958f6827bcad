----------------------------- MODULE StreamCalls ----------------------------
(***************************************************************************)
(* The calls that cross from las-rs into an input stream: their arguments  *)
(* and their answers.  Only positions matter, so a read answers with the       *)
(* interval of the data it delivers, `count' bytes from `from', and a seek *)
(* with its new position in `from'.                                        *)
(***************************************************************************)
EXTENDS StreamSeek

CONSTANTS Length,   \* bytes of data, from where the stream stood
          MaxRead,  \* bound on the size of one read
          Faulty    \* may the stream buffer fail a legal call?

ASSUME StreamAssumption ==
  /\ Length \in Nat
  /\ MaxRead \in Nat
  /\ MaxOffset \in Nat
  /\ Length <= MaxOffset
  /\ Faulty \in BOOLEAN

ReadCall(len) == [op |-> "read", arg |-> len, origin |-> "current"]
SeekCall(offset, origin) == [op |-> "seek", arg |-> offset, origin |-> origin]
NoCall == ReadCall(0)

\* An answer names its call, so that a specification can say which answer
\* each call may get.
Answer(call, from, count) == [call |-> call, ok |-> TRUE, from |-> from, count |-> count]
Failure(call) == [call |-> call, ok |-> FALSE, from |-> 0, count |-> 0]

Calls == {ReadCall(len) : len \in 0 .. MaxRead}
           \cup UNION {{SeekCall(offset, origin) : offset \in Offsets(origin)} : origin \in Origins}
Answers == [call : Calls, ok : BOOLEAN, from : 0 .. MaxOffset, count : 0 .. MaxRead]
=============================================================================
