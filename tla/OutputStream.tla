---------------------------- MODULE OutputStream ----------------------------
(***************************************************************************)
(* The output adapter on its own: any callback at any time.                *)
(***************************************************************************)
EXTENDS OutputCalls

CONSTANT Writes  \* the byte sequences that are written

ASSUME WritesAssumption == Writes \subseteq Seq(Int)

VARIABLE ret  \* the answer of the last call

File == INSTANCE WritableFile
          WITH data <- SubSeq(dev.content, Start + 1, Len(dev.content)), pos <- dev.put - Start

adapterVars == <<dev, ret>>

AdapterInit ==
  /\ dev \in {NewDevice(size, room) : size \in Sizes, room \in Rooms}
  /\ ret = [call |-> File!FlushCall, ok |-> TRUE, position |-> 0]

Called(call, outcomes) ==
  \E o \in outcomes :
    /\ dev' = o.dev
    /\ ret' = [call |-> call, ok |-> o.ok, position |-> o.position]

AdapterNext ==
  \/ \E bytes \in Writes : Called(File!WriteCall(bytes), WriteCall(dev, bytes))
  \/ \E origin \in Origins : \E offset \in Offsets(origin) :
       Called(File!SeekCall(offset, origin), SeekCall(dev, offset, origin))
  \/ Called(File!FlushCall, FlushCall(dev))

AdapterSpec == AdapterInit /\ [][AdapterNext]_adapterVars

-----------------------------------------------------------------------------
(* Properties *)

\* What was in the stream before the adapter was made is never touched
\* (stream.hpp: positions are relative to where the stream was).
PrefixUntouched == \A k \in 1 .. Start : dev.content[k] = Old

\* The adapter is a writable file: a successful call stores exactly its bytes
\* at the position, or lands where a file would with zeros in between; a
\* failed one changes nothing else.
ImplementsFile == File!Spec
=============================================================================
