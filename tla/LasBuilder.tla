----------------------------- MODULE LasBuilder -----------------------------
(***************************************************************************)
(* What docs/ARCHITECTURE.md promises of Builder: it behaves as the las-rs *)
(* builder, a plain value with all the fields, hidden ones included.       *)
(***************************************************************************)
EXTENDS HeaderValues

CONSTANTS Builders

VARIABLES builder,  \* per variable the las-rs builder it stands for, or None
          header,   \* the caller's header
          answer    \* whether the last call succeeded

vars == <<builder, header, answer>>

Init ==
  /\ builder = [b \in Builders |-> None]
  /\ header \in Headers
  /\ answer = TRUE

Become(b, value) ==
  /\ builder' = [builder EXCEPT ![b] = value]
  /\ answer' = TRUE
  /\ UNCHANGED header

New(b) == \E v \in VersionsTried : Become(b, Full(DefaultFields(v), 0))
From(b) == Become(b, header)
Copy(b, c) == builder[c] # None /\ Become(b, builder[c])
Edit(b) ==
  /\ builder[b] # None
  /\ \E f \in Fields : Become(b, Full(f, builder[b].hidden))

IntoHeader(b) ==
  /\ builder[b] # None
  /\ IF Accepted(builder[b].fields) THEN header' = builder[b] /\ answer' = TRUE
     ELSE UNCHANGED header /\ answer' = FALSE
  /\ UNCHANGED builder

ChangeHeader ==
  /\ \E n \in 0 .. MaxPoints : header' = Full(header.fields, n)
  /\ answer' = TRUE
  /\ UNCHANGED builder

Next ==
  \/ \E b \in Builders :
       \/ New(b) \/ From(b) \/ \E c \in Builders : Copy(b, c)
       \/ Edit(b)
       \/ IntoHeader(b)
  \/ ChangeHeader

Spec == Init /\ [][Next]_vars
=============================================================================
