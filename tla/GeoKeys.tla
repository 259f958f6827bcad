------------------------------ MODULE GeoKeys -------------------------------
(***************************************************************************)
(* Header::get_geotiff_crs: las-rs decodes the GeoTIFF records into a list *)
(* of keys behind a handle, the C++ side copies them one view at a time    *)
(* and frees the handle, and GeoTiffCrs answers questions from its copy.   *)
(* The data of a key is a number, a text or a list of doubles; a copy may  *)
(* run out of memory.                                                      *)
(***************************************************************************)
EXTENDS Naturals, Sequences, SequencesExt

CONSTANTS Ids,      \* GeoTIFF key ids
          Numbers,  \* values of 16 bits, zero among them
          MaxKeys,  \* bound on the length of a list
          None      \* an optional without a value

Entry(id, kind, value) == [id |-> id, kind |-> kind, value |-> value]

\* The value of a text or of doubles is not looked at, other than as itself.
Entries ==
  {Entry(id, "u16", n) : id \in Ids, n \in Numbers} \cup
  {Entry(id, kind, kind) : id \in Ids, kind \in {"string", "doubles"}}

VARIABLES found,   \* what las-rs makes of the header: <<"none">>, <<"error">>, <<"keys", list>>
          handle,  \* whether the list behind the handle is alive
          copy,    \* the entries copied so far
          pc       \* "ready", "copying", "returned", "nullopt" or "thrown"

vars == <<found, handle, copy, pc>>

Init ==
  /\ found \in {<<"none">>, <<"error">>} \cup {<<"keys", l>> : l \in SeqOf(Entries, MaxKeys)}
  /\ handle = FALSE
  /\ copy = <<>>
  /\ pc = "ready"

-----------------------------------------------------------------------------
\* The view of an entry has all fields, zeros in those of the other kinds.
EntryToC(e) ==
  [id |-> e.id, kind |-> e.kind,
   u16_value |-> IF e.kind = "u16" THEN e.value ELSE 0,
   string |-> IF e.kind = "string" THEN e.value ELSE None,
   doubles |-> IF e.kind = "doubles" THEN e.value ELSE None]

EntryFromC(c) ==
  CASE c.kind = "string" -> Entry(c.id, "string", c.string)
    [] c.kind = "doubles" -> Entry(c.id, "doubles", c.doubles)
    [] c.kind = "u16" -> Entry(c.id, "u16", c.u16_value)

u16_value_FirstNumber(entries, id) ==
  LET keys == {i \in DOMAIN entries : entries[i].id = id /\ entries[i].kind = "u16"}
  IN  IF keys = {} THEN None ELSE entries[Min(keys)].value

\* The four getters, each with its id: the first entry with the key, if its
\* data is a u16.
u16_value(entries, id) ==
  LET keys == {i \in DOMAIN entries : entries[i].id = id}
      first == entries[Min(keys)]
  IN  IF keys = {} \/ first.kind # "u16" THEN None ELSE first.value

-----------------------------------------------------------------------------
\* lasrs_header_get_geotiff_crs: an error, a null handle, or a list.
get_geotiff_crs ==
  /\ pc = "ready"
  /\ copy' = <<>>
  /\ pc' = CASE found[1] = "error" -> "thrown"
             [] found[1] = "none" -> "nullopt"
             [] found[1] = "keys" -> "copying"
  /\ handle' = (found[1] = "keys")
  /\ UNCHANGED found

CopyEntry ==
  /\ pc = "copying"
  /\ Len(copy) < Len(found[2])
  /\ copy' = Append(copy, EntryFromC(EntryToC(found[2][Len(copy) + 1])))
  /\ UNCHANGED <<found, handle, pc>>

\* Out of memory; the handle has an owner, whose destructor runs.
CopyFails ==
  /\ pc = "copying" /\ Len(copy) < Len(found[2])
  /\ pc' = "thrown"
  /\ handle' = FALSE
  /\ UNCHANGED <<found, copy>>

Return ==
  /\ pc = "copying"
  /\ Len(copy) = Len(found[2])
  /\ pc' = "returned"
  /\ handle' = FALSE
  /\ UNCHANGED <<found, copy>>

\* The caller asks again.
Again ==
  /\ pc \in {"returned", "nullopt", "thrown"}
  /\ pc' = "ready"
  /\ UNCHANGED <<found, handle, copy>>

Next == get_geotiff_crs \/ CopyEntry \/ CopyFails \/ Return \/ Again

Spec == Init /\ [][Next]_vars

-----------------------------------------------------------------------------
(* Properties *)

\* Every way out frees the list behind the handle, running out of memory half
\* way included.  What get_geotiff_crs returns is what las-rs decoded, in its
\* order, zeros and kinds that hold no number included, and a getter gives the
\* number las-rs gives: that of the one entry that no other entry with its key
\* comes before, if it is a number.
GeoTiffFaithful ==
  /\ handle <=> pc = "copying"
  /\ pc = "returned" =>
       /\ copy = found[2]
       /\ \A id \in Ids, n \in Numbers :
            u16_value(copy, id) = n <=>
              \E i \in DOMAIN found[2] :
                /\ found[2][i] = Entry(id, "u16", n)
                /\ \A j \in 1 .. i - 1 : found[2][j].id # id
=============================================================================
