----------------------------- MODULE CrsRecords -----------------------------
(***************************************************************************)
(* The VLRs of a Header and which of them describe its coordinate system.  *)
(* Vlr of include/lasrs/types.hpp classifies records with code of its own, *)
(* over the copies that Header::vlrs, evlrs and all_vlrs return; las-rs    *)
(* decides for itself what has_crs_vlrs answers.  set_wkt_crs and          *)
(* remove_crs_vlrs, which header.hpp only hands on, are there for the      *)
(* records they leave.                                                     *)
(***************************************************************************)
EXTENDS Naturals, Sequences, SequencesExt

CONSTANTS UserIds, RecordIds, Bytes,
          Small,      \* the contents that fit a VLR, 65535 bytes
          MaxRecords, \* bound on the records in each list
          MinorVersions  \* of LAS 1.x

VARIABLES minor, vlrs, evlrs

vars == <<minor, vlrs, evlrs>>

Vlr(user_id, record_id, data) == [user_id |-> user_id, record_id |-> record_id, data |-> data]
Vlrs(contents) == [user_id : UserIds, record_id : RecordIds, data : contents]

-----------------------------------------------------------------------------
(* types.hpp *)

ascii_lower(user_id) == IF user_id = "LASF_Projection" THEN "lasf_projection" ELSE user_id
is_projection(v) == ascii_lower(v.user_id) = "lasf_projection"

is_geotiff_record_HalfOpen(v) == v.record_id >= 34735 /\ v.record_id < 34737

is_geotiff_record(v) == v.record_id >= 34735 /\ v.record_id <= 34737
is_wkt_crs(v) == is_projection(v) /\ v.record_id = 2112
is_geotiff_crs(v) == is_projection(v) /\ is_geotiff_record(v)
is_crs(v) == is_projection(v) /\ (v.record_id = 2112 \/ is_geotiff_record(v))
has_large_data(v) == v.data \notin Small

all_vlrs == vlrs \o evlrs

-----------------------------------------------------------------------------
(* las-rs *)

LasCrs(v) ==
  /\ v.user_id \in {"LASF_Projection", "lasf_projection"}
  /\ v.record_id \in {2112, 34735, 34736, 34737}
has_crs_vlrs == \E v \in Range(vlrs) \cup Range(evlrs) : LasCrs(v)

\* The records in s that are in `kept', in their order: SelectSeq, as a
\* recursive function of how far s was looked through.
Select(s, kept) ==
  LET upto[i \in 0 .. Len(s)] ==
        IF i = 0 THEN <<>>
        ELSE IF s[i] \in kept THEN Append(upto[i - 1], s[i]) ELSE upto[i - 1]
  IN  upto[Len(s)]

WithoutCrs(records) == Select(records, {v \in Vlrs(Bytes) : ~LasCrs(v)})

\* Replaces whatever there was; the record goes where it fits.  Throws for LAS
\* before 1.4.
set_wkt_crs(bytes) ==
  LET v == Vlr("LASF_Projection", 2112, bytes)
  IN  /\ minor >= 4
      /\ vlrs' = WithoutCrs(vlrs) \o IF has_large_data(v) THEN <<>> ELSE <<v>>
      /\ evlrs' = WithoutCrs(evlrs) \o IF has_large_data(v) THEN <<v>> ELSE <<>>
      /\ UNCHANGED minor

remove_crs_vlrs ==
  /\ vlrs' = WithoutCrs(vlrs) /\ evlrs' = WithoutCrs(evlrs)
  /\ UNCHANGED minor

-----------------------------------------------------------------------------
\* Any file's records, including ones that some other program has doubled.
Init ==
  /\ minor \in MinorVersions
  /\ vlrs \in SeqOf(Vlrs(Small), MaxRecords)
  /\ evlrs \in IF minor = 4 THEN SeqOf(Vlrs(Bytes), MaxRecords) ELSE {<<>>}

Next == remove_crs_vlrs \/ \E bytes \in Bytes : set_wkt_crs(bytes)

Spec == Init /\ [][Next]_vars

-----------------------------------------------------------------------------
(* Properties *)

\* The two classifications agree: what a caller finds among all_vlrs() with the
\* C++ predicates is what las-rs says of the header, for records at both ends
\* of the GeoTIFF range and next to it, and every CRS record is of one kind.
ClassificationsAgree ==
  /\ has_crs_vlrs <=> \E v \in Range(all_vlrs) : is_crs(v)
  /\ \A v \in Range(all_vlrs) : is_crs(v) <=> (is_wkt_crs(v) # is_geotiff_crs(v))
=============================================================================
