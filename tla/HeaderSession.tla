--------------------------- MODULE HeaderSession ----------------------------
(***************************************************************************)
(* A caller of header.hpp and crs.hpp: it edits builders (HeaderBuilder),  *)
(* chooses a version and a format (VersionTables), sets and removes the    *)
(* coordinate system (CrsRecords) or copies its GeoTIFF keys (GeoKeys).    *)
(*                                                                         *)
(* These parts share no state, so interleaving them reaches no state of    *)
(* any of them that it does not reach alone: a behaviour stays with one    *)
(* part and leaves the others at one of their initial states.              *)
(***************************************************************************)
EXTENDS Naturals, TLC

CONSTANTS Builders, MaxPoints,                                           \* HeaderBuilder
          MaxMajor, MaxMinor,                                            \* VersionTables
          UserIds, RecordIds, Bytes, Small, MaxRecords, MinorVersions,   \* CrsRecords
          Ids, Numbers, MaxKeys,                                         \* GeoKeys
          None

VARIABLES part,                           \* the part this behaviour is about
          cpp, header, answer,            \* HeaderBuilder
          version, format,                \* VersionTables
          minor, vlrs, evlrs,             \* CrsRecords
          found, handle, copy, pc         \* GeoKeys

Tables == INSTANCE VersionTables

\* LAS 1.0 and 1.4, and a format that only the latter has.
VersionsTried == {Tables!Version(1, 0), Tables!Version(1, 4)}
FormatsTried == {{}, {"is_extended"}}

ASSUME HeaderAssumption ==
  /\ {MaxPoints, MaxMajor, MaxMinor} \subseteq Nat
  /\ None \notin VersionsTried
  /\ None \notin {"day", "noday"}
  /\ "LASF_Projection" \in UserIds /\ 2112 \in RecordIds /\ RecordIds \subseteq Nat
  /\ Small \subseteq Bytes
  /\ None \notin Numbers

Building == INSTANCE HeaderBuilder
Records == INSTANCE CrsRecords
Keys == INSTANCE GeoKeys

\* An empty optional is told from every value.
ASSUME NoneAssumption ==
  /\ None \notin [fields : Building!Fields, hidden : Nat]
  /\ None \notin [fields : Building!Fields, base : Building!Headers \cup {None}]

buildingVars == <<cpp, header, answer>>
tablesVars == <<version, format>>
recordsVars == <<minor, vlrs, evlrs>>
keysVars == <<found, handle, copy, pc>>
vars == <<part, buildingVars, tablesVars, recordsVars, keysVars>>

Init ==
  /\ part \in {"building", "tables", "records", "keys"}
  /\ Tables!Init
  /\ IF part = "building" THEN Building!Init
     ELSE /\ cpp = [b \in Builders |-> None] /\ answer = TRUE
          /\ header = CHOOSE h \in Building!Headers : TRUE
  /\ IF part = "records" THEN Records!Init
     ELSE minor = 4 /\ vlrs = <<>> /\ evlrs = <<>>
  /\ IF part = "keys" THEN Keys!Init
     ELSE found = <<"none">> /\ handle = FALSE /\ copy = <<>> /\ pc = "ready"

Next ==
  /\ \/ /\ part = "building" /\ Building!Next
        /\ UNCHANGED <<tablesVars, recordsVars, keysVars>>
     \/ /\ part = "tables" /\ Tables!Next
        /\ UNCHANGED <<buildingVars, recordsVars, keysVars>>
     \/ /\ part = "records" /\ Records!Next
        /\ UNCHANGED <<buildingVars, tablesVars, keysVars>>
     \/ /\ part = "keys" /\ Keys!Next
        /\ UNCHANGED <<buildingVars, tablesVars, recordsVars>>
  /\ UNCHANGED part

Spec == Init /\ [][Next]_vars

Swaps == Permutations(Builders)

-----------------------------------------------------------------------------
(* Properties *)

\* A caller that sets Builder::version to minimum_supported_version() gets its
\* header, and only formats that no version supports have no such version.
MinimumSuffices == Building!MinimumSuffices

\* The C++ Builder, fields over a shared Rust builder, implements the builder
\* of las-rs: no field is lost, shared or stale (LasBuilder).
ImplementsLasBuilder == Building!ImplementsLasBuilder

\* supports_point_format and the features' lists of versions agree.
TablesAgree == Tables!TablesAgree

\* The predicates of the C++ Vlr and has_crs_vlrs of las-rs mean the same records.
ClassificationsAgree == Records!ClassificationsAgree

\* get_geotiff_crs frees its handle on every way out and returns what las-rs decoded.
GeoTiffFaithful == Keys!GeoTiffFaithful
=============================================================================
