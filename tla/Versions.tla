------------------------------ MODULE Versions ------------------------------
(***************************************************************************)
(* Version and point::Format of include/lasrs/types.hpp: which LAS version *)
(* supports which point format and which feature.  The same question is    *)
(* answered in two places, a switch over the minor version and a list of   *)
(* minor versions per feature.                                             *)
(***************************************************************************)
EXTENDS Naturals

Version(major, minor) == [major |-> major, minor |-> minor]

\* The order of operator<=>: by major, then by minor version.
AtMost(v, w) == v.major < w.major \/ (v.major = w.major /\ v.minor <= w.minor)

header_size(v) ==
  IF AtMost(v, Version(1, 2)) THEN 227 ELSE IF v = Version(1, 3) THEN 235 ELSE 375

requires_point_data_start_signature(v) == v = Version(1, 0)

\* The minor versions each feature lists.
Minors ==
  [FileSourceId |-> {1, 2, 3, 4}, GpsStandardTime |-> {2, 3, 4}, Waveforms |-> {3, 4},
   SyntheticReturnNumbers |-> {3, 4}, LargeFiles |-> {4}, Evlrs |-> {4}]
Features == DOMAIN Minors

supports(v, feature) == v.major = 1 /\ v.minor \in Minors[feature]

\* A format is its flags; extra bytes and compression play no part here.
Flags == {"has_gps_time", "has_color", "is_extended", "has_waveform", "has_nir"}

extend(format) == format \cup {"has_gps_time", "is_extended"}

\* The flags that a minor version has no room for.
Unsupported_WaveformsIn12(minor) ==
  IF minor <= 1 THEN {"has_color", "is_extended", "has_waveform", "has_nir"}
  ELSE IF minor <= 3 THEN {"is_extended", "has_nir"}
  ELSE {}

Unsupported(minor) ==
  IF minor <= 1 THEN {"has_color", "is_extended", "has_waveform", "has_nir"}
  ELSE IF minor = 2 THEN {"is_extended", "has_waveform", "has_nir"}
  ELSE IF minor = 3 THEN {"is_extended", "has_nir"}
  ELSE {}

supports_point_format(v, format) ==
  v.major = 1 /\ v.minor <= 4 /\ format \cap Unsupported(v.minor) = {}
=============================================================================
