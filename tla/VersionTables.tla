--------------------------- MODULE VersionTables ----------------------------
(***************************************************************************)
(* A caller that chooses a version and a point format, field by field, as  *)
(* it would in a Builder, and asks the tables of Versions about them.      *)
(***************************************************************************)
EXTENDS Versions

CONSTANTS MaxMajor, MaxMinor  \* bounds on the versions tried

VARIABLES version, format

vars == <<version, format>>

Known == [major : 0 .. MaxMajor, minor : 0 .. MaxMinor]

Init == version = Version(1, 2) /\ format = {}

SetVersion(v) == version' = v /\ UNCHANGED format
SetFlag(flag) == format' = format \cup {flag} /\ UNCHANGED version
ClearFlag(flag) == format' = format \ {flag} /\ UNCHANGED version
Extend == format' = extend(format) /\ UNCHANGED version

Next ==
  \/ \E v \in Known : SetVersion(v)
  \/ \E flag \in Flags : SetFlag(flag) \/ ClearFlag(flag)
  \/ Extend

Spec == Init /\ [][Next]_vars

-----------------------------------------------------------------------------
(* Properties *)

\* The switch of supports_point_format and the features' lists of versions
\* tell the same story: a supported format with waveforms is in a version that
\* has waveforms, an extended one in a version with large files and EVLRs, and
\* the header of that version has room for the fields those need.
TablesAgree ==
  supports_point_format(version, format) =>
    /\ "has_waveform" \in format => supports(version, "Waveforms") /\ header_size(version) >= 235
    /\ "is_extended" \in format =>
         /\ supports(version, "LargeFiles") /\ supports(version, "Evlrs")
         /\ header_size(version) = 375
    /\ requires_point_data_start_signature(version) =>
         \A feature \in Features : ~supports(version, feature)

=============================================================================
