\* A builder and its copy; record ids at both ends of the GeoTIFF range and next
\* to it, two contents of which one is too large for a VLR; GeoTIFF keys that
\* may come twice; majors and minors one beyond the ones LAS has.
SPECIFICATION Spec
CONSTANTS
  Builders = {b1, b2}
  MaxPoints = 1
  MaxMajor = 2
  MaxMinor = 5
  UserIds = {"LASF_Projection", "lasf_projection", "other"}
  RecordIds = {2112, 34734, 34735, 34737, 34738}
  Bytes = {short, long}
  Small = {short}
  MaxRecords = 2
  MinorVersions = {2, 4}
  Ids = {1024, 3072}
  Numbers = {0, 1}
  MaxKeys = 3
  None = None
SYMMETRY Swaps
INVARIANTS MinimumSuffices TablesAgree ClassificationsAgree GeoTiffFaithful
PROPERTIES ImplementsLasBuilder
