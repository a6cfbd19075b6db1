\* Every spelling of a listing, the webhook deployed or not, two writes or
\* imports, a lost ID and a failed listing.
SPECIFICATION Spec
CONSTANTS
  Garbage = Garbage
  Absent = Absent
  Error = Error
  Objects <- MCObjects
  Written <- MCWritten
  ObjectName <- MCObjectName
  Addresses <- MCAddresses
  Submissions <- MCSubmissions
  ZoneFiles <- MCZoneFiles
  Styles <- MCStyles
  MaxEdits = 2
  MaxFaults = 1
INVARIANTS AdmittedConverts Imported Recognised
PROPERTIES NoChurn NeverTwice
CHECK_DEADLOCK FALSE
