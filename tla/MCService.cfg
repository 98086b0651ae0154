\* Three starts: one to leave a certificate without its key, one to find it, and one to
\* see what the second has left.  Every combination of files found at the first start,
\* and every way an owner's key can be to the certificate.
\* The last start may be over for good: no further step is left then.
CONSTANT
  MaxStarts = 3

SPECIFICATION ServiceSpec

INVARIANTS
  ServiceTypeOK
  RefusalNeedsOwnKey

PROPERTIES
  GracefulExitWaits
  PairIsKept
  EndsWhenAsked

CHECK_DEADLOCK FALSE
