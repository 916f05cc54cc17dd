SPECIFICATION FairSpec
CONSTANTS
  c1 = c1
  c2 = c2
  v1 = v1
  v2 = v2
  b1 = b1
  b2 = b2
  i1 = i1
  i2 = i2
  None = None
  Damaged = Damaged
  Capture <- TwoCaptures
  Validation <- TwoValidations
  Bundle <- TwoBundles
  Image <- TwoImages
  MaxEpoch = 2
  Byte <- ThreeBytes
  Header <- TwoHeaders
  FullHeader <- OneHeader
  MaxLength = 8
  MaxPath = 2
  MaxFiles = 3
INVARIANTS
  TypeOK
  RowHasBytes
  ReviewIsGenuine
  FramingIsExact
  ManifestIsCanonical
PROPERTIES
  BytesNeverReplaced
  LedgerKept
  Retried
