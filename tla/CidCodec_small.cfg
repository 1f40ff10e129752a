CONSTANTS
  PayloadBits = 2
  NumSeeds = 2
SPECIFICATION CodecSpec
INVARIANTS CodecTypeOK RowsInjective RoundTrip
