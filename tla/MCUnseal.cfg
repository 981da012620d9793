\* A sector of 4 unpadded bytes with a padding cell after every 2, so an
\* offset past the first group must skip one padding cell; two sealing
\* identities; 3-bit offsets and lengths, so that offset + length wraps.
CONSTANTS
  k1 = k1
  k2 = k2
  Data <- MCData
  SectorBytes = 4
  PadEvery = 2
  Keys = {k1, k2}
  OffsetBits = 3
SPECIFICATION Spec
INVARIANTS
  UnsealExact
  UnsealRoundTrip
