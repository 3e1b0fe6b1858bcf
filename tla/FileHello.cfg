SPECIFICATION FairSpec
CONSTANTS
  Half = 128
  EnvelopeBytes = 8
  HelloFrameBytes = 6
  MaxNegotiatedFrameBytes = 64
  ChunkSize = 4
  DefaultMaxFileBytes = 6
  DefaultMaxOutputBytes = 2
  Workers = {w1}
  Calls = {k1, k2}
  Flags <- MCFlags
  Contents <- MCContents
  MaxOthers = 2
  HelloFields = 2
  IdBytes = 2
  Wrapper = 2
  FrameFields = 8
  NoFile = NoFile
  NoWorker = NoWorker
PROPERTIES
  ComesBack
