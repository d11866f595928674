\* Deviating configurations, values while configurations replace each other,
\* and the formats.
CONSTANTS
  None = None
  InputCount = 4
  Blobs <- MCBlobs
  First <- MCFirst
  Records <- MCRecords
  Seconds <- MCSeconds
  Received <- MCReceived
  Nothing = None
  RX_BUF_SIZE = 3
  GPS_FRAME_TOTAL = 4
  FrameContents <- MCFrameContents
  MaxBytes <- MCMaxBytes
  Parts = {"inputs", "packets", "messages", "records", "tags", "clock", "screen", "line"}

SPECIFICATION MCSpec

INVARIANTS
  ConfigIsJudged
  ValuesAreOfTheirInput
  SnapshotTellsInputs
  FormatsReadBack
  PacketsLandInPlace
  GpsFramesAreRead
