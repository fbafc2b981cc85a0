SPECIFICATION Spec
CONSTANTS
  ChunkStreams = {2, 3, 4, 6}
  Types <- AllTypes
  SetChunkSize = "SET_CHUNK_SIZE"
  Units <- AllUnits
  Message <- AllMessages
  FirstSize = 3
  Window = 2
  Tear = {"VIDEO"}
  SameDelta = FALSE
  None = None
  Garbled = Garbled
  OutSize = 640
  ClientSize = 20
  Commands <- TheCommands
  Pictures <- ThePictures
  Others <- TheOthers
  Sizes <- TheSizes
  Resizes = 2
  Retries = 1
  Depth = 2
  Values <- TheValues
  Spill <- TheSpill
INVARIANTS TypeOK Aligned Complete AnswersInOrder FramesInOrder CodecFaithful
PROPERTIES ImplementsChannel Publishes
CHECK_DEADLOCK FALSE
ACTION_CONSTRAINT MisreadEnds
