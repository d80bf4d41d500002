SPECIFICATION PipelineFairSpec
CONSTANTS
  Items = {i1, i2}
  Capacity <- One
  NoItem = NoItem
  Word = 16
INVARIANT PipelineSound
PROPERTY WorkDone
CHECK_DEADLOCK FALSE
