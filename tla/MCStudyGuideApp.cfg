SPECIFICATION Spec
CONSTANTS
  Texts = {"", "a", "b"}
  Valid = {"a", "b"}
  PoolSize = 2
  MaxJobs = 3
INVARIANTS
  TypeOK
  OneDecoder
  NoUseAfterFree
  IndicatorWhileDecoding
  StatusIsTrue
  NothingForgotten
  AnswerIsThere
PROPERTIES
  GenerationEnds
  GuideIsShown
  ImplementsSession
CHECK_DEADLOCK FALSE
