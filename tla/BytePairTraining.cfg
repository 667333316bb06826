SPECIFICATION Spec
CONSTANTS
  ByteCount = 2
  MergeCount = 3
  ContextTokens = 2
  MaximumBytes = 3
  LongestCorpus = 8
  LongestText = 6
  Corpora <- MCCorpora
  OtherTexts <- MCOtherTexts
  OtherFiles <- MCOtherFiles
  Prompts <- MCPrompts
INVARIANTS
  GreedyChoice
  TrainerAgrees
  EncodingIsCanonical
  TokensSpellText
  NoMergeMissed
  AnswerInContext
CHECK_DEADLOCK FALSE
