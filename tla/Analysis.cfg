SPECIFICATION Spec
CONSTANTS
  Flows <- PassingFlows
  Answers <- SomeAnswers
  Files <- RuleFiles
  Forensic = FALSE
  Preview = 6
  LowerCase <- Folds1
  MaxNorm = 20
  RandomLen = 1
  FtpWindow = 4
  StorName = 2
  CredWindow = 7
  MailMin = 2
  LoginWindow = 5
  PathMax = 2
  LoginMin = 2
  IpcReach = 4
  BigSmb = 4
  RatWindow = 6
  DelimMin = 2
  RunMin = 2
  TextMin = 2
  LongMin = 3
  SmallText = 6
  LabelMin = 16
  Consonants <- Consonants1
  BuiltinJa3 <- BadJa3
  CharLimit = 6
  TinyText = 3
  MaxPrompt = 10
  TailMax = 8
  SystemPrompt <- Rules1
INVARIANTS
  ReadsWhatWasSent
  ObfuscationUndone
  PromptIntact
  VerdictsAreGrounded
PROPERTIES
  GrowthNeverHides
CHECK_DEADLOCK FALSE
