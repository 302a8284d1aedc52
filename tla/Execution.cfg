\* A child's output, its policy over two runs, and the files of one execution.
CONSTANTS
  None = None
  yes = yes
  long = long
  s1 = s1
  Kinds = {"claude", "codex", "external"}
  Locals <- SomeLocals
  Asked <- SomeRequests
  Servers = {docs, own}
  OwnServers = {own}
  Texts = {yes, long}
  TooLong = long
  SessionIDs = {s1}
  Lines <- OutputLines
  Descendants = TRUE
  MaxLines = 3
  MaxRuns = 2
  MaxRestarts = 2
  MaxEdits = 1
  MaxFaults = 2
  half = half
  full = full
  secret = secret
  Attachments = {a1}
  report = report
  REPORT = REPORT
  photo = photo
  Names = {report, REPORT, photo, script}
  Refused = {script}
  Key <- LowerCase
  Inodes = {i1, i2, link}
  Regular = {i1, i2}
  Contents = {half, full, secret}
  Size <- Sizes
  Secret = {secret}
  Textual <- TextFiles
  Answers <- LongestAnswers
  MaxAttachments = 2
  MaxAttachmentBytes = 2097152
  MaxRequestPayloadBytes = 2097152
  MaxFinalTextBytes = 131072
  MaxAnswerBytes = 131072
  MaxBody = 4194304
  MaxChanges = 3
SPECIFICATION SuiteSpec
INVARIANTS RunSound ResultSound
PROPERTIES CancelledRunEnds ExecutionsAreAnswered
CHECK_DEADLOCK FALSE
