SPECIFICATION MCSpec
CONSTANTS
  NULL = NULL
  Comment = Comment
  x = x
  y = y
  Root = log4c
  Version = version
  VERSION = x
  Names = {log4c, version}
  Texts = {x}
  Empty = Empty
  YYINITDEPTH = 4
  YYMAXDEPTH = 16
  MaxTokens = 11
  FewTokens = 8
  Pieces <- MCPieces
  CDATA = 5
  YY_BUF_SIZE = 4
  YY_READ_BUF_SIZE = 3
  MaxEvents = 5
INVARIANTS
  AcceptsGrammar
  TreeIsDocument
  TreeMirrorsDocument
  LoadsWhatWasRead
  ScansFile
CHECK_DEADLOCK FALSE
