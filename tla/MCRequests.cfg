SPECIFICATION MCSpec
CONSTANTS
  Variants = {"ext", "alone", "raw"}
  Offers <- MCOffers
  HeaderKinds = {"none", "reserved", "crlf", "list", "control", "extensions"}
  UrlKinds = {"ws", "other"}
  RawRequests <- MCRawRequests
  ForeignLines <- MCLines
  HeadLines = 4
  HandlerRegistered = TRUE
  Deflate = TRUE
  Picks = {"p1", "p3"}
  MaxFrames = 2
  MaxHead = 8
  MaxChunk = 3
  Sessions = {s1, s2}
  NoWalk = NoWalk
SYMMETRY Symmetry
INVARIANTS   AnswerSound  ReadingSound
CHECK_DEADLOCK FALSE
