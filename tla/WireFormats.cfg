SPECIFICATION Spec
CONSTANTS
  Base = 16
  Codec = 8
  CodecE = 14
  HeaderLen = 2
  Sizes <- MCSizes
  Crc <- MCCrc
  Sessions <- MCSessions
  MaxIMEI = 3
  MaxData = 28
  MaxFrame = 6
  Header = "HQ"
  Star = "*"
  Hash = "#"
  Blanks = {"LF"}
INVARIANTS
  TypeOK
  HandedOnIsSent
  NothingIsHeldBack
