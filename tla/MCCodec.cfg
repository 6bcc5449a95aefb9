SPECIFICATION Spec
CONSTANTS
  Precision = 6
  MaxWeight = 9
  MaxSymbols = 4
  M = 4
  L = 8
  WordBase = 8
  Tables <- MCTables
  RawBases = {1, 2, 8}
  MaxOps = 3
  Modes = {"detail", "auto", "range"}
  Models = {"best", "CA", "DE"}
  RequestHours <- MCRequestHours
  Offsets <- MCOffsets
  Unset = Unset
  Skies <- MCSkies
  NoReading = NoReading
  Airs <- MCAirs
  Forecasts <- MCForecasts
  RawOf <- MCRaw
  Devices = {"i", "s", "z", "d", "g", "none"}
  AskedFor = {1, 2, 4, 9}
  MaxSeq = 4
  Unservable = Unservable
  Replies = {ra, rb, rc, rd, re, rf, rg}
  Labelled = {ra, rb, rc, rf}
  Twins = {ra, rb}
  Asked = {ra, rb, rc, rd, rf, rg}
  Long = {rc, rd}
  Body = 3
  PartBody = 2
  Requests = {r1, r2}
  Pasted = {p1}
  Half = Half
  Blank = Blank
  Collecting = Collecting
  Nothing = Nothing
  MaxStale = 2
  Published <- MCPublished
  Trained <- MCTrained
  Neighbors <- MCNeighbors
  Chain <- MCChain
  Marks = {" ", ".", "|"}
  Break = "|"
  Esc = Esc
  Bos = Bos
  Unk = Unk
  End = End
  NoContext = NoContext
  Slab = Slab
  Loose = Loose
  Glide = Glide
  Presses = {1, 2}
  Selections <- MCSelections
  Starts <- MCStarts
  Pins <- MCPins
  Fixes <- MCFixes
  Footers <- MCFooters
  Hours <- MCHours
  ZoneAt <- MCZoneAt
  SavedPin <- Summit
  WireVersion = 7
  Token = Token
  Platform = "i"
  NoPoint = NoPoint
  NoWord = NoWord
  MaxChanges = 1
  Orders <- MCOrders
  Observed <- MCObserved
  SiteHeight <- MCHeight
  FirstDay = 240
  MaxTroubled = 1
  Tokens = {ta, tb}
  MaxAsks = 1
  LastMonth = 1
  Starting = Starting
  NoToken = NoToken
  NoQuota = NoQuota
CONSTRAINT Trusted
INVARIANTS
  TableFair
  DecodeUndoesEncode
  RungsServe
  PeriodsTell
  LayerShows
  BodyReadsBack
  WithinWhatWasAsked
  LargestThatFits
  Collected
  DrawnIsText
  CancelledNeverShown
  DrawnIsSaved
  BulletinReadsBack
  ReadAsAsked
  WaitsOwned
  ToldFromTheSource
  HeldUntilGone
  StoredIsHeld
  OverMeansOver
CHECK_DEADLOCK FALSE
