\* Three lists may be in windows as short as one line, and messages land while three
\* others are on their way; each part's own bounds are small beside those.
SPECIFICATION Spec
CONSTANTS
  Heights = {1, 2}
  Schemas <- ThreeSchemas
  Wanted = {"a.N", "b.M", "gone"}
  TreeHeights = {1, 2, 3}
  MaxPicks = 1
  Profiles <- TwoProfiles
  Totals = {11, 12}
  RequestWant = 6
  MaxHeaders = 3
  Names <- ThreeNames
  Environments <- TwoEnvironments
  Bindings <- ThreeBindings
  Found = {"9"}
  MaxPending = 1
  Requests = {"login", "greet"}
  Sources = {"team"}
  Filters = {"", "team", "login"}
  Words <- OneWord
  Limit = 2
  Texts = {"x", "y"}
  MaxLines = 4
  MaxCells = 8
  Contexts <- SomeContexts
  MaxMessages = 3
  Choices = 3
  MaxAsked = 2
  MaxTrafficCalls = 3
  Calls = {1, 2, 3, 4}
  MaxMsgs = 2
  MaxTold = 5
INVARIANTS
  CursorsAreOnScreen
  RowsAreFaithful
  NothingCrossesEnvironments
  DiffIsExact
  EditingIsFocused
PROPERTIES
  PlacesAreKept
  RefusalIsOnTheRow
CHECK_DEADLOCK FALSE
