SPECIFICATION Spec
CONSTANTS
  hello = hello
  watch = watch
  here = here
  there = there
  team = team
  default = default
  login = login
  greet = greet
  dots = dots
  Requests <- TwoRequests
  Servers <- TwoServers
  Serves <- OneMoved
  Limit = 3
  Before <- Earlier
  MaxSends = 7
  MaxSaves = 2
  Files <- TwoFiles
  Names <- ThreeNames
  Invalid <- Refused
  Given <- TeamHasLogin
  MaxWrites = 4
  MaxOverlap = 2
INVARIANTS
  HistoryIsRecent
  WalkIsOnTheForm
  SavedSurvives
  BrowserShowsTheFiles
PROPERTIES
  EntriesStay
