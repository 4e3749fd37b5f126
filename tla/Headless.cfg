\* Every line of three words and flags; four files, and one collection of three
\* requests, one of each kind.
SPECIFICATION FairSpec
CONSTANTS
  UnsetTexts = {"${NO}"}
  Takes = {"-profile", "-env", "-V", "-cacert", "-cert", "-key", "-servername", "-target", "-format"}
  Switches = {"-tls", "-tls=false", "-insecure", "-insecure=false", "-version", "-format=json"}
  RunOnly = {"-target", "-format", "-format=json"}
  Strange = {"-nosuch"}
  Shells = {"zsh"}
  Assignments <- MCAssignments
  Subjects <- MCSubjects
  Collections <- MCCollections
  Kinds <- MCKinds
  Jobs <- MCJobs
  MaxBodies = 1
  MaxUnits = 3
INVARIANTS
  GreenMeansAnswered
  SessionIsAsAsked
  WordsInAnyOrder
PROPERTIES
  RunEnds
CHECK_DEADLOCK FALSE
