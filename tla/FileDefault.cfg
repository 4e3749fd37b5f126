\* A file that names the profile, and the environment, to start in.

SPECIFICATION FairSpec
CONSTANTS
  UnsetTexts = {"${NO}"}
  Takes = {"-profile", "-env", "-V", "-cacert", "-cert", "-key", "-servername", "-target", "-format"}
  Switches = {"-tls", "-tls=false", "-insecure", "-insecure=false", "-version", "-format=json"}
  RunOnly = {"-target", "-format", "-format=json"}
  Strange = {"-nosuch"}
  Shells = {"zsh"}
  Assignments <- MCAssignments
  Subjects <- MCSubjects
  Collections <- MCCollections
  Kinds <- MCKinds
  Jobs <- MCJobs
  MaxBodies = 1
  MaxUnits = 1
INVARIANT
  StartsWhereTheFileSays
CHECK_DEADLOCK FALSE
