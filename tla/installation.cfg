SPECIFICATION Spec
CONSTANTS
  Unset = Unset
  NoSecret = NoSecret
  NoPort = NoPort
  NoServer = NoServer
  NoFile = NoFile
  Machines <- MCMachines
  Agents = {"claude-code", "codex", "gemini-cli", "opencode", "openclaw"}
  Sessions <- MCSessions
  Entries <- MCEntries
  Changes <- MCChanges
  Edits <- MCEdits
  Namespaces = {"work"}
  Shells <- MCShells
  Commands = {"bootstrap", "setup", "install", "start", "restart", "stop", "use", "doctor"}
  MaxCommands = 3
  MaxStarts = 3
  MaxFaults = 1
INVARIANTS
  ServerRunsSaved
  ReadyMeansInstalled
  ReadyServesPlan
  RestartReachesNewServer
  NoIssuesMeansLaunchable
  UserConfigKept
PROPERTY StaysStopped
CHECK_DEADLOCK FALSE
