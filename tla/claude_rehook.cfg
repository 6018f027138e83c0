SPECIFICATION Spec
CONSTANTS
  Unset = Unset
  NoSecret = NoSecret
  NoPort = NoPort
  NoServer = NoServer
  NoFile = NoFile
  Machines <- MacOnly
  Agents = {"claude-code"}
  Sessions <- ClaudeAlone
  Entries <- MCEntries
  Changes <- NoChanges
  Edits <- NoChanges
  Namespaces = {}
  Shells <- OneShell
  Commands = {"setup"}
  MaxCommands = 2
  MaxStarts = 2
  MaxFaults = 0
INVARIANT OneHookPerEvent
CHECK_DEADLOCK FALSE
