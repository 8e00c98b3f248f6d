SPECIFICATION Spec
CONSTANTS
  Files <- MCFiles
  Entry = "main"
  Directory <- MCDirectory
  Parent <- MCParent
  Base <- MCBase
  Broken = {"old/x"}
  Programs <- MCPrograms
  NULL = NULL
INVARIANTS MergedOnceInOrder ImportsMerged NamesBind
