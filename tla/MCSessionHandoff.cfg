SPECIFICATION HLive
CONSTANTS
  u = u  w = w  i = i  a = a  b = b  c = c  source = source
  None = None
  Procs <- Everybody
  Users <- TwoUsers
  Importers <- OneImporter
  Variants <- ThreeVariants
  Runs <- NoRuns
  RunOf <- RunOfNone
  MaxVariants = 2
  Source = source
  MayDrift <- Editable
  Setups <- Situations
  MaxDeaths = 1
INVARIANTS ImportedIsComplete PackageIsFaithful JudgedBeforeAdding
PROPERTY RerunAddsAll
CHECK_DEADLOCK FALSE
