SPECIFICATION HLive
CONSTANTS
  u = u  w = w  i = i  a = a  b = b  c = c  source = source
  None = None
  Procs <- Everybody
  Users <- TwoUsers
  Importers <- OneImporter
  Variants <- ThreeVariants
  Runs <- NoRuns
  RunOf <- RunOfNone
  MaxVariants = 2
  Source = source
  MayDrift <- Editable
  Setups <- OnlyAlone
  MaxDeaths = 1

PROPERTY RerunCompletes
CHECK_DEADLOCK FALSE
