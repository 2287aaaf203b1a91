SPECIFICATION MCSpec
CONSTANTS
  Persons = {"agent", "board", "lead"}
  RolesOf <- MCRolesOf
  Admins = {}
  Threads = {t1, t2}
  SchemeKeys = {"change", "incident"}
  MaxCalls = 5
  Catalog <- MCCatalog
  DefaultOn = {"chatbot"}
  Managers = {t1, t2}
  MaxHosts = 4
  Replicas = {r1, r2}
  Savers = {t1, t2}
  SavedKeys = {"incident", "problem", "onboarding"}
  Drawn <- MCDrawn
  Processes <- MCProcesses
  Items = {i1, i2, i3, i4}
  Moving = {i1, i2}
  Clerks = {t1, t2}
  MaxEdges = 2
  Releases = {1, 2}
  FilesOf <- MCFilesOf
  Installers = {t1, t2}
SYMMETRY ThreadSymmetry
INVARIANT DisabledIsSilent
CHECK_DEADLOCK FALSE
