SPECIFICATION FairSpec
CONSTANTS
  wheel = wheel
  sdist = sdist
  notes = notes
  source = source
  control = control
  merged = merged
  wide = wide
  linked = linked
  manifest = manifest
  script = script
  package = package
  Artifacts = {wheel, sdist}
  Others = {notes}
  Commits = {source, control, merged, wide, linked}
  Payloads <- Releases
  Source = source
  ParentsOf <- Parents
  ChangesOf <- Changes
  ControlPaths = {manifest, script}
  RegularIn <- Regular
  Attempts = 2
  HandUploads <- Hands
  StalePages = TRUE
  MaxJobs = 2
CHECK_DEADLOCK FALSE
INVARIANTS OnlyFrozenUploaded GreenMeansPublished OneJobUploads
PROPERTY JobEnds
