SPECIFICATION Spec
CONSTANTS
  app = app
  core = core
  web = web
  schema = schema
  client = client
  bundle = bundle
  Nobody = Nobody
  Project = {app, core, web}
  Artifact = {schema, client, bundle}
  Registries <- Both
  Plans <- EitherEnd
  Sorted <- ByName
  Shaky = {web}
  MaxEdits = 3
INVARIANTS TypeOK BaselineIsOfTheStart SweepStaysInReach
PROPERTIES ClosedIsClean GatesAreCurrent
CHECK_DEADLOCK FALSE
