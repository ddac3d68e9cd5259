SPECIFICATION Spec
CONSTANTS
  app = app
  core = core
  web = web
  schema = schema
  client = client
  bundle = bundle
  Nobody = Nobody
  Project = {app, core, web}
  Artifact = {schema, client, bundle}
  Registries <- ChainOnly
  Plans <- EitherEnd
  Sorted <- ByName
  Shaky = {}
  MaxEdits = 1
PROPERTIES DownstreamIsSwept
CHECK_DEADLOCK FALSE
