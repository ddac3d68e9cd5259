SPECIFICATION Spec
CONSTANTS
  Test <- MCTest
  File <- MCFile
  FileOf <- MCFileOf
  IdOf <- MCIdOf
  Target = "t1"
  Registries <- MCRegistries
  MaxEdits = 1
INVARIANTS
  TypeOK
  PassedIsEarned
  FailuresAreReported
  UnimportableIsNotMissing
  NarrowAgreesWithWhole
  CollectionIsWhole
  AdoptionIsNew
