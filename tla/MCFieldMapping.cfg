SPECIFICATION Spec
CONSTANTS
  v = v
  w = w
  json = json
  NilText = NilText
  Renames <- Renaming
  Parsed <- Payloads
  Nil = Nil
  SourceFields <- Sources
  TargetFields <- Targets
  Lower <- Lowered
  Mappings <- Explicits
  Defaults <- DefaultSets
  Batches <- BatchesOfTwo
INVARIANTS SmartMappingsFit DebuggerTruthful NothingDropped WrittenIsTransformed
CHECK_DEADLOCK FALSE
