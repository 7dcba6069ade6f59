CONSTANTS
  Null = Null
  Missing = Missing
  Blank = Blank
  None = None
  Subject <- MCSubject
  Publications <- MCPublications
  Commands <- MCCommands
  Malformed <- MCMalformed
  Mappings <- MCMappings
  Trees <- MCTrees
  Tables <- MCTables
  Historical <- MCHistorical
  Codes <- MCCodes
  Outcomes <- MCOutcomes
  Reasons <- MCReasons
  Structures <- MCStructures
  Conditions <- MCConditions
  ExprId <- MCExprId
  Slug <- MCSlug
  Given = {cutoff}
  Values = {empty, one, two}
  Others = {date}
  EmptyValue = empty
  MaxUses <- MCMaxUses
SPECIFICATION Spec
INVARIANTS
  RowIsTheDecision
