CONSTANTS
  Null = Null
  Missing = Missing
  Blank = Blank
  None = None
  Subject <- MCSubject
  Publications <- MCPublications
  Commands <- MCCommands
  Malformed <- MCMalformed
  Mappings <- MCMappings
  Trees <- MCTrees
  Tables <- MCTables
  Historical <- MCHistorical
SPECIFICATION DeliverySpec
INVARIANTS
  UndecidedMembersShow
