SPECIFICATION RoutingSpec
CONSTANTS
  Char <- MCChar
  Location <- MCLocation
  URI <- MCURI
  ServerPath <- MCServerPath
  Link <- MCLink
  MaxLocations = 3
INVARIANTS
  AnswerServes MostSpecificStatic FileIsBelowLocation ProxiedUriIsPath
PROPERTIES
  LookupsDoNotWrite LinksLeadBack
