SPECIFICATION TrafficSpec
CONSTANTS
  None = None
  IPv6 = {}
  NonPublic = {"src"}
  GeoCountry <- MCGeoCountry
  GeositeDB <- MCGeositeDB
  BaseName <- MCBaseName
  RuleSets <- MCRuleSets
  World <- MCWorld
  RuleOf <- MCRuleOf
  Scenarios <- MCScenarios
  DnsWorld <- MCDnsWorld
  DnsRuleOf <- MCDnsRuleOf
  DnsScenarios <- MCDnsScenarios
  Slots = {1, 2}
  MaxQueries = 2
INVARIANTS
  HandOverSound
  
  AsksSound
  
PROPERTIES
  TrafficAdvances
