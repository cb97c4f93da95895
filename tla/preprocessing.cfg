SPECIFICATION MonitorSpec
CONSTANTS
  Units <- MCUnits
  Names <- MCNames
  Headers = {"h1", "h2"}
  SystemHeaders = {"sys"}
  StandardNames = {"errno"}
  NewNames = {"NDEBUG"}
  Keywords = {"if"}
  Values <- MCValues
  Letters = {"h", "q"}
  Protocols <- MCProtocols
INVARIANTS
  ConditionsJudged
  EventsJudged
