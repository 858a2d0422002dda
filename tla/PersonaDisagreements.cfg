SPECIFICATION PersonaSpec
CONSTANTS
  i1 = i1  i2 = i2  x = x  one = one  date = date  nan = nan
  Files <- SomeFiles
  Missing = Missing
  NoFence = NoFence
  NoMapping = NoMapping
  BadYaml = BadYaml
  Absent = Absent
  Text <- SomeText
  Misfits = {Null, date}
  NotJson = {date}
  NotJcs = {date, nan}
  MaxChainLength = 32
  Null = Null
INVARIANTS EmittedHashIsPin ValidatorReportsEveryFile
