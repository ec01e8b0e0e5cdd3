SPECIFICATION FairSpec
CONSTANTS
  NULL = NULL
  Cron = cron
  Lives = {l1}
  Conexoes = {x1, x2}
  Sincronias = {cron, rota}
  Paradas = {q1}
  MAX_CONNECTORS = 1
  MaxEventos = 1
INVARIANTS
  TypeOK
  FinalCobreFlush
PROPERTIES
  SaiDoMapa
  VoltaAoMapa
