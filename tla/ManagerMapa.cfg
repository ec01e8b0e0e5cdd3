SPECIFICATION Spec
CONSTANTS
  NULL = NULL
  Cron = cron
  Lives = {l1, l2}
  Conexoes = {x1, x2}
  Sincronias = {cron, rota}
  Paradas = {q1}
  MAX_CONNECTORS = 1
  MaxEventos = 0
SYMMETRY Simetria
INVARIANTS
  RespeitaLimite
