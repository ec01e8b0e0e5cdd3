SPECIFICATION FairSpec
CONSTANTS
  NULL = NULL
  Contratos = {k1, k2}
  Clientes = {c1}
  Perfis <- PerfisAB
  Pedidos = {p1}
  StatusManuais = {"inadimplente"}
INVARIANTS
  TypeOK
  DecisaoFirme
  ClienteEspelhaContrato
PROPERTIES
  ReprovadoSeResolve
