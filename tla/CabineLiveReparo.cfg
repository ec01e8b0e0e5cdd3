SPECIFICATION Spec
CONSTANTS
  c1 = c1
  k1 = k1
  k2 = k2
  a = a
  b = b
  NULL = NULL
  Cabines = {c1, c2}
  Lives = {l1, l2}
  Contratos = {}
  Clientes = {a}
  Eventos = {}
  Pedidos = {}
  Leitores = {r1}
  Aprovadores = {}
  Coletas = {t1}
  ContratoCliente <- SemContratos
  Inadimplentes = {}
  ComMarca = {}
  MaxDia = 1
SYMMETRY SimetriaCabines
INVARIANTS
  LiveNaSuaCabine
  LiveLigada
  LinkEstaAoVivo
