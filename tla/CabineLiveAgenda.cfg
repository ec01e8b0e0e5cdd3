SPECIFICATION Spec
CONSTANTS
  c1 = c1
  k1 = k1
  k2 = k2
  a = a
  b = b
  NULL = NULL
  Cabines = {c1, c2}
  Lives = {l1, l2}
  Contratos = {}
  Clientes = {a}
  Eventos = {e1}
  Pedidos = {}
  Leitores = {}
  Aprovadores = {}
  Coletas = {t1}
  ContratoCliente <- SemContratos
  Inadimplentes = {}
  ComMarca = {a}
  MaxDia = 1
SYMMETRY SimetriaCabines
PROPERTIES
  EventoSegueSuaLive
