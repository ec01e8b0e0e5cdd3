SPECIFICATION Spec
CONSTANTS
  c1 = c1
  k1 = k1
  k2 = k2
  a = a
  b = b
  NULL = NULL
  Cabines = {c1}
  Lives = {l1, l2}
  Contratos = {k1, k2}
  Clientes = {a, b}
  Eventos = {}
  Pedidos <- PedidoHoje
  Leitores = {}
  Aprovadores = {p1}
  Coletas = {}
  ContratoCliente <- DoisClientes
  Inadimplentes = {b}
  ComMarca = {}
  MaxDia = 2
SYMMETRY Simetria
INVARIANTS
  TypeOK
  ContratoDaLivePreservado
PROPERTIES
  HorasDoContratoInicial
  ReservaInativaSoPorAprovacao
