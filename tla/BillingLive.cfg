SPECIFICATION SpecCobranca
CONSTANTS
  NULL = NULL
  Boletos = {b1}
  Entregas = {d1, d2}
  Instancias = {j1, j2}
  MaxFalhas = 1
  Lives = {l1, l2}
  Clientes = {a}
  Faturadores = {i1, i2}
  ComFixo = {}
  MaxQuinzena = 2
  Eventualidades = {"banco", "queda", "gateway", "atraso", "edicao", "sem_cliente"}
INVARIANTS
  TiposDaCobranca
  CobrancaUnica
  LembreteUnico
  LiveFaturada
PROPERTIES
  Quita
  PagamentoReconhecido
CHECK_DEADLOCK FALSE
