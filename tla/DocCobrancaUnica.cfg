SPECIFICATION Spec
CONSTANTS
  l1 = l1
  l2 = l2
  a = a
  b = b
  i1 = i1
  i2 = i2
  NULL = NULL
  Lives = {l1}
  Clientes = {a}
  Instancias = {i1, i2}
  ComFixo = {}
  MaxQuinzena = 2
  Eventualidades = {"banco"}
INVARIANTS
  UmaCobrancaPorQuinzena
CHECK_DEADLOCK FALSE
