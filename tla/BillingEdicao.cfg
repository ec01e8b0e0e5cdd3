SPECIFICATION Spec
CONSTANTS
  l1 = l1
  l2 = l2
  a = a
  b = b
  i1 = i1
  i2 = i2
  NULL = NULL
  Lives = {l1, l2}
  Clientes = {a, b}
  Instancias = {i1, i2}
  ComFixo = {b}
  MaxQuinzena = 2
  Eventualidades = {"edicao", "atraso", "banco", "queda"}
SYMMETRY Simetria
INVARIANTS
  LiveEmUmBoleto
