SPECIFICATION Spec
CONSTANTS
  l1 = l1
  l2 = l2
  x1 = x1
  a = a
  b = b
  c1 = c1
  c2 = c2
  v1 = v1
  v2 = v2
  v3 = v3
  NULL = NULL
  Lives = {l1, l2}
  Videos = {x1}
  Apresentadoras = {a}
  ComConta = {a}
  ComMarca = {l1, l2}
  Vendas = {v1, v2, v3}
  Calculos = {c1, c2}
  Eventualidades = {"decisao"}
SYMMETRY Simetria
INVARIANTS
  TypeOK
  UmaContaAOutra
  AprovacaoFirme
CHECK_DEADLOCK FALSE
