SPECIFICATION SpecEntorno
CONSTANTS
  NULL = NULL
  Leads = {l1, l2}  Clientes = {c1, c2}  Eventos = {e1}  Entregas = {p1, p2}  Transacoes = {t1, t2}
  Pedidos = {p1, p2}
  Usuarios = {u1, u2}
  Titulares = {u1}  Sessoes = {s1, s2}  Links = {k1, k2}  MaxVersao = 2
  Solicitacoes = {r1, r2, r3}  Horarios <- TresHorarios
  Itens = {h1, h2}
  Unidades = {u1, u2}  Contas = {a1}  MaxRemocoes = 2
  Regras <- RegrasDaAgenda  Inicios = {3}  Destinos = {12}  Citados = {1}
  Criacoes = {p1}  Edicoes = {p2}  MaxEventos = 3  MaxSeries = 1
  Espectadores = {p1, p2}  MaxContagem = 2
  Categorias = {g1, g2}  Slugs = {n1, n2}  Artigos = {m1}  Reordenacoes = {p1, p2}
  Ordens <- TodasAsOrdens  MaxOrdem = 2
INVARIANTS
  TiposDoEntorno
  ClienteDoLead
  LeadUnicoPorEvento
  ConvitesEmOrdem
  SessoesEmOrdem
  CabineSemConflito
  UltimoConjunto
  ContaDesligada
  SerieConforme
  EspectadorEmDia
  OrdemInteira
CHECK_DEADLOCK FALSE
