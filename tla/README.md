# Livelab backend: a TLA+ verification development

The repository is the backend of a multi-tenant platform for live commerce
("Livelab", "LiveShop"): Node 20, Fastify 5 and PostgreSQL. A franchise unit (a
*tenant*) owns recording booths (*cabines*), sells its clients contracts that pay
for hours of live broadcast, runs the lives from the booths, measures them on
TikTok, and bills its clients every fortnight.

This directory holds TLA+ models of the parts where steps of several requests,
cron jobs, server instances or connections meet, the TLC configurations that
check them, and TLAPS proofs of what matters most. Source paths below are
relative to the root of the repository; most of the program is `src/`
(67 JavaScript files) and the schema is `migrations/`.

    tlc -workers 2 -config CabineLiveContratos.cfg MCCabineLive
    tlapm CabineLiveProofs.tla

## 1. Inventory

### What every part stands on

`src/plugins/db.js` gives a handler a pooled client with the row-level security
context of its tenant set (`withTenant`). It opens **no transaction**: a handler
that wants one says BEGIN, and a handler that does not commits every statement by
itself. The models follow this. A handler that, inside one transaction, locks
every row it decides on is one action; one that decides on an unlocked read is
split at that read. A failing statement inside a transaction rolls it back, and
is a step that changes nothing.

### Components

| Component | State | Operations | What is hard | What makes it correct |
|---|---|---|---|---|
| Lives (`src/routes/lives.js`) | `lives`, hours of the contract, the cabine's link, events on the air | start, end, manual entry, edit, delete | the start resolves client, contract and event from four tables; the end charges whatever contract the cabine holds *then* | a running live is the one its cabine shows; its hours go to the contract it started with |
| Cabines (`src/routes/cabines.js`) | `cabines.status`, `contrato_id`, `live_atual_id` | reserve, release, status, `live-atual`, which repairs the row | release on the air; a repair decided on three unlocked statements | a link only on a cabine on the air; no live is shown on a foreign cabine |
| Contract trigger (`migrations/017_*.sql`) | the reserved cabines of a contract | on UPDATE of the contract's status | runs inside the contract's transaction | no cabine stays reserved for an inactive contract; a running live keeps its contract |
| Contracts (`contratos.js`, `services/contratos_auditoria.js`, `jobs/cleanup_orphan_contracts.js`) | status, signature, credit score | create, sign, analyse, activate, audit, take the risk, cancel; the nightly job | the status is checked without a lock and updated by id; the job selects first and updates later, contracts and clients apart | a decision is not overwritten by who has not read it; a decision of the audit reaches the client as well; a rejection is decided on in the end |
| Requests (`solicitacoes.js`, `cliente_portal.js`, `cliente_dashboard.js`) | `live_requests` | create, schedule, approve, refuse | what is checked of other rows is not locked; approval reads the contract unlocked; refusal checks without a lock | approved requests of a cabine do not overlap; one decision per request; no reservation on a dead contract |
| Agenda (`agenda.js`) | events, series | create, edit, delete, series | automatic events of the lives; a series is inserted row by row | an event follows the live that put it on the air; a series has the days its rule means |
| TikTok poll (`services/tiktok.js`) | `lives`, `cabines`, tokens | poll every minute | three autocommitted statements per live | the live that ends is the one that went off the air |
| TikTok connectors (`services/tiktok-connector-manager.js`) | an in-memory map, sockets, counters, timers | reconcile, start, stop, flush | an await between every look and its effect; several callers | the map converges to the lives in progress; the limit, exceeded by no more than the calls that overlap; nothing lost at the stop |
| Billing engine (`jobs/billing_engine.js`, `services/appmax.js`) | boletos, the mark on the lives, the advisory lock, orders at the gateway | a round per fortnight and instance | an external charge inside a transaction; several instances; one look at each fortnight; edits between read and write | a live in one invoice, a second charge only across a rollback, every live in time billed unless all the rounds of that day were lost |
| Boletos and webhooks (`boletos.js`, `appmax.js`, which has the webhooks of both gateways) | boleto status, nonces | pay by hand, webhooks, overdue job | repeated, overlapping and early webhooks; the nonce is stored before the event is processed | a payment is applied once, never undone, announced once |
| Sessions (`auth.js`, `plugins/auth.js`) | refresh tokens, `token_version`, reset tokens | login, refresh, logout, password, reset | lookup and revoke are two statements | what can be renewed is of an active user and the current version; one usable link of recovery |
| Users (`usuarios.js`, `tenants.js`) | users, their invitation, the client of a partner | invite, accept, resend, cancel, deactivate | every statement commits by itself, and a cancellation deletes | an accepted account is not deleted by its invitation; an invited partner has its client |
| Commissions (`services/commission-engine.js`, `vendas_atribuidas.js`, `comissoes.js`, `videos.js`) | attributed sales with their commissions | recalculate, enter, correct, approve, reject | started after the COMMIT of the live, not awaited, each statement its own transaction; brackets depend on the presenter's other sales | of two sales of a presenter at least one counted the other; an approval lasts; every presenter gets a row |
| Leads (`leads.js`, `webhook_bio_crm.js`) | `franqueadora_leads`, webhook nonces, clients | form, create, take, edit, delete, convert | a delivery commits statement by statement; `ganhar` holds the row's lock | one lead per form, one client per lead |
| TikTok account (`routes/tiktok.js`, `services/tiktok.js`) | tokens of the unit | callback, renewal, poll, removal by webhook | HTTP calls between reading and storing | no unit goes on with a removed authorization |
| Live toolkit (`routes/tiktok.js`) | listeners of an emitter, open responses | open, emit, close | queries between the first read and the listener | who watches gets every snapshot; who left has no listener |
| Replaced sets (`regional_managers.js`, `apresentadora_disponibilidade.js`) | units of a manager, hours of a presenter | replace, grant, revoke | DELETE and INSERT of a set, with and without a lock | the set is that of the last replacement |
| E-mails (`mailer.js`, `jobs/notify_boletos_vencidos.js`) | `notification_log` | check, send, record | three steps, several instances; a failed look-up counts as not sent | once per cause, and once more per lapse of the log |
| Knowledge base (`knowledge.js`, `manuais.js`) | categories with their order, articles | create, edit, deactivate, reorder; publish, archive, delete | a reorder writes row by row inside a transaction, next to others | the order is that of one reorder, whole |
| Registers, dashboards, infrastructure | single rows or none | CRUD, read-only SQL | nothing between rows | outside this development |

The files are those of `src/routes/` where no other directory is named.

Who touches whom: lives, cabines, the trigger, approvals and the poll all write
`cabines`; a start and an end call the connector manager without waiting for it;
the manager reads the lives in progress back from the database; the billing engine
reads ended lives and contracts and marks the lives; the webhook and the overdue
job write the boletos the engine committed; a flush of the connector manager is what
the live toolkit emits; users being deactivated ends sessions; an approved contract,
a converted lead and an invitation write the client.

`PROJECT.json` lists every component with its sources and status, and under
`hazards` every place where this code is hard to test, at its line.

## 2. Modules

### CabineLive: booths, lives, contracts, events, requests

Tables are functions from ids to rows with the columns' names.

| TLA+ | Code |
|---|---|
| `IniciarLive` (with `EventoDaLive`, `ClienteDaLive`, `ContratoDaLive`, `ContratoValidado`, `AceitaLive`, `LigarLive`, `MarcarEvento`) | `POST /v1/lives` |
| `EncerrarLive` (`ConcluirEventos`, `DesligarCabine`) | `PATCH /v1/lives/:id/encerrar` |
| `CriarLiveManual`, `EditarLive`, `ExcluirLive` | `POST /v1/lives/manual`, `PATCH` and `DELETE /v1/lives/:id` |
| `ReservarCabine`, `LiberarCabine`, `MudarStatus` | `PATCH /v1/cabines/:id/reservar`, `liberar`, `status` |
| `LerCabine`, `BuscarLive`, `CorrigirCabine` | the three statements of `GET /v1/cabines/:id/live-atual` |
| `EscolherLive`, `FinalizarLive`, `DesvincularCabine` | the three statements with which `pollAllTenants` ends a live |
| `AtivarContrato`, `DesativarContrato` | every handler that makes a contract active or not, with the trigger of migration 017 |
| `CriarSolicitacao`, `LerAprovacao`, `GravarAprovacao` | creation and the two halves of the approval of a request |
| `CriarEvento`, `EditarEvento`, `PassarDia` | the agenda by hand; midnight |

Three columns exist only in the model. `lives.contrato` is what a start resolved
(the table forgets it), `agenda.live` is the live that put the event on the air (the
table has no such column, which is why the end of a live may conclude another's), and `soltas`
is a history of cabines that lost the link to a running live, by a release on the air
or a stale repair: the two ways the code has of doing it knowingly.

Abstractions. A contract is active or not; any contract may change at any time,
which is a superset of what the handlers of `contratos.js` do (they are in `CicloContrato`). Several active
contracts of one client are chosen from at random, where the code orders them by
activation. A contract's client and the clients in default (`inadimplente`) are
constants: no handler writes them. The events are those of type `live`. The start's
attempt to insert an event is inside its transaction: if the INSERT fails, the whole
start rolls back. The unlocked first read of `DELETE` commutes with everything,
because an ended live never runs again. The poll charges no hours, keeps the contract
on the cabine and leaves the event on the air: that is what the code does. Creating
and deleting a cabine are left out; what requests check of each other is in `Reservas`.

### ConnectorManager: the map of TikTok connections

One action per resumption of an await, since the process is single-threaded. A *call*
(`chamadas`) is one execution of `syncLives` (the cron's, or the one after a start) or
of `stopConnector` outside it (the end of a live, `streamEnd`). The counters of a
connection are one number, the events received; `snapshots` is what reached
`live_snapshots`, and the value a stop writes to `lives.final_*` is in its call. `Consultar`, `PararSobrando`, `IniciarFaltando`, `Registrar`
are `syncLives` and `startConnector`; `Parar`, `PararGravou`, `PararFinal`, `PararFim`
are `stopConnector`, `PararAposEncerrar` the end of a live; `Flush`, `FlushGravou` are the timer; `Conectou`, `NaoConectou`,
`Receber`, `Cair`, `StreamEnd` are the listeners. Left out: the circuit breaker, the
field `reconnecting` (nothing reads it) and the optional package being absent.

### Billing: a tenant's fortnightly round

`quinzena` numbers the fortnights: the lives of fortnight q are billed on the first
day of q + 1, and the contracts' fixed amount on odd ones (day 1). Each instance has
a row with the state of its round and with what its open transaction has written and
not committed. `Disparar` (cron and `pg_try_advisory_lock`), `LerLives` (BEGIN and the
two SELECTs), `FaturarCliente` (one client of the loop: skipped, inserted, or an error
that rolls back), `Cobrar` (the call of the gateway, inside the transaction),
`Confirmar` (COMMIT and the release of the lock), `Falhar` and `Cair` (a statement
fails; the process dies, or is not up when the cron should fire). `Prender` is the
connection for the lock failing before the `try`: `_billingRunning` stays set and the
instance, now in `presas`, skips every later round until it is started again
(`Reiniciar`). `LancarLive`, `EditarLive` and `ExcluirLive` are the handlers
of `lives.js` as billing sees them; a row that the open transaction has updated is
locked for them. `Eventualidades` names what a run lets happen besides the
normal course. An amount is zero or not. What becomes of a boleto after the COMMIT is in
`Pagamentos`. Two histories exist only in the model: `desfechos`, how the round of each
instance about each fortnight ended (committed, lost, or neither), and `atrasada`, that a
live was entered or last edited when its fortnight was over.

### Comissoes: attributed sales and commissions

`calcularComissoesDaLive` runs outside any transaction and nobody awaits it, so a
recalculation is a row of `calculos` that advances one statement at a time, with
everything else in between.

| TLA+ | Code |
|---|---|
| `EncerrarLive`, `CriarLiveManual` (`LancarVenda`, `UpsertVenda`) | the sale written in the transaction of the live |
| `Recalcular`, `Disparar` | the call after the COMMIT of an end or of an edit with new amounts |
| `LerLive`, `LerEquipe`, `Somar`, `Buscar`, `Gravar` | the statements of `calcularComissoesDaLive`, the last three per presenter |
| `Falhar` | any of them throws, or the process dies |
| `EditarLive`, `ExcluirLive`, `MudarEquipe`, `FinalizarPeloPoll` | what changes a live or its presenters without writing sales |
| `CriarVideo`, `EditarVideo`, `ExcluirVideo` | `videos.js`, whose sales live and die in the transaction of the video |
| `LancarPorMao`, `CorrigirVenda`, `Aprovar`, `Reprovar` | `vendas_atribuidas.js`, `comissoes.js` |

Amounts are left out. What stands for the commission of a row is `por`, who computed it
last, and `base`, the sales that the sum of `gmvAcumuladoMes` counted: the bracket is a
function of these. `criada` tells the rows written with the end of their live from those
of the engine and of a person. These three columns exist only in the model, and so do
two histories: `firmes`, the sales approved while no recalculation held them as open,
and `incertas`, the lives whose last recalculation may not have seen their presenters.
All sales are of one month; that a live's client has an active *marca* is a constant
(`ComMarca`). The PATCH, the approval and the rejection read the row and update it by id;
each is one action, because its UPDATE, whenever it comes, is what the same request
would do then. The unique index of the table (one row per origin and presenter) is a
guard of `Inserir`, and what makes `Gravar` fail.

### CicloContrato: the life of a contract

A handler that reads and then writes by id is two actions with a row of `pedidos`
between them: creation (`PedirContrato`, `CriarContrato`), digital signature, analysis
and activation (`LerParaAssinar`, `AssinarDigital` and so on). A handler whose UPDATE
carries its own guard, or that locks the row first, is one: `Assinar`, `AssumirRisco`,
`Cancelar` and the audit (`ExecutarAcaoAuditoria`). The nightly job selects
(`SelecionarVencidos`) and then writes contracts and clients by id (`CancelarVencidos`):
what another transaction committed in between is overwritten all the same. Ages stand
for dates: 0 is up to five days, 1 up to thirty, 2 more. The credit score is a function
of its four inputs (`Pontos`, `Risco`, `Aprovado`). Two histories exist only in the
model: `decisao`, the status a contract was given while nobody else was about to write
it, and `espelho`, the contracts that last gave the client its status. Only a write of the
client changes `espelho`: a handler that changes the contract and leaves the client
(`DeixarCliente`) leaves it too, and shows as a difference that `ClienteEspelhaContrato`
must account for.

### Pagamentos and Quitacao: the payment of a boleto

`Pagamentos` has both webhooks statement by statement (`Receber`, and the steps of
`Passo(d)`: nonce, look-up, guarded UPDATE, e-mail), the gateway that repeats an event
until it is answered 200, payment by hand, the job that marks boletos overdue and, per
instance, the one that reminds of them (`SelecionarVencidos`, `ConsultarLog`, `Lembrar`).
The e-mail leaves after the gateway has its answer. `hasSent` answers what the log has or,
when its query fails, that nothing was sent (the last branch of `ConsultarLog`); `lapsos`
counts, per boleto, the times the log could not keep a reminder from being repeated. `replay` and `semId`
are settings, chosen at the start: replay protection on or off, and events without an id
of their own, whose nonce is that of the order.

`Quitacao` is what a client is promised, in two actions: a boleto is paid once and for
all, and its payment is announced after it and at most once. `Pagamentos` implements it
with `pagos` mapped to the boletos with status `pago` and `avisos` to the e-mails that
left; the property is `Quita`, and `QuitacaoCorrect` proves it.

### The parts around them

| Module | Code | How |
|---|---|---|
| `Funil` | `leads.js`, `webhook_bio_crm.js` | a delivery stores its nonce and inserts the lead in two commits (`ReceberEvento`, `CriarPeloWebhook`); a conversion (`ComecarConversao`, `Converter`, `DesfazerConversao`) holds the row's lock, and every other writer of the lead waits for it |
| `Convites` | `usuarios.js`, the acceptance in `auth.js`, `tenants.js` | invitation in two steps (the client is looked up first), resend and cancellation read before they write, acceptance is one guarded UPDATE |
| `Sessoes` | `auth.js`, `plugins/auth.js` | a session is its refresh token, with the version its access token carries; a request is a row of `pedidos` between two statements: `Entrar`/`Emitir`, `LerRenovacao`/`Girar`, a new version and the `Revogar` that follows it, `InvalidarLinks`/`GravarLink` |
| `Reservas` | `solicitacoes.js`, `cliente_portal.js`, `cliente_dashboard.js` | the requests of one cabine and day; check and write are two actions, approval holds the lock of its own row only |
| `Trocas` | `apresentadora_disponibilidade.js`, `regional_managers.js` | DELETE and INSERT of a set; the DELETE sees its snapshot, the unique key waits for and refuses what another transaction adds |
| `TikTokConta` | `routes/tiktok.js`, `services/tiktok.js` | callback, renewal (nightly and in the poll) and removal, one action per await; a token knows how many removals of its account came before it |
| `Series` | `agenda.js` | the days of a recurrence as the loop of the code computes them (`Recorrencias`), against a definition of the days the rule means (`Pretendidas`); rows inserted one by one; a body may name any event as the origin (`CriarUm`, `Criar`, `LerEvento`); edits and cancellations of one, of the later ones, of all |
| `Transmissao` | `routes/tiktok.js`, `tiktok-connector-manager.js` | one live and one connection: what a flush stores is emitted to the listeners of open responses |
| `Conhecimento` | `knowledge.js`, `manuais.js` | a reorder is a transaction of one UPDATE per category: its rows stay locked from their UPDATE to its end, an edit of a locked row waits, a failure or a deadlock rolls it back (`Reordenar`, `Atualizar`, `Confirmar`, `Desfazer`) |

`Cobranca` composes `Billing` and `Pagamentos`, `Entorno` the nine parts of the table, each
with constants and an assumption of its own; `MCEntorno` gives `Entorno` the values that a
cfg cannot write. The parts of each keep no state in common, so a behaviour takes each by
itself: a variable chosen at the start (`metade`, `cenario`) names the one that moves. The
conjunctions that `Entorno` checks (`ConvitesEmOrdem`, `SessoesEmOrdem`) are of properties
stated in the modules of the parts.

Abstractions. Funil: the expiry of a lead that was taken is left out, so any user may take
any free lead. Sessoes: one unit; an access token lives until it is compared. Series: days
are numbers from a Sunday and hours are left out; `dias_semana` is the sequence that was
sent, a weekday sent twice giving its day twice. The status of an event is left out, since
nothing here reads it: a cancellation is the edit that says neither a day nor an origin (a
PATCH that does not name a status writes the schema's default `planejado`). The search for
conflicts only warns, and has no action. Conhecimento: the rows of categories are never
deleted, and nothing depends on the category of an article. Transmissao: the counters are one number; the
stream of events is the same without the first snapshot. TikTokConta: encryption gives
back what was stored. Convites: names and temporary passwords are left out.

## 3. Runs

The runs have two or fewer of nearly everything that acts. Two is what the hazards need: a
second live for the cabine, a second contract to be put under a live, a second instance for
the lock, a second call for the map, a second delivery of an event. Where a third would
matter (more readers, more instances, more clients), the theorems of section 5 cover it.

| Run | Question | Bounds |
|---|---|---|
| `contratos` | Do contract changes at any moment, with an approval in flight, leave a running live on its contract and the hours with it? How can a cabine come to be reserved for an inactive contract? | 1 cabine, 2 lives, 2 clients (one in default) with a contract each, 1 request, 2 days |
| `reparo` | What can the unlocked repair by `live-atual` and the poll's three statements break? | 2 cabines, 2 lives, 1 reader, 1 poll |
| `agenda` | Does an event stay on the air with its live? | 2 cabines, 2 lives, 1 event, 1 day, 1 poll |
| `manager_mapa` | By how much is the limit of connectors exceeded when the cron's reconciliation and the one after a start overlap? | 2 lives, 2 connections, limit 1, 2 reconciliations, 1 stop, no events (the limit does not depend on them) |
| `manager_reconcilia` | Does the final write of a stop cover what is in flight? Does the map converge to the lives in progress? (liveness) | 1 live, 2 connections, limit 1, 1 event each, 2 reconciliations, 1 stop |
| `billing_live` | Which lives may stay unbilled once the rounds of their fortnight are over, and when may a client be charged twice? Is a payment never undone nor announced twice (refinement), recorded in the end unless its event was answered 200 without effect (liveness), and how often is a boleto reminded of? | Billing: 2 instances, 1 client, 2 lives, 2 fortnights, all that may go wrong (refused orders, failures, crashes, late entries, edits, lives without a client). Pagamentos: 1 boleto, 2 deliveries, 2 instances, 1 failure, replay protection on and off |
| `billing_edicao` | Is a live in one invoice at most, whatever is edited, entered late, deleted, failed or crashed? | 2 instances, 2 clients, one with a fixed amount, 2 lives, 2 fortnights; late entries, edits, deletions, failures, crashes |
| `comissoes_faixa` | Of two sales of a presenter, did one count the other, whatever the order of the recalculations? Does an approval last? | 2 lives, 1 video, 1 presenter, 3 sales, 2 recalculations in flight; approvals and rejections |
| `comissoes_equipe` | Does every presenter of a live have a row when the recalculations are over, although two of them race on the unique index? | 1 live, 2 presenters, 3 sales, 2 recalculations; entries by hand, changes of presenters, failures, the poll, deletion |
| `ciclo_contrato` | Does a decision on a contract last until somebody who sees it takes another, where may a client differ from the contract that gave it its status, is a rejection decided on in the end (liveness)? | 2 contracts of 1 client, 1 request in flight, the nightly job, scores of 60 and 55 points |
| `entorno` | In which ways, and no others, do two requests in flight break a lead, an invitation, a session, a reservation, a replaced set, a TikTok account, a series, a stream, the order of the categories? | 2 leads, 2 deliveries, 2 conversions; 2 users, 2 clients; 1 user, 2 sessions, 2 links; 3 requests over 3 intervals; sets of 2; 2 units of 1 account, 2 removals; 3 events of a weekly rule with a weekday sent twice, cut short by its total, one origin named by bodies; 2 watchers, counters up to 2; 2 categories, 2 reorders, 1 article; 2 requests in flight in each |

The first three split the actors between them (approvals, reader, events), because all
of them at once exceed what TLC can enumerate; `CabineLiveProofs` has them all together.

Fortnights, days and events are capped by `MaxQuinzena`, `MaxDia` and `MaxEventos`;
lives and agenda events are never reused, which caps the clock `relogio`. Connections are
recycled, so `Conexoes` bounds only how many exist at once. In two fortnights there is
one day of billing, on which two instances have their rounds, one after the other or
overlapping: a live can be billed by one and moved under the other, the first can be rolled
back after its charge, and a live can be late. `Citados` are the ids of events that bodies
name as origin. `CalendarioConforme` is evaluated for the rule of the run, `MuitosCalendarios`
for 84 rules and 3 first days each. `MaxFalhas` counts failures of a statement, a mailer or a process,
`MaxVersao` the versions of an account's tokens, `MaxRemocoes` the removals of an
authorization, `MaxContagem` the counters of a live, `MaxOrdem` the `sort_order` of a category; ids of rows and rows of requests in
flight are bounds by their sets. Symmetry is used where the ids are interchangeable, and
never with a liveness property. Deadlock is checked in every run but those of Comissoes,
`billing_live` and `entorno`: edits, polls and releases go on for ever, while the few
ids of lives, sales, leads, sessions or events of those instances can all be used up.

Every property of a passing run has a mutant in its module (an operator `Mut...`
before the original): a change a plausible bug would make, under which the run finds
the property violated.

### Where the code and what is said of it differ

`doc_cobranca_unica` checks a sentence of the repository, and TLC finds it violated by what
the code does: a charge made inside a transaction that rolls back is made again by the next
round, because the idempotency key is computed and never sent (`billing_engine.js:150`,
against `appmax.js:161`). The sentence is quoted in `PROJECT.json`.

Three more divergences were met while modelling and are not a run of their own. A live of a
client without an active contract is charged to the contract another client left on the
cabine (`lives.js:851`). A connection that drops stays in the map, and the reconciliation
that is said to reconnect it (`tiktok-connector-manager.js:266`) skips what is in the map.
The listener of the live toolkit is said to be removed on disconnect, and is not when the
browser leaves during the first queries (`routes/tiktok.js:426`).

Other behaviour of the code that a reader may not expect and that the models have, each
an execution of its module: a cabine released on the air takes a second live while the
first runs (`LiberarCabine`, then `IniciarLive`); the end of a live concludes the event
that a live of another cabine put on the air, and leaves its own if that is of another
cabine or day (`ConcluirEventos`); the poll ends any live of the tenant, not the last
one started (`EscolherLive`); two overlapping reconciliations connect a live twice and
exceed the limit by one (`Registrar`, with two elements of `Sincronias`); a live entered by hand
after the round of its fortnight is never billed (`LancarLive` with "atraso"), nor is one of
a day on which every round was lost; one live without a client rolls back the invoices of
the whole tenant (`FaturarCliente`, with "sem_cliente"), and again in the round of the other
instance; a failed connection for the lock keeps an instance from billing until it is
restarted (`Prender`); an event that arrives during an INSERT of
`_flushToDb` is marked clean with it, and the stop leaves it out of the snapshots
(`FlushGravou`).

Of the commissions: an approval given while a recalculation has already read the row is
undone by it (`Buscar`, `Aprovar`, `Gravar`), which is why `AprovacaoFirme` speaks of the
others; a person's entry for an origin that has an approved row replaces its amounts and
leaves it approved (`Atualizar`); a recalculation that runs into the unique index stops
half done, and `TodasComComissao` holds because the winner covers the same presenters;
a presenter that leaves a live, and a live that is deleted, keep their rows; a live entered
by hand for a presenter without a user gets, if it is ever recalculated, a second row, of
nobody (`CriarLiveManual`, `LerEquipe`).

Of the contracts: a rejection blocks new contracts of the client for thirty days, but the
job cancels it after five, and the block, which looks for the status, ends with it
(`contratos.js:38`); a contract the job has cancelled once is never selected again, since
nothing clears `cancelado_automaticamente_em`; analysis, signature on paper, cancellation
and activation leave the client's status as it was.

Of the payments: a `hasSent` that fails answers that nothing was sent, so that a boleto that
is in the log is reminded of again; an event that arrives before the COMMIT of the charge is answered 200 and
lost; with replay protection the nonce is stored before the event is processed, so an event
that fails is, when it comes again, taken for a replay; an event without an id has the
order's nonce, so that only the first of an order counts.

Of the rest: a PATCH that takes a lead out of `ganho` lets it be converted again; two
approvals of overlapping requests that are in flight together are both given; a refusal may
overwrite an approval it has not seen; two requests for a link of recovery leave two that
work; a cancellation that read an invitation as pending deletes the account that was
accepted since; two replacements of a manager's units leave the union of both; a late
removal clears a connection made after it, and with two units of one account only one of
them (`LIMIT 1`), an error being answered 200. Of a series: a weekly rule skips what is left
of the first week, the loop stops at the week in which the cursor passes the limit, so that
days of that week before the limit are lost, a month without the day runs over into the next,
and an edit of all from an occurrence never reaches the first event.

## 4. Fairness

Safety is checked under `Init /\ [][Next]_vars`, without fairness: a request may
stay in flight for ever.

*ConnectorManager.* The cron's `syncLives` is weakly fair because `server.js` runs it
every 60 seconds; a call that has been resumed goes on, and queries, `disconnect()`
and `connect()` settle, one way or the other. Nothing is assumed of TikTok's events,
of starts and ends of lives, or of the other calls being made at all.

*Pagamentos.* `WF(Passo(d))`: a request that is being handled goes on, each of its
statements being answered. `SF(Receber(e))`: the gateway repeats an event until it is
answered 200, however often other events take the server's attention. In `Cobranca` the
fairness of each half is asked for only while that half moves.

*CicloContrato.* `WF(PassarDias)`, `WF(SelecionarVencidos)`, `WF(CancelarVencidos)`: days
pass, the cron of `server.js` runs the job every night, and its statements are answered.
Nothing is assumed of the people who decide.

The other modules have no liveness property: nobody is obliged to end a live, to accept an
invitation or to approve a request. Billing has none either, because the code has no
catch-up: what a fortnight's rounds missed no later one looks at. That a live is billed is
therefore a safety property, `LiveFaturada`, about the moment when those rounds are over, and
says of every live that is not billed by then why.

## 5. Theorems

TLC checks the instances above; the theorems hold for every value of the constants
that satisfies the module's named assumption.

**CabineLiveProofs.** `Tipo` adds to `TypeOK` what a request in flight knows (a running
live has a cabine; a reader that has read holds a cabine, a poll a live that existed).
The four properties of the link cannot be proved one by one: that a running live is
still shown by its cabine needs that no *other* live is linked there, and the reverse.
`Coerente(c)` states them together for one cabine and `Ligacao` for all; it is
inductive with `Tipo`. From it:

- `TypeCorrect`: `[]TypeOK`;
- `LiveLigadaCorrect`: a running live is the one its cabine shows, and its contract is
  on the cabine, outside the cabines in `soltas`;
- `LinkCorrect`: a link only on a cabine on the air, a running live only on its own;
- `HorasCorrect`, `EventoCorrect`: two action properties, from `Ligacao` and one
  case per action;
- `ReservaCorrect`: a cabine comes to be reserved for an inactive contract only by an
  approval that had read the contract before: the trigger is enough for all the rest.

**BillingProofs.** `Tipo` adds `TravaUnica` (only the holder of the advisory lock has a
transaction open) and `RodadaCoerente`. Then

- `TypeCorrect`: `[]TypeOK`;
- `LiveEmUmBoletoCorrect`: rests on three facts that are inductive only together:
  `TravaUnica`, `LidasForaDosBoletos` (what the open transaction read is in no invoice)
  and `MarcaCoerente` (a live in an invoice keeps its mark, or is deleted). An edit
  moves a live under another client or fortnight, and the mark, read under the lock,
  keeps it out;
- `CobrancaUnicaCorrect`: of two orders about one client and fortnight one is of a round that
  was rolled back. The invariant (`Cobranca`) says that an order belongs to a boleto that is
  committed, to one its instance has yet to commit, or to a round that was lost, and that
  what is yet to be committed has its key free. `DesfechosEmDia` ties the history of outcomes to
  where the instances are;
- `LiveFaturadaCorrect`: the invariant (`Faturadas`) follows a live that is in time and not
  billed when its fortnight is over: no round of that day was committed, an open transaction
  past its SELECT has read the live as it is and has not passed its client over (`DaVez`), and
  some instance is still to finish or has lost its round (`Alguem`); days before that are lost
  (`Antigas`). Whatever edits the live meanwhile makes it late.

**ComissoesProofs.** `Tipo` adds that a recalculation in flight has a live. Then

- `TypeCorrect`: `[]TypeOK`;
- `FirmeCorrect`: an approval lasts. The invariant (`Firmeza`) adds that no recalculation
  is about to write a row of `firmes`; an UPDATE by id can then only meet an open one;
- `UmaContaCorrect`: of two sales of a presenter computed by the engine, one counted the
  other. The invariant (`Faixa`) follows a *reading*, the sum of the engine, from the
  recalculation into the row: a live that is not over has neither a sale of its own nor a
  recalculation (`SoDepoisDoFim`), the row about to be written is still of the live and
  the presenter it was read for, or corrected by hand (`AchadaCoerente`), and of two
  readings for two lives that have their sale, one contains the other (`Contam`). Only
  two steps add to either side: `Somar` reads when both sales exist, and `EncerrarLive`
  writes a sale when nothing of that live has been read.

- `TodasCorrect`: when the recalculations of a live are over, every presenter has a row. The
  invariant (`Garantia`) says what a recalculation still owes (`Promete`), that it may lose
  one row to the unique index and stop (`Perdida`), and that one which has not lost is left
  until all presenters have theirs: whoever took the row owes the same presenters. It needs
  that a presenter has at most one row (`LinhaUnica`), and `Faixa` for the rows about to be
  written.

**ConnectorManagerProofs.** `Tipo` is `TypeOK` with what a call holds at each await
(`ChamadaCoerente`, `ConexaoCoerente`, `FlushCoerente`). Then

- `TypeCorrect`: `[]TypeOK`;
- `FinalCorrect`: what a stop is about to write covers the INSERT in flight. `FinalInv`
  follows the timer: it is off from the first step of a stop, so that no flush begins after
  the stop has read the counters;
- `LimiteCorrect`: for finite sets of lives and of reconciliations that may overlap, the
  connectors in the map and those about to be registered exceed the limit by at most one for
  each reconciliation but one. The property is inductive with `Tipo`: a reconciliation that
  goes on to an await has found the map below the limit, each of the others can have at most
  one entry pending, and `Registrar` turns a pending one into an entry.

**PagamentosProofs.**

- `TypeCorrect`: `[]TypeOK`;
- `QuitacaoCorrect`: `Spec => Quita`, the refinement. The initial states map to initial
  states, and every step to one of `Quitacao` or a stutter: a payment is a guarded UPDATE, so
  that of two deliveries one finds the row already paid and has no e-mail to send; the
  invariant says that at most one e-mail per boleto is on its way or has left;
- `LembreteCorrect`: a boleto is reminded of once and once more for every lapse of the log. The
  invariant (`LembreteInv`) counts the reminders that left with those in the hands of an instance;
- `MetadesCorrect`: a behaviour of `Cobranca` is one of `Pagamentos` and one of `Billing`
  (the half that does not move stutters). With the theorems of BillingProofs, taken in by
  INSTANCE, it gives `TiposDaCobrancaCorrect`, `CobrancaUnicaCorrect`, `LiveFaturadaCorrect`
  and `PagamentosDaCobranca`: what the run `billing_live` checks of safety and of
  the refinement, for every value of the constants.

**CicloContratoProofs.**

- `RiscoDoAprovado`: of the credit score, for every profile: at most 100 points, and what is
  approved is never of high risk;
- `TypeCorrect`: `[]TypeOK`;
- `DecisaoCorrect`: a decision lasts. The invariant adds what a request and the job hold: a
  decided contract is held by nobody, unless it is a rejection the job has selected;
- `EspelhoCorrect`: a client and the contract it last took its status from differ only where a
  handler that leaves the client behind has changed the contract. The invariant says the same
  of a contract that a request or the job holds, and that the job, which writes all the
  contracts it selected and their clients at once, leaves the two equal.

**PedidosProofs** and **EntornoProofs** prove every invariant of the run `entorno`. Each part
has an inductive invariant of its own, `IndInv` and the name of the part.

- *Convites*: `ConvitesCorrect`. The count of acceptances follows the flag of the row
  (`Aceites`), and a cancellation in flight of an accepted account has it among those it read
  before (`Cancelamentos`).
- *Sessoes*: `SessoesCorrect`. A session that is valid, or about to be opened, has the version
  of its user or a revocation of its user in flight (`SessaoFirme`, `AberturaFirme`), unless
  it is late; while a link is about to be stored, the usable ones of that user were stored
  beside it (`LinksFirmes`). A session whose user is deactivated, or gets a new version, is
  followed through every step until the revocation reaches it.
- *Reservas*: `ConflitoCorrect`, for every set of intervals of natural numbers. The invariant says
  what an approval that has checked may rely on: approved rows it did not see are marked as
  overtaken, and the rest do not overlap with its own (`AprovacaoCoerente`, `RecusaCoerente`,
  `SemSobreposicao`).
- *Trocas*: `UltimoConjuntoCorrect`. Under the lock a replacement is alone and has seen what is
  stored; without one, the same until two overlap (`GradeInv`, `AcessoInv`).
- *Funil*: `ClienteDoLeadCorrect` and `LeadUnicoCorrect`, from `ConversaoInv` (a conversion holds a
  lead that is not won yet, alone), `ClienteInv` and `EventoInv` (an event whose delivery is in
  flight, or that has a lead, has its nonce stored).
- *TikTokConta*: `ContaDesligadaCorrect`. What is said of the token of a unit is said of every
  token in the hands of a callback or a renewal (`PedidoFirmeTikTok`), and a token of the row
  belongs to the account of the row (`UnidadeFirme`).
- *Transmissao*: `EspectadorEmDiaCorrect`. What a request has read, and what its connection was
  sent, is the count last stored, or a flush is about to emit it, or it was missed (`EmDia`).
- *Conhecimento*: `OrdemInteiraCorrect`. A row is locked by one reorder (`TravasUnicas`), a locked
  row has its last position among the statements that have run (`Posicoes`), and what a
  ROLLBACK would give back is the order of the last reorder (`Bases`).
- *Series*: `SerieConformeCorrect`. The occurrences a request inserted are, in order, the first of
  those its rule means, each still in the series and on its day unless a body moved it
  (`EmDias`, with the sequence of inserted rows as witness), and what the request has left is
  the rest (`Restantes`). Two occurrences of one day are told apart by their place in the
  sequence, which takes the theorems about cardinality to count.
- `PartesCorrect`: a behaviour of `Entorno` is a behaviour of each part; `TiposCorrect` is the type
  invariant of all of them, and `EntornoCorrect` all the invariants of the run together.

The assumptions are on constants: bounds are natural numbers, intervals have their ends in
order, arrays of ids are of categories and not longer than the bound, `NULL` is no value of a
column. One says more, `CalendarioConforme`: for the rules and first days of the instance, the
loop of `calcularRecorrencias` gives the occurrences that the rule means, in order. What a recursive
definition computes for every input needs an induction over data, which the provers here
cannot do; TLC evaluates the assumption for the instance of the run, and `MuitosCalendarios`
for a larger set of rules and first days.

All of these are proved with no step left open. Every invariant and action property of the
passing runs is stated by a theorem, `SerieConforme` under `CalendarioConforme` as above. What is
only model-checked is liveness (`SaiDoMapa`, `VoltaAoMapa`, `PagamentoReconhecido`,
`ReprovadoSeResolve`), since fairness and ENABLED are out of the prover's reach.

## 6. Not modelled

Dashboards, reports and analytics (read-only SQL, a large part of the repository's lines);
registers of single rows; the monthly metrics of clients (one upsert); the text of articles; the audit
log, database plugin, encryption and signatures; templates and delivery of e-mails; the
cleanup of reset tokens. Inside what is modelled: the content of TikTok's events, amounts
beyond being zero, the loop over tenants (row-level security keeps them apart), exact dates
(time zones and the millisecond between two fortnights), and the order in which the
transactions of two handlers take their locks: PostgreSQL aborts one of two that wait for
each other, and an aborted handler changes nothing.

## 7. Plan

Done: CabineLive, ConnectorManager, Billing, Comissoes, the contracts, requests, payments with
their abstract specification, sessions, invitations, leads, series, the TikTok account, the
streams and the knowledge base, with the proofs of section 5. Left, in this order:

1. Abstract specifications besides `Quitacao`: an invoice ledger that Billing implements, with
   the step simulation proved; a set of connected lives that ConnectorManager implements
   without overlapping calls; a table of sales that Comissoes implements.
2. The lock order of the handlers of CabineLive as a module of its own, for deadlock.
3. Boundaries of the fortnights as a pure definition, for each time zone of the database.
