# TLA+ models of ssh-sync-server

ssh-sync-server keeps the SSH keys, configuration and known hosts of an account
for all its machines. The data is encrypted with a master key the server never
sees; each machine holds it encrypted for its own key pair. The parts with
behaviour of their own are the pairing of a new machine with an account, a
hand-shake of two web sockets in one process; the request handlers that write to
the database over one connection; and what they do to the rows of accounts,
behind a check of tokens. This directory models all three, checks them with TLC,
and proves the main results with TLAPS for any number of connections, requests,
users and machines.

## The system

| part | source | state | operations | what makes it correct |
| --- | --- | --- | --- | --- |
| pairing | `pkg/web/live/main.go` | `ChallengeResponseDict`; per session three unbuffered channels, a timer, three goroutines | `NewMachineChallengeHandler`, `MachineChallengeResponseHandler` | only an approved machine is added; the master key goes to the machine whose public key it was encrypted for; nobody waits for ever; the process survives |
| request handlers | `pkg/web/router/routes/` | none of their own; rows of the database | set-up, upload, deletion, rotation, machines | all or nothing; success means stored; an error means nothing happened |
| transactions | `pkg/database/query/transaction.go` | the session's transaction | `StartTx`, `RollbackFunc` | every transaction begun is ended |
| connection | `pkg/database/main.go` | one `pgx.Conn` for the process | `GetConnection` | usable by many goroutines; survives errors |
| repositories | `pkg/database/repository/` | rows of users, machines, keys, configs, hosts, rotations | look-ups, upserts, deletions | unique names; a user's rows are its own |
| rotation | `routes/keyrotation.go`, `repository/master_key_rotation.go` | one pending key per machine | post, get, delete; the check in `addData` | no upload under an old key; no new key lost |
| authentication | `middleware/auth.go`, `pkg/crypto/` | none | `ConfigureAuth`, `VerifyJWT`, `ValidatePublicKey` | the account is the one whose machine signed |
| public keys | `pkg/crypto/keys.go` | none | `DetectKeyType`, `ValidatePublicKey` | a key that is stored can be used |
| the rest | `internal/setup`, `router`, `models`, `log.go`, mocks | none | wiring, records, logging | not modelled |

How they interact: every HTTP request and every web socket has a goroutine of its
own. Handlers of one process share the dict of sessions (under its mutex), the
channels of a session, and the database connection (under nothing). A panic in
one of the web-socket goroutines is recovered by nobody and ends the process;
docker-compose starts it again with an empty dict and a new connection, the rows
stay. What is hard, and where, is listed in `PROJECT.json` under `hazards`.

## The modules

| module | what it is |
| --- | --- |
| `Live` | both pairing handlers and the waiting goroutine, step by step |
| `Pairing` | what pairing promises, without goroutines, channels or phrases |
| `LiveInvariant` | the inductive invariant of `Live`, and the mapping of its state to `Pairing` |
| `LiveProofs`, `PairingProofs` | invariance, and that `Live` implements `Pairing` |
| `Requests` | the handlers that use the database, the connection and its transaction |
| `Service` | what the handlers promise their clients, without statements, transactions or a connection |
| `RequestsInvariant` | the inductive invariants of `Requests`, and the mapping of its state to `Service` |
| `RequestsProofs`, `ServiceProofs` | its theorems, and that `Requests` implements `Service` |
| `Tokens` | public keys and tokens: pure functions |
| `Accounts` | what every handler reads and writes of the rows, statement by statement; extends `Tokens` |
| `Registry` | what is committed of users and machines, as a table that changes |
| `AccountsInvariant` | the inductive invariants of `Accounts`, and the mapping of its tables to `Registry` |
| `AccountsProofs`, `RegistryProofs`, `ApartProofs` | its theorems, that it implements `Registry`, and what holds when nothing races |
| `MCLive`, `MCRequests`, `MCAccounts` | values of constants and symmetry for the runs |

### Live

A challenger is one run of `NewMachineChallengeHandler` (the new machine, B), a
responder one run of `MachineChallengeResponseHandler` (a machine of the account,
A). `cpc`, `wpc` and `rpc` say where the challenger, its waiting goroutine and the
responder are; each label is the point before the next thing that another
goroutine, a client or the database can affect. A session is named after the
challenger that made it, since it is made once and its channels are reached only
through it:

- `dict` is `ChallengeResponseDict`, `closed` the sessions whose three channels
  the clean-up has closed, `sess[r]` the session a responder found (`chalChan`),
  `cha[c]` and `wchan[c]` what the challenger and its waiter read back (`cha`,
  `challengeAcceptedChan`): with a phrase drawn twice these can be another's.
- A send and its receive on an unbuffered channel are one step of both sides:
  `ChallengeAccepted`, `SendPublicKey`, `ReceiveMasterKey`, and `ChallengeResult`
  for the waiter's own channel. A receive from a closed channel is a step by
  itself (`AcceptedClosed`, `NilPublicKey`, `NilMasterKey`). A send on one is a
  panic (`AcceptPanics`, `KeyPanics`, `MasterPanics`), which ends every handler.
- `WriteChallenge` also stands for setting the timer and starting the waiter,
  `Cleanup` for the deferred function under the mutex. A handler that returns
  goes through `cleanup` once it is registered.
- Errors of a web socket, of the database and of the client's data are the
  alternative outcomes of the step they end.
- `Restart` is the end of the process from outside, at any moment.

`gotKey`, `master` and `delivered` record who was given which key, for the
properties; no guard reads them.

### Requests

Each handler is a record that says where it goes from each place when all is well
and after a failed write: `AddData`, `PostKeyRotation` and so on, read off the
order of the calls in the route. Loops over entries and the two rows of a set-up
are at most two writes, `first` and `second`: two are enough to be interrupted in
between. All look-ups of a handler, those of `ConfigureAuth` included, are one
statement; one that the database answers with an error inside another handler's
open transaction makes that transaction fail (`AfterLookup`).

`busy` is the request whose statement is on the wire, `tx` the state of the
session's transaction, `pending` and `stored` the writes that are not yet and
that are committed. A statement is sent (`Send`) and answered (the handlers'
steps), so that others run, and the connection or the process can break, in
between; then a COMMIT, or a write outside a transaction, has or has not taken
effect.

External, from how the code uses them: pgx refuses a statement while another is
on the wire; it closes the connection when BEGIN or ROLLBACK returns an error and
when COMMIT does and the session is in a transaction; `GetConnection` never opens
another. PostgreSQL takes BEGIN inside a transaction and COMMIT outside of one as
warnings, and refuses everything but ROLLBACK and COMMIT in a failed one.

`Overlapping` says whether a request may arrive while another is handled. Most of
what the handlers are to guarantee holds only when they do not overlap; the runs
and theorems say which. When they do not, the handlers implement `Service`: a
request that writes is stored at once and whole, its client is told of success
only with that, and of failure only without it unless the database was lost
meanwhile. `Service` says as well what uploads do not promise, which is what
`early_success` and `partial_upload` find.

When they do overlap, two things are left of it. `StepsRunOut`: each step of a
handler brings it nearer to its end, and nobody else's takes it further away.
`NoSilentLoss`: what a request was told is stored can be lost, as `lost_success`
shows, but only beside a request that was not told of success or is an upload; if
all succeed and none is an upload, all is stored.

### Tokens and Accounts

`Requests` says which statements get through and which transactions end how, and
knows nothing of what is in the rows. `Accounts` is the complement: the same
handlers with what each statement reads and writes, over a coarser connection.

A handler is again a record of places, one per statement, in the order of the
code: `AddData` looks up its user, its machine, a pending rotation, begins, stores
and commits. The loop of `postKeyRotation` stays at its place for a statement per
machine, in any order, and others run in between (`Upsert`, `Upserted`). `local[r]`
is what the handler carries from one statement to the
next: the user and machine that `ConfigureAuth` put into its context, and the
identifiers it looked up. Between two statements any other handler may run, so
each of these can be out of date when it is used; that is what the properties are
about. `met[r]`, which no guard reads, records the requests that were in flight
at some time together with `r`.

All handlers are in one session. `view` is what the session sees, `saved` what is
committed; a statement outside a transaction writes both, and COMMIT or ROLLBACK,
whoever sends it, is of everything. A statement that the busy connection refuses,
that the database refuses or that fails is `Fails`; a handler that fails in its
transaction rolls back, `DeleteMachine` does not. When the connection ends nothing
of the handlers in flight has an effect any more (`ConnectionEnds`). The pairing of
`Live` is here a challenge, an answer and `Approve`; the list, the look-up by
identifier and the public keys of machines read the same rows and are one kind.

In `Tokens` a key file is the type of its PEM block, its content and its key pair;
a token is its algorithm, who signed it and its expiry in half seconds, so that
the truncation of `int64(claims.Exp)` is visible. What jwx and mldsa do is
external: jwx takes a token without an expiry, or with one that truncates to second
0, for one that never expires (`NeverExpires`); the server's own check of ML-DSA
tokens takes either as expired.

The properties allow what the code does not prevent, and no more:

| property | says |
| --- | --- |
| `Isolation` | a handler has a machine of its user, and reads, removes and rotates for that user's machines alone, although rows change between look-up and use |
| `OnlyOwnersChange` | a machine goes, or gets another key, only on a request of its account by its name, or of itself, or by a rollback |
| `NamesUnique` | two of one name come only from a race of two requests that were in flight together |
| `UploadMeetsRotation` | an upload made with the old master key goes through only if it raced the rotation, or a rollback that brought one back |
| `AuthorityIsCurrent` | a handler acts for a machine that is gone or has another key only after a race; a challenger, only if the machine that approved it had one |
| `AcceptedIsGenuine` | a token let through is signed for that machine's key, by an algorithm that goes with it, and its expiry is yet to come, or it never expires and the key is an EC key |
| `RegisteredCanSign` | no stored key locks its machine out |
| `OnlyOwnersSettle` | a pending rotation goes only with a request of its machine's account, or by a rollback |
| `NoOrphans` | a machine's user is in the table, unless the request that made the machine raced one that has a transaction |
| `ImplementsRegistry` | what is committed changes as `Registry` allows: a machine keeps its user and name, one that was removed never returns, keys can sign |

The second half of each "only if" is real: the races happen in the instance, and
without the constraint of a schema nothing stops them.

## The runs

| run | expects | what it shows |
| --- | --- | --- |
| `live_unique` | pass | 2 challengers and 3 responders of 2 accounts, a phrase each: `HandoverSafe`, `KeyHasTaker`, `SingleApprover`, `Approved`, `DeliveredIsMember`, `OnlyLateAnswersPanic`, `WaitsHaveWakers` (whoever waits on a channel can be woken), the inductive invariant `IInv`, and that every step is one of `Pairing` |
| `live_collision` | pass | the same phrase drawn twice: `TypeOK` (no clean-up closes a session that is not there) and `NoStaleEntry` |
| `live_fair` | pass | under fairness, and with clients that may stay silent: `ChallengeDecided`, and who can be made to wait for ever and by whom, `KeyWaitEnds` and `HangOnlyIfAbandoned` |
| `late_answer` | violation | a late answer, or a second one, panics and ends the process |
| `half_paired` | violation | a machine in the table that never got the master key, whose name is taken |
| `forwarded_unsaved` | violation | the order of saving and forwarding differs from the write-up |
| `requests_alone` | pass | 3 requests, one after another: `AtomicEffect`, `SuccessIsStored`, `OnlyLeaksBreak`, the inductive invariants `AloneInv` and `ServiceInv`, and that every step is one of `Service` |
| `requests_overlap` | pass | 2 requests at once: `TypeOK`, `OnlyRemovalsLeak`, `NoSilentLoss` and its inductive invariant `MixedInv`, `StepsRunOut`, `EveryRequestEnds` |
| `accounts` | pass | 3 requests of 17 kinds and forms, at once: the properties above, `TypeOK` and the inductive invariants `AccountsInv` and `RegistryInv` |
| `early_success` | violation | an upload is answered 200 before its commit fails |
| `lost_success` | violation | a handler's rollback drops what another is told was stored |
| `partial_upload` | violation | an upload answered 500 is partly committed |

Bounds. Two challengers are what it takes for two sessions to be confused or to
share a phrase; three responders, for two that answer one session while the third
answers the other, or for a late one after a second. Two accounts, with a machine
each, tell an approval of the right account from another's. `live_fair` has one
challenger, because the properties are of one session and its responders, and
liveness does not allow the symmetry. In `Requests` an effect on a third request
passes through the connection, so two that overlap reach every state of it; one
after another, three let a removal leave its transaction, a second request find it
and a third find the connection closed. `deleteKeyRotation`, `updateMachineKey`
and `createMachine` have one program, so the run of three takes one of them.
In `accounts` three requests are what a race needs with a third that acts on its
outcome: a rotation, an upload and a rollback, or a removal, an answer and the
challenger it approves. The asks hold every kind of handler, a second account, a key
that does not validate in either way to join, tokens that have expired by half a
second, that never expire or are of an algorithm of no key, a machine that replaces
its key or removes another of its account, which may be the one that approves a third
(so that a token no longer fits the row it is checked against), a rotation of two
machines and one that names another account's machine; two users, three machines (two accounts each with
a machine of the same name) and one item let every look-up find, miss and be out of
date. `Now` is 2, so that tokens of just before and just after it exist.
No variable is unbounded: a connection and a request are handled once.

`Restart`, or `ConnectionEnds`, is always possible, so no state is a deadlock to TLC; that somebody
waits for ever is a question of the liveness properties.

Fairness. `FairSpec` of `Live` assumes that a goroutine that can run does, and that
the timer fires: weak fairness of the handlers' own steps, the waiter's and the
exchanges on a channel. Nothing is assumed of clients, and the code sets them no
deadline, so one that keeps its connection and says nothing keeps its handler
waiting. `KeyWaitEnds` and `HangOnlyIfAbandoned` say that nobody else is: a responder
that was let through waits for ever only if the challenger of its session waits for
ever for its client's key, and a challenger only if the responder that holds its key
waits for its client's answer, or has left. `FairSpec` of `Requests` assumes that handlers run and
that the driver's calls return; the code passes contexts without a deadline.

## What is proved

`tlapm` checks every proof, for any sets of connections, accounts, names, phrases
and requests. The assumptions are `LiveAssumption` (each handler has a phrase;
connections of the two kinds differ), `RequestsAssumption`, `TokensAssumption` (the
time is a number) and `AccountsAssumption` (the rows there are at first have names
of their own and valid keys, machines have users, and identifiers are none that a
request will get).

`LiveProofs`: `TypeOK` and `NoStaleEntry` hold whatever phrases are drawn.
`NoStaleEntry` needs `OwnEntry`: a session is found only under its own phrase, and
is closed by the clean-up that removes it. The rest holds if `PhrasesUnique`, that
is, no two handlers draw the same of 7776^3 phrases, and follows from `IInv`:

1. the dict holds the sessions of exactly the registered handlers (`DictOwned`,
   `DictHolds`), and a session is closed only when its handler is done
   (`ClosedAtEnd`), so a challenger reads its own session back (`ReadsOwn`);
2. the waiter lives exactly as long as its handler has no answer (`WaiterLives`),
   and takes one approval; so responders that were let through belong to decided
   sessions (`EngagedDecided`) and there is one per session (`EngagedAlone`);
3. that one waits until the challenger passes its key (`TakerWaits`,
   `KeyPassed`), and from then on the challenger has no step of its own until the
   master key comes: it waits, with its channels open (`HandoverSafe`);
4. so a master key, and the row made after it, come from a connection of the
   account (`MasterSupplied`, `RowsSupplied`), and the key is delivered after the
   row was made (`RowBeforeKey`).

None of `HandoverSafe`, `SingleApprover` or `Approved` is inductive by itself: each
leans on the step before it in this list.

`WaitsHaveWakers` is the part of the liveness properties that is a fact about
states: no two goroutines wait for each other, and whoever waits has somebody
whose next step, or clean-up, wakes it. It follows from `IInv` but for one fact:
that a challenger waiting for the master key has a partner, the responder its
public key was handed to (`PartnersStay`). That the waker then moves is fairness.

`PairingProofs`: under the mapping `Stage`, `Holder` each step of `Live` is a step
of `Pairing` for one request, the end of many requests at once (a panic or a
restart), or invisible. `ImplementsPairing` is the conclusion.

`RequestsProofs`, however requests overlap: `TypeOK`, and `OnlyRemovalsLeak` from
`LeakInv` (an open transaction has a handler between `StartTx` and the end of
`RollbackFunc`, or a removal left it). When they do not: `SuccessIsStored`,
`AtomicEffect` and `OnlyLeaksBreak` from `AloneInv`: one handler is in flight, the
transaction it is in is open and holds exactly what it wrote (`TxIsOwn`), outside
of one none is open (`TxIsNot`), and one that failed was left (`FailedWasLeft`).

Two more results hold however requests overlap. `RequestsRunOut` counts the steps
a handler has left, two for a statement and one for other work; its own steps
lower the count (`OwnStep`), and the connection it loses or waits for never raises
it (`OthersStep`). What `EveryRequestEnds` adds is that somebody can always step,
which TLC checks. `LossIsNotSilent` is an argument about who pays:

1. a request that failed, is bound to fail, or is an upload (`Spoiler`) remains
   one (`SpoilersStay`), and claims no write it could answer for
   (`SpoilerClaimsNothing`);
2. a step that drops a write leaves a spoiler behind: the handler whose commit or
   rollback it is, or, when the connection or the process is lost, the owner of
   the open transaction (`Drops`, with `TxHasOwner`);
3. what a handler claims grows by its own writes alone, which are in the session
   when they are claimed (`MadeGrows`).

So every claim is kept or has a spoiler beside it (`MadeIsKept`). When all are
answered with success nobody is one, the transaction is closed by `TxHasOwner`,
and all is stored (`AllServedAllStored`).

`ServiceProofs`, when requests do not overlap: under the mapping `Sort`, `Phase`,
`Effect` each step is one of `Service` or invisible. `ServiceInv` adds to
`AloneInv` that nothing of a handler is stored before it commits (`Fresh`) and
that its answer is decided only in its last steps (`AnsweredLate`). `StepPuts` says
what a step stores, nothing or what one handler wrote, and `StepIsSeen` what a
client can see of it; from these two `StepServes` finds the step of `Service`.
`FailureMeansUnstored` is the promise made to clients by an error, which needs the
connection to last (`Connected`): if it is lost while a COMMIT is on the wire the
handler answers 500 for what may be stored. That a lost connection is the only
exception, uploads apart, is the theorem.

`AccountsProofs`, for any requests, rows and tokens, follows from `AccountsInv`:

1. every step of a handler is one of eight kinds of move (`StepMoves`), and what
   the rows are after it is known from what they were (`StepRows`, `StepLoses`,
   `StepRotations`, `StepPosts`, `StepUsers`); every part of the invariant is shown
   from these rather than from the actions;
2. a row's identifier is given once and keeps its user and name (`RowsInv`), so
   what a handler looked up remains its account's even when the row is gone or a
   rollback brought it back (`SeenInv`, `RotationsInv`): `Isolation` and
   `OnlyOwnersChange`;
3. two handlers in flight know of each other (`MetInv`); the session sees all that
   is committed except what a removal has yet to commit (`SessionInv`), so a name
   found free is free or in a race (`UserNamesInv`, `NamesInv`);
4. a rotation appears, and a machine leaves, only by a handler in flight (`StepPosts`,
   `StepLoses`): `UploadMeetsRotation` and `AuthorityIsCurrent`;
5. `VerifiedIsGenuine` and `ValidCanSign` are about every token and key there is,
   fractions of a second, negative, zero and missing expiries included; with `AuthInv`
   and `KeysInv` they give `AcceptedIsGenuine` and `RegisteredCanSign`.

Isolation needs the whole history of a row: that no committed row hidden by an
uncommitted removal comes back under another user is what `RowsInv` ranges over
both `view` and `saved` for.

`RegistryProofs` follows from `AccountsInv` and `RegistryInv`:

1. all that says whose machine an identifier is, rows, rotations and what handlers
   carry, says the same (`OwnersInv`), also when the row is gone: a handler that
   settles a rotation is of the account that owns it, `OnlyOwnersSettle`;
2. in the session and among what is committed an identifier has one row (`OneRow`),
   and the user a handler acts for is there or was rolled back in a race
   (`ActorsInv`): `NoOrphans`;
3. an identifier that was given and has neither a row in the session nor a
   committed one is gone for good (`Gone`): a rollback brings back what is
   committed only, and an update changes a row that is there. With 2 every step is
   a `Change` of `Registry` or invisible: `AccountsAreARegistry`.

`ApartProofs` says what remains of the races: if requests are handled one at a
time (`Separate`), but for a challenger and the machine that answers it, then names
are unique, machines have users, uploads meet no rotation and handlers act for
machines that are there with the key they had (or that they have just removed).

Only model-checked: `ChallengeDecided`, `KeyWaitEnds`, `HangOnlyIfAbandoned` and
`EveryRequestEnds`, since TLAPS proves nothing about fairness and ENABLED, and the
violations, which need an instance. What these liveness properties rest on besides
fairness is proved: `WaitsCanEnd` and `RequestsRunOut`.

## What the checks found

`PROJECT.json` lists them under `findings` with the lines. In short: a late answer
to a challenge stops the server; a machine can be half paired; one connection
shared by all handlers mixes their transactions; an upload's answer precedes its
commit; an upload with an unreadable file is half stored.

## Not modelled, and the plan

Not modelled: the wire formats, logging, dependency injection and generated mocks,
which have no behaviour a property is about. `Accounts` has no answers: that a key
update whose machine is gone, and so changes no row, is answered 200 is not a
question of its properties. Nor is what becomes of an answer that comes before its
phrase is registered (it is refused), or of a rotation posted after the one its
machine fetched and now deletes (it is lost): the models contain both, and nothing
in the repository promises otherwise. The constraints of the tables are not
in the repository; where they matter (two machines of one name, the rotation of a
removed machine) the models assume none, or allow both. `CreateUser`, `DeleteUser`
and the upserts without a transaction are called by no route. The content of data
and the encrypted keys are opaque to the server and are left out; so is which
version of the master key a stored row was made with, which only clients know:
`UploadMeetsRotation` says when the server can take one of an older version.
`getUser`, without authentication, only says whether a name is there.

Could be added, in order:

1. `Accounts` with the clients' side of a rotation: the key version of each machine
   and stored row, and that what is stored can be read by every machine that picks
   its rotation up. It needs assumptions about clients that this repository does
   not settle.
2. `Requests` and `Accounts` over one connection, instead of the one's refusals
   being the other's `Fails`, as a refinement.
3. `Live` with removal of machines, so that `AuthorityIsCurrent` is shown of the
   pairing's own steps.
