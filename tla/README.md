# FHE-Table-Search in TLA+

FHE-Table-Search answers table lookups on encrypted inputs. A *user* encrypts
one or two integers, a *ComputationServer* (CS) looks them up in its tables
without learning them, with the help of a *Decryptor* that holds the secret
key, and the user decrypts the entry. This directory models the program with
TLA+, checks the models with TLC and proves theorems about them with TLAPS.
Paths below are relative to `src/`; `PROJECT.json` maps each definition to the
lines it stands for.

## The system

| component | state | operations | modelled in |
|---|---|---|---|
| CS, queries and results (`fts_cs_callback_function`, `fts_cs_calcmanager`, `fts_cs_calcthread`) | `QueryQueue`, `ResultQueue`, calculation threads with `force_finish` | query, result request, push, pop, compute, stop | `CSServer`, `CSServerLoad` |
| `ConcurrentMapQueue` | a map and a mutex | push, pop (first, or by key), size, count | `ConcurrentMapQueue` |
| lookup protocol (`fts_cs_calcthread`, `fts_dec_callback_function`, `fts_encdata`) | the ciphertexts of a query, the permuted table | encrypt, computeA, calcPIRqueries, computeB, decrypt | `PIRLookup`, `SlotVectors`, `TableLookup` |
| LUT files (`fts_cs_lut`, constructor of `CalcManager`) | the loaded maps and columns | load a directory, convert to columns | `LUT`, `PIRLookup` |
| Decryptor, keys (`fts_dec_keycontainer`, `fts_dec_callback_function`) | map of key ids, five files per id | new keys, key requests, intermediate results, delete | `KeyContainer` |
| user, CS client (`fts_user_cs_client`, `fts_user_result_thread`) | one connection, `cbmap_`, `ResultThread`s | send_query, recv_results, set_callback, wait, disconnect, destructor | `CSClient` |
| user and CS, Decryptor clients | a connection | key requests, exchange of intermediate results | `System`, `Messages`; file by file in `KeyContainer` |
| servers and state objects (`fts_cs_srv`, `fts_dec_srv`, `*_state`) | one state, `Ready`, that ignores events | start, wait | `System`, and as the handlers of `CSServer` and `KeyContainer` |
| serialization (`fts_plaindata`, `fts_basicdata`, `fts_encdata`) | none | save, load, size of a stream | `Messages` |
| configuration (`fts_config`, `fts_user2decparam`) | a map from names to values | load, read a parameter | `Config` |
| demo programs (`demo/user`, `demo/dec`, `demo/cs`) | arguments, keys on the stack of `exec` | start, ask, print, end | `System` |

How they interact. Each server runs one handler thread per connection, which
calls the callback function of a request's control code. A query goes through
`push_query` into `QueryQueue`; one of two `CalcThread`s takes it, fetches keys
from the Decryptor, compares, sends the intermediate results to the Decryptor,
gets PIR queries back, selects the entry, and pushes a result into
`ResultQueue`; the handler of the result request polls that queue. On the
user's side one `ResultThread` per query sends the result request and calls
the callback.

What is hard. Handlers and calculation threads share two queues of which
`size` and `count` read without the lock; admission is check-then-push; ids
come from `srand(time)`/`rand`, so two calls in a second collide; an exception
in a `CalcThread` ends the process; results leave the queue before they are
sent; a result request polls without end. The key container has no lock at
all, and its state is half in memory and half on disk. `CSClient` shares one
connection among threads. The lookup packs a row number into the shift of a
unit vector, with wrap-around. `PROJECT.json` lists these hazards line by line
with the properties that watch them.

## The modules

**ConcurrentMapQueue** - the class template as operators on a value: a map is
a function from `Key` to a value or `NoEntry`. `front` is the smallest key, as
`std::map` orders them; `emplace` keeps an existing entry; `count(m, k,
racing)` is the set of answers that the unlocked `count` may give: both, when
another thread is inside `emplace` or `erase`.

**CSServer** - each handler `h` has a position `hpc[h]`, each calculation
thread a `tpc[t]`. One action is one access to shared state.
`CallbackFunctionQuery` is `ReceiveQuery`, `CheckQueries`, `CheckResults`,
`SeedRandom`, `DrawId`, `FindQueryId`, `PushQuery`; the result request is
`ReceiveResultRequest`, `PopResult`, `SendResult`; `CalcThread::Impl::exec` is
`PopQuery`, `Compute`, `FindResultId`, `PushResult`, and `Stop` is
`CalcThread::stop`. `conn[h]` is the user at the other end: `DropConnection`
takes it away while the handler goes on. `proc` records the exception that
ends the process: nothing in `exec` catches, and `ResultThread::exec`, which
catches everything itself, shows that the thread library is not relied on
for it. `Compute` abstracts the lookup to its outcome: a status, `bad_inputs`
(a two-input query with one ciphertext), or `dec_failed`. `rand` is a table
from generator states to values. `collided` is a history variable: an id was
drawn while in use. `AcceptedNotLost` is about steps: an id is given to a user
only with its query in the *running* server, and what takes the query out of it
is the reply or the end of the process (`Ending`), in which every query is lost.

**CSServerLoad** - `CSServer` without a last query: a user process that has
ended is replaced by a new one (`NewProcess`), so that queries arrive for ever
and the limits are met again and again. This is where a query can starve: `pop`
takes the smallest id. `AcceptedIsAnswered` says that nothing else keeps a
query from its answer; `PushedIsPopped`, that it is popped in any case, is what
the documentation says and fails.

**QueryService, CSServerRefinement** - `QueryService` is what the server
promises: a query is refused or accepted, computed once, and its result leaves
once, to its user. It has no ids, queues, handlers or threads.
`CSServerRefinement` maps the place of a query in `CSServer` to its `stage` and
states `ImplementsQueryService`, up to the first colliding id. `OneCopy`, that a
query is in one hand only, needs no such exemption.

**CSServerExpiry** - `CSServer` with the set of results that have expired, and
`cleanup_results` as an operator, since no code calls it: `ExpiredMakeRoom`
says what the documentation says of it.

**Messages** - a stream is a sequence of typed items. Every sender computes the
size of its buffer from the sizes of the parts and a buffer keeps no more than
that (`Buffer`), so a part that is missing in the sum is missing in the
message. One pair of operators for each message. What an item's bytes are is
left out; the reader knows the type it wants, as in the code.

**Config** - the configuration file as lines of tokens: comments, two tokens a
line, the first of several lines with one name, defaults, errors that keep the
Decryptor from starting.

**System** - the three programs of `demo/` together. A user goes from its
arguments through `init_keys`, `compute_one`/`compute_two` and the destructor
of its client (`upc`), with its `ResultThread` (`rpc`). The server's queues and
handlers are the steps of `QueryService`, which `CSServer` implements, and the
lookup is `PIRLookup`'s, reduced to which entry of a column is hit; what those
modules show in detail is used here as a step. The Decryptor can stop and start
with another configuration file; key ids are lost with it. A client connects in
the step of its first exchange: a Decryptor that ends during later exchanges has
lost the key ids, and they fail like those without a connection. Ids do not
repeat here: `CSServer` and `KeyContainer` have that.
`EachUserIsAnswered` maps each user to `TableLookup`. The columns are filled up
with the padding as in the code (`Padded`, `Entries`, `Output`), and an input
that equals it may hit any entry that does: such a user may be shown padding
(`PadReply`), and no other user may. The debug block of `compute_one`, which is
compiled in, is part of the program: it decrypts the query and reads the first
value that is not zero, so `user 0` dies there (`Crash`), and that of
`init_keys` asks for the relinearization keys.

**SlotVectors** - a ciphertext as what it decrypts to: one row of SEAL's
batching matrix. The second row is zero in everything the program encodes, and
`rotate_rows` keeps rows apart. `shift_work` is the Decryptor's cyclic shift.
A negative value is in its slot as the modulus less its absolute value, and
`decode` gives it back: `Value` is the range in which that works.

**LUT, TableLookup, PIRLookup** - `LUT` loads files into maps. `TableLookup`
is the abstract specification: load a table, ask, reply with the entry or with
a failure. `PIRLookup` is the whole protocol on slot vectors, from loading the
directory to decryption; `IsTableLookup` says that it implements `TableLookup`
under the mapping `table <- Table, inputs <- query, answer <- output`. Two
things the mapping makes visible: a combination of known inputs that the
two-input table lacks is answered with 1000 (`NoValue`), not with a failure,
and a value 0 is shown as no value, because `EncData::decrypt` drops zeros.
Text parsing is abstracted: a row is a key and a value, and a header that the
program rejects is `func = 0`.

**KeyContainer** - an access to the map, or opening, saving, loading or
removing one file, is an action. What a file holds is the number of the key
set saved in it, `Torn` between opening and saving. A lookup may miss an entry
while another handler inserts or erases (`Racing`): `map_` is an
`unordered_map` without a lock; it is otherwise taken to behave as a map. With
two writers to one file the last save wins: such ids are exempt from the
properties anyway (`Unique`). `Restart` empties the map and leaves the files.
Clients ask for ids that a user was given. The demo Decryptor does not
register the delete request and the user library's `delete_keys` sends
nothing; the handler exists and is modelled.

**CSClient** - query `n` and its `ResultThread` are both called `n`, the
application is thread 0. `Request`/`Receive*`/`Fail` is the exchange of
`send_recv_data_blocking`, `ServeQuery`/`ServeResult` the server's handler,
which serves one request of the connection at a time. `CSClient` takes no lock,
and whether stdsc (external) lets one exchange end before the next begins, the
repository does not show. So the model has both libraries: `serial` is either,
once and for all. If it is false two exchanges can be in progress at a time;
`overlapped` records that, and from then on every exchange on the connection may
return anything or throw. `OwnCallback` is claimed only while no exchanges have
overlapped, `OverlapNeedsTwoQueries` says when that is certain: with a library
that serializes, or a client that sends one query, like that of the demo. The
other properties hold in any case, but `AcceptedIsCalled`, which needs a
library that serializes. One assumption on the library is left: an exchange on a
closed connection throws.

**The `*Proofs` modules** hold the theorems, each about the module it is named
after: `ConcurrentMapQueueProofs` has the lemmas on the operators of the map that
`CSServerProofs` uses, `CSServerRefinementProofs` builds on the invariants of
`CSServerProofs`, and `SystemProofs` on the round trips of `MessagesProofs`;
`PIRLookupProofs` has the lemmas on slot vectors and LUT files too. The
`MC*` modules give constants that a cfg cannot.

## What is checked

| run | properties | bounds | shows |
|---|---|---|---|
| `faults` | `TypeOK`, `InOnePlace`, `AcceptedNotLost`, `DuplicateOnlyByCollision` | 3 users, 2 handlers, 2 threads, limits 1, 4 ids, 2 seconds | with bad queries, no Decryptor, stopped threads and requests for -1, an accepted query is in one place, and leaves the running server by its reply only |
| `abandon` | `OwnResult`, `InOnePlace`, `OneCopy`, `QueueBound`, `BacklogBound`, `ImplementsQueryService`, `AcceptedNotLost` | 2 users with 2 queries each, 2 handlers, 1 thread | dropped connections never lead to another query's result and lose no other query; how far the limits are overshot; the refinement |
| `load` | `AcceptedIsAnswered` | 2 users at a time and endlessly many after each other, 2 handlers, 2 threads, limits 2 and 1, 4 ids, 3 seconds | an accepted query is answered unless smaller ids overtake it for ever |
| `client` | `TypeOK`, `OwnCallback`, `OverlapNeedsTwoQueries`, `WaitMeansCalled`, `NoneAfterDestroy`, `AcceptedIsCalled` | 2 queries, 2 ids, both kinds of library | one client with several queries |
| `pir` | `IsTableLookup`, `OneEntrySelected` | 4 slots, modulus 23, 2 rows per column, 16 rows of outputs, several directories and orders, a negative key and entry | the protocol is a table lookup |
| `keys` | `TypeOK`, `GivenIsComplete`, `LoadsOneKeySet`, `AllFilesOrNone` | 3 handlers, 2 ids, 2 key sets, 1 restart | a key id stands for one complete key set |
| `session` | `TypeOK`, `ServerSurvives`, `EachUserIsAnswered`, `CallbackInScope`, `EveryUserEnds` | 2 users with a query each, 1 thread, 2 starts of the Decryptor, 7 configuration files, columns of 8 and 4 entries, 7 pairs of command lines | from the arguments to the printed line |
| `overtaken` | `PushedIsPopped` (violated) | as `load` | finding: a query can stay in the queue for ever |
| `expiry` | `ExpiredMakeRoom` (violated) | 2 users, 1 result | finding: expired results are not removed |
| `answer` | `ResultRequestAnswered` (violated) | 2 users | finding: requests without a result are never answered |
| `ids` | `QueryIdIdentifies` (violated) | 2 users | finding: one id for two queries |
| `pad` | `AnswersTheFunction` (violated) | inputs 1 and the padding value | finding: a key equal to the padding |

Each property of a passing run has a mutant in `PROJECT.json`, a plausible
mistake in the code that breaks it.

Why the bounds are enough. Every hazard in `CSServer` needs at most two threads
at the same queue and a third party that finds the result: two handlers, two
calculation threads and a limit of one make each check race with each push,
and four ids over two seconds make both collisions and id orders of every kind
happen. Starvation takes a query that waits and another that is computed, twice
in a row: two places in the queue, three seconds for three different ids, and a
user that comes back. In `PIRLookup` four slots and two rows are the smallest sizes at which
row number, slot number and wrap-around of the shift are all different; the
two-input output table then has as many rows (16) as two shifts can name. Two
key sets, two ids and three handlers let a creation, a read and a deletion
meet on one id. In `System` the degrees 4 to 16 stand for those that SEAL has:
rows of 4 and 8 slots give two rows, one row, and no row for two inputs; two
starts are what it takes for a key set to be older than the Decryptor; the
arguments are an entry of either table, an entry of zero, a missing entry, a
number with a sign, none, the input 0, and the padding's value as an only input
and beside another; each beside an argument of another kind. Two users are enough to hand one the other's keys or result, and
one calculation thread serves one while the other waits. In
`CSClient` two queries over two ids are enough for two ids on one connection, for
one id twice, and for two ResultThreads and the application to compete; the safety
theorems hold for any number.
Other bounds: `MaxSubmits`, `MaxStarts`, `MaxKeys`, `MaxRestarts`, `MaxQueries`, `Seconds`,
`OrdersOne`, `OrdersTwo`, `Multipliers`.

`CHECK_DEADLOCK FALSE` is set where the system really stops: users have sent
all their queries and the server idles, the process has ended with an
exception, the client is destroyed, all requests for keys are done.
`PIRLookup` says `Done` and is checked for deadlock.

Fairness. `FairSpec` of `CSServer` has weak fairness of each handler, each
calculation thread, and each user's result request. The operating system
schedules the threads, the mutex is held for one statement, the polling loops
sleep and retry, and `set_callback` starts a `ResultThread` at once. Nothing
makes users submit. `LoadSpec` has the same fairness, and none for new processes:
that they keep coming is a behaviour the specification allows, not one it
demands. In `CSClient` the application's pending call, each
`ResultThread` and the server are weakly fair; that the server answers, unless
smaller ids overtake the query for ever, is what `AcceptedIsAnswered` shows of
`CSServerLoad`. In `System` each user's process, its
`ResultThread` and the handler of its query are weakly fair, and nothing is
assumed of the Decryptor, the calculation threads or the results, so
`EveryUserEnds` includes the users that never get a result; that a failed
connection gives up is the time limit of `connect` (`FTS_TIMEOUT_SEC`). No fairness is assumed of faults,
dropped connections or calls.

`PIRAssumption` names what the protocol needs of its sizes: the row size
divides the input numbers, a column has at most as many rows as slots, the
outputs of two inputs at most the square, and no difference of two values
times a random multiplier from 1 to 5 is zero modulo the plaintext modulus. It
holds for the repository's parameters (row size 4096, 819200 and 4096 inputs, a
prime modulus). A directory has finitely many files, of both kinds: without one,
the code reads an uninitialized `possible_input_num`. Its one-input keys fit the
column, which the code cuts to its length without a word; that those of two
inputs fit, it checks. `ValueAssumption` says that keys, entries, the padding and
the users' inputs are values a slot can hold, more than half the modulus neither
way; SEAL's encoder checks that in debug builds only.

## What is proved

Every invariant that a passing run checks is a theorem for all values of the
constants, and so is every refinement: `ImplementsQueryService`,
`EachUserIsAnswered` and `IsTableLookup`. Only the liveness properties are left to
TLC. Each invariant theorem has the same shape: an inductive invariant, one lemma
for each action or group of actions that disturb the same parts of it, and a
temporal step.

### The ComputationServer

From `ServerAssumption`, `RandAssumption`, `NoEntryAssumption` and
`KeyAssumption` of `ConcurrentMapQueue`: any users, any finite number of
handlers and threads, every limit, every finite set of ids and every behaviour
of `rand`.

- `TypeCorrect` (`TypeOK`): inductive, since it says of each position of a
  thread what the code after it reads.
- `AdmissionIsBounded` (`QueueBound`, `BacklogBound`): neither bound is inductive
  without the places of the queries that have passed a check and are not yet
  pushed. The bounds count them (`PastQueryCheck`, `Admitted`, `Busy`): a check
  succeeds only if the queue is below its limit, and every other handler holds
  at most one place. Lemmas say how `emplace` and `erase` change `size`; the
  rest is cardinality of the set of handlers that a step moves.
- `IdsStayInOrder` (`IdsInv`): what the three theorems below rest on.
  `Connections` always holds: a handler's user is nobody else's, holds the id
  whose result the handler fetches, and its last query is the one the handler
  took in. Until an id is repeated, `Orderly` holds: an id is in one place
  (`Separate`), a drawn id is known to nobody before its push (`Fresh`, without
  which the push could meet an entry), an id has one holder (`OneHolder`),
  and whoever holds the id of a query sent that query last (`Owned`).
- `NoQueryIsDuplicated` (`InOnePlace`, `DuplicateOnlyByCollision`) and
  `ResultsReachTheirUsers` (`OwnResult`) follow from it.
- `AcceptedQueriesAreNotLost` (`AcceptedNotLost`): an action property, step by
  step. A pop of the queue fills a thread and a push of a result empties it, so
  that the query stays in a place; `Fresh` gives the push of a query an empty
  place, `Connections` makes the user that the reply goes to the one that asked
  for it.
- `NoQueryIsCopied` (`OneCopy`): what the id-based invariants say until the first
  repeated id, said of the query itself, for ever. Each action is shown to do one
  of four things (`Rest`, `Pass`, `Leave`, `Enter`): nothing, pass one query from
  a hand to the next, let one go, take in one with a new number. A push onto an
  existing id is a `Leave`: the query is lost, and nothing is doubled.
- `ServerImplementsService` (`ImplementsQueryService`): with `OneCopy`, the stage
  of a query is the stage of its one hand, whatever the order of the cases in
  `StageOf`; `Pass`, `Leave` and `Enter` become `Move`s of the service. `Orderly`
  is needed at three places: a push finds its id absent, the result that is
  delivered is that of the receiver's last query, and the receiver knew that it
  had been accepted.

### The Decryptor's keys

From `KeyAssumption` of `KeyContainer`; any number of handlers, ids, key sets and
restarts.

- `KeyTypeCorrect` (`TypeOK`): needs `ShapeInv`, that the files a handler still
  has to save, load or remove are a tail of the code's order, and that a key set
  has one maker.
- `KeyIsInvariant`, `KeysStayWhole` (`GivenIsComplete`, `LoadsOneKeySet`,
  `AllFilesOrNone`): nobody knows of an id before it is drawn (`DrawnInv`), and
  `OneKeySet(id, n)` follows, for an id that only key set `n` was given, the files
  from their maker through the readers to the remover: they go from absent to
  complete in the code's order while no user has the id; once users have it they
  are all of `n`, and all there until it is deleted or the Decryptor restarts; a
  file that a deletion has passed is gone, and what is left is what some deletion
  still has to remove. A handler that works on another id disturbs none of it.

### The client

From `ClientAssumption`; any number of queries and ids.

- `ClientIsInvariant`, `ClientTypeCorrect` (`TypeOK`), `CallbacksAreRight`
  (`OwnCallback`, `OverlapNeedsTwoQueries`, `WaitMeansCalled`, `NoneAfterDestroy`):
  for a library that serializes exchanges and for one that does not. `OwnCallback`
  alone is not inductive. Until exchanges overlap, that the answer on its way is
  that of the thread that waits is `WireInv` (one exchange at a time, whose request
  or answer it is), and that the server has the right one is `ServerInv`; once they
  overlap, neither claims anything. `ThreadInv` and `AppInv` say at which point of
  which call an id is known, stored in `cbmap_` and joined, overlapping or not: two
  threads that exchange have two queries, because a ResultThread starts after its
  id was received and nothing else asks for its result (`OverlapInv`).

### The three programs

From `SystemAssumption`, `NoneAssumption`, `ConfigAssumption` and the assumption
of `Messages`; any users, threads, command lines, degrees, configuration files,
padding and table. The table is assumed to have every combination of the inputs
that occur in its two-input part (`convertLUT_to_vecfmt_two` fills those that the
file lacks with 1000), and `ColumnsFit` excludes a table that
`convertLUT_to_vecfmt_two` rejects or `convertLUT_to_vecfmt_one` cuts off; the
proofs do not use it.

- `SystemIsInvariant` (`SystemInv`), and from it `SystemTypeCorrect` (`TypeOK`),
  `ServerEndsForTwoReasons` (`ServerSurvives`) and `CallbacksReadLiveKeys`
  (`CallbackInScope`). `SystemInv` follows a user's key set to its query
  (`Keyed`, `Sent`: what the server decodes is the user's inputs, by
  `QueryRoundTrip`), the `ResultThread` against the program that joins it
  (`Session`), the result from the thread to the callback (`Computed`), and says
  that a thread computes with the parameters of the keys of its query
  (`ThreadInv`): the server ends only where the code's parameters or a vanished
  Decryptor make it.
- `SystemImplementsTableLookup` (`EachUserIsAnswered`): every step of the system
  is, for each user, a step of `TableLookup` or none of it, with one exemption: a
  user that asked for the padding's value may be shown padding, or 1000. No
  command line is excluded; `user 0` ends before its query and is shown nothing.

### The lookup protocol

From `SlotAssumption`, `PIRAssumption`, `ValueAssumption` and `NoneAssumption`:
every table and directory, every order of the columns, every choice of
multipliers and every size.

- `OneInputSelectsItsRow`, `TwoInputSelectsItsRow`, for every row size and modulus
  greater than one: the unit vectors that the Decryptor sends, rotated and
  multiplied as `computeB` does, cancel every row but the one they name, and keep
  that row's slot. They follow from lemmas on `shift_work`, `rotate_rows` and
  products of unit vectors: rotating by `d` a unit vector shifted by `e` gives the
  original exactly if `d = e` modulo the row size.
- `ZeroMarksTheInput`: what `computeA` sends is zero in a slot exactly if the
  column holds the input there, provided no product of a multiplier and a
  non-zero difference is a multiple of the modulus. That is what `PIRAssumption`
  says of multipliers 1 to 5; a prime modulus above 5 has it.
- `PIRInvariant` (`PIRInv`): says for each step of the lookup what the steps
  before it have left. `Loaded`: the maps hold entries of the directory's files,
  with keys of the right length, and fit their columns. At the Decryptor, the
  zeros are exactly where the permuted columns hold the inputs (`ComparedOne`,
  `ComparedTwo`); its queries name such a place (`FoundOne`, `FoundTwo`); the sum
  is one slot with the output of such a place (`Selected`). The outputs were
  permuted before the Decryptor chose and are selected from after it, so the
  same order has to be known at both ends; without these parts neither
  `OneEntrySelected` nor the refinement is inductive.
- `OneEntryIsSelected` (`OneEntrySelected`): needs no assumption on the padding.
  When the user asks for the padding value the Decryptor finds padding, and the
  slot it names is still the only one that is not zero.
- `ProtocolIsTableLookup` (`IsTableLookup`), provided `Pad \notin Inputs`: the
  hypothesis is the finding of the run `pad`, and no other input needs one. A
  place of the columns that holds the inputs holds their entry (`HeldIsTheEntry`),
  for two inputs also where `convertLUT_to_vecfmt_two` has filled in 1000; a
  column without a zero holds no key of that value, since an order reaches every
  place and the sequences that fill the columns reach every key
  (`NoZeroNoEntry`); and of one slot `decrypt` keeps what the abstract lookup
  shows, a negative entry as it was and nothing for a zero (`DecryptShows`).

The rows of a file are folded into a map, the slots into the values shown and
the rows of the table into their sum. The theorems on induction in the library
take an operator as a parameter, so the three lemmas on these folds
(`FirstRowWins`, `KeepOfOne`, `SumOfOne`) go another way: the fold is a function
on the subsets of the positions, what it computes is written out as a second
function with the same recursion, and if the two differed on some subset, they
would differ on one but on none of its strict subsets (`LeastSubset`, from the
library's theorem that strict inclusion of finite sets is well-founded), which
one step of the recursion contradicts.

### Messages

- `QueryRoundTrip`, `NewKeysRoundTrip`, `KeyRequestRoundTrip`, `KeyReplyRoundTrip`,
  `QueryReplyRoundTrip`, `ResultRequestRoundTrip`, `ResultRoundTrip`,
  `MidResultRoundTrip`, `PIRRoundTrip`, for every content, any number of inputs
  and rows: the receiver of a message reads what its sender put in, with nothing
  cut off. Each follows from one lemma on the buffer (what the computed sizes add
  up to is what is written) and one for each kind of part, that reads it off the
  head of a longer stream. Where the code throws on an empty vector there is a
  theorem too, `EmptyMidResultIsMisread`: it is what a Decryptor with more slots
  than entries runs into (`ServerSurvives`).

### Only model-checked

- Liveness: `AcceptedIsAnswered`, `AcceptedIsCalled`, `EveryUserEnds`. TLAPS
  handles neither fairness nor `ENABLED`.
- The five runs that end in a counterexample.

## What the runs found

Five statements of the documentation that the code does not keep, each with a
run that ends in a counterexample; `PROJECT.json` quotes the lines. In short: a
result request without a result is not answered; query ids repeat within a
second; 100 is both a key and the padding of the columns; expired results are not
removed; a query can wait in the queue for ever behind smaller ids.

Met on the way and visible in the models, without a run of their own: a query is
accepted before anything compares its inputs with its function, although
`doc/spec-ja/source/03_system_detail.md:351` says that it is verified first, and
ends the process when it is computed (`CSServer`, `bad_inputs`); a stopped
calculation thread that waits for a query ends only after one more (`Stop`); key ids
repeat like query ids, and the second key set overwrites the first one's files
(`KeyContainer`, which exempts such ids); a second file of one kind is loaded on
top of the first and stops the server unless the sizes happen to fit
(`PIRLookup`, `LoadThrows`); the parameters that `README.md:77` names are ignored
(`Config`); `max_results` is compared with the results stored and not with those
on their way (`BacklogBound` says how far they can exceed it); `user 0` dies in a
debug block that is compiled in (`System`, `Crash`); nothing in the client keeps
the exchanges of two queries apart (`CSClient`, `OverlapNeedsTwoQueries`).

## Not modelled

- SEAL's cryptography and noise, and stdsc's sockets and threads: external,
  used through their effects.
- What exchanges that overlap on one connection read, if stdsc lets them overlap:
  `CSClient` says anything.
- The race of the calculation threads on their generator, and what an unlocked
  `size` or `count` may do to the process while the tree is rebalanced: undefined
  behaviour, of which `CSServer` has the wrong answer of `count` only.
- In `System`, a value that is zero modulo the plaintext modulus, whose query
  decrypts to nothing like that of 0.
- The bytes of a record, writing to files for debugging, logging.
- Options of the demo programs: ports and the directory of the LUT files. The
  server's -q, -r and -l have code but no letter in its getopt string.
- `stop` of the servers, which nothing calls, and a second start of the CS,
  which keeps nothing from the first.
- In `PIRLookup`, parameters outside `PIRAssumption`; a degree so large that no
  row is searched is in `System`.
- In `System`, what its parts show in detail: colliding ids, limits, several
  queries of a user, key files.

## Plan

Done: the modules above. Next, in this order:

1. `System`'s lookup, which is `PIRLookup`'s reduced to the entry that is hit,
   as a step that `ProtocolIsTableLookup` justifies for its table; `Config`'s
   operators.
2. `ConcurrentMapQueue` as a module with its own threads (lock, unlock), shown
   to implement an abstract queue with atomic push and pop.
3. Results that nobody fetches, under the queries without end of `CSServerLoad`:
   when they have filled the result queue every later query is refused, as a
   liveness property next to `ExpiredMakeRoom`.
