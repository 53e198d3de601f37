# magnetico in TLA+

A specification of the parts of magnetico whose correctness depends on order:
goroutines that share a table and a channel, a UDP service that must live with
lost and repeated packets, a peer protocol with a deadline, a map that is
reloaded while it is read, a database that two processes upgrade and fill, and
lists that grow while they are paged through. The modules are translated from
the code; the tables in `PROJECT.json` give the source lines of every
definition.

## 1. Inventory

| Part | State | Operations | Where it is hard |
|---|---|---|---|
| Sink (`metadata/sink.go`) | table hash → untried peers, mutex, `drain` channel (10), `terminated` | `Sink`, `Drain`, `Terminate`, `flush`, `onLeechError`, status ticker | one goroutine both sinks and drains; a send may block while others need the mutex; entries must outlive the send |
| Leech (`metadata/leech.go`) | connection, deadline, buffer, byte count | `Do`: connect, two handshakes, requests, receive loop, verification | many error returns, one callback; bytes are counted, not pieces; silent peers |
| Indexing service (`mainline/indexingService.go`) | routing table, 16-bit counter, pending requests | `index`, three response handlers | two goroutines on the table; transaction IDs wrap; answers late or twice |
| Protocol, transport (`protocol.go`, `transport.go`) | socket, token secrets | `onMessage`, `readMessages`, `WriteMessages`, `updateTokenSecret` | responses are told apart by their fields; nil `onCongestion` |
| Codec (`codec.go`) | none | compact peers and nodes, errors | lengths and round trips |
| Manager (`dht/managers.go`) | output channel (20) | `onIndexingResult` | drops when full |
| magneticod (`main.go`) | event loop | three `select` cases | the loop must never be held; the same torrent may be fetched twice |
| Persistence (`pkg/persistence`) | SQL tables, pool of 3 connections, schema version | `DoesTorrentExist`, `AddNewTorrent`, `QueryTorrents`, `GetStatistics`, `setupDatabase` | transactions, a second connection inside a transaction, upgrades by two processes that may be stopped, paging while rows are added, calendar arithmetic |
| magneticow (`cmd/magneticow`) | credentials map and lock | `BasicAuth`, `loadCred`, SIGHUP goroutine; API handlers | reload under load, failure halfway |

The parts meet in three places: the services feed the manager's channel; the
event loop moves results from there to the sink and metadata from the sink to
the database; the sink starts leeches, each of which calls back exactly once.

## 2. Modules

| Module | Models |
|---|---|
| `MetadataSink` | the sink; a leech is seen from outside |
| `MetadataSinkProofs` | theorems about it |
| `Leech` | one run of `Leech.Do` |
| `LeechProofs` | theorems about it |
| `Codec` | the compact forms of nodes and peers of `codec.go`, as operators on byte strings |
| `IndexingService` | one indexing service with `Protocol.onMessage`, the read loop of the transport, and `Codec` for what it reads |
| `IndexingServiceProofs` | theorems about it, and the round trips of `Codec` |
| `Magneticod` | event loop, output channel and torrents table, around the sink (it EXTENDS `MetadataSink`) |
| `Crawler` | abstract specification: what magneticod promises without goroutines, channels and locks |
| `MagneticodProofs` | theorems about the daemon, and that it implements `Crawler`; it builds on those about the sink |
| `Credentials` | the credentials of magneticow |
| `CredentialsProofs` | theorems about them |
| `Paging` | a client of `apiTorrents` and `QueryTorrents` that pages as `torrents.js` does |
| `PagingProofs` | theorems about it |
| `Storage` | the two SQL engines: pools, transactions, `setupDatabase`, `AddNewTorrent` and the reading calls, in two processes |
| `StorageProofs` | theorems about it, and about `Persistence` |
| `Statistics` | `ParseISO8601`, `GetStatistics`, `apiStatistics` and the request of `statistics.js`, as operators |
| `StatisticsProofs` | the calendar, and what the answers to requests contain |
| `Persistence` | the statistics over the torrents that the processes of `Storage` have committed |
| `MC…` | small instances for TLC, with one `.cfg` per run |

Definitions whose name begins with `Bug` are variants of the definition that
follows them, each with one plausible mistake; nothing refers to them. They
serve to see that a property would notice that mistake.

**MetadataSink.** `incoming`, `mx`, `drain`, `terminated` are the fields of
`Sink`; `leech` holds the goroutines, `call` the `Result` being sunk. Taking the
mutex (`Lock`) is a step of its own and the critical section after it another.
`flush` has three steps, as the code may be interrupted before the send and
between the send and the lock. `terminated` is read without the lock, so either
value may be seen around a `Terminate`. `offered` and `owed` are history: the
peers an entry was admitted with, and metadata handed over and not yet received.
A `Metadata` is its info hash. A leech that panics ends the process, that is,
the behaviour.

**Leech.** `phase` names the function `Do` is in. Lengths are counted in units,
`PieceLen` of them being 16 KiB; a unit of the buffer is zero, good (what the
torrent has there) or bad, and the checksum holds when the size is right and all
units are good. Every read or write may fail, and must once the deadline has
expired. A failing `Close` and a piece number outside the buffer panic.

**IndexingService.** A handler runs as one step: it holds the routing table's
lock for its whole loop, and the counter and the pending requests belong to the
reading goroutine alone. `index` takes the lock three times per round, so it has
a step for each and one for each send. The two node loops store the address of
their loop variable; under the language version of `go.mod` (1.15) that variable
is one for the whole loop, and `Learn` gives every added node the address of the
last node looked at. A transaction ID is two digits in base `Base` (256). The
samples are a string of bytes, cut as the code cuts it. `nodes` and `values` are
byte strings too, which `Decoded` takes apart with the operators of `Codec`; a
packet with one that does not fit is dropped, as `readMessages` does. A
`get_peers` answer may arrive at any time, any number of times, with any
transaction ID: of a query ever sent or of none, also one that is not two bytes
long, which `Copied` cuts or fills with zeros as the code does. When the ID is
not pending the handler finds no hash, and reports the hash of zeros (`Lookup`).
`MaxStray` bounds how many of these are counted.

**Codec.** A byte is a digit in base `Base`, and the lengths of IDs and of the two
families of addresses are constants (20, 4 and 16 in the code). `To4` is that of
Go's `net.IP`: it also shortens an IPv6 address that begins with the prefix of
mapped IPv4 addresses, so that such a peer is encoded in the short form.

**Magneticod.** The loop's cases are split where the database is asked and where
the mutex is taken. A database operation may fail; in `DoesTorrentExist` a
failure while reading rows yields "no" without an error. A restart is a new
behaviour, so `Init` allows any set of stored torrents. The sink's actions are
used as they are; its specification has names of its own (`SinkInit`, `SinkNext`,
`SinkSpec`), so that one module can extend the other and share its lemmas. The
database is SQLite: on PostgreSQL `AddNewTorrent` also leaves out, without an
error, torrents with a name or a path that is not UTF-8 (`postgres.go:80`, `131`),
which `Storage` models, so that `NothingFetchedIsLost` and `Crawler` would have to
except those as well.

**Credentials.** `locked` is TRUE only when a writer leaves a step with the lock
held. The file may be replaced at any time, be unreadable, or fail to be read
after any number of lines; a last line without a newline is dropped.

**Paging.** The client's `view` is what it asks for and the state of its button,
which is disabled while a request is under way, so that there is one at a time.
The epoch comes from the browser's clock and may be anything. A query is one
step, as SQLite reads from one snapshot. `ORDER BY` puts at place k the row that
k − 1 rows come before (`InOrder`). Adding a torrent may change the rank of
all of them. A query may answer with an error or a panic (`orderOn` does not know
three criteria that `parseOrderBy` accepts), which leaves the cursor alone, or
return the first rows only, as `rows.Err()` is not looked at.

**Storage.** Two processes, magneticod and magneticow, share the committed
database `db`; `pc` is where a process is in `setupDatabase` or `AddNewTorrent`,
statement by statement, `open` counts the connections of its pool and `tx` is its
open transaction, a private copy made from a snapshot. SQLite and PostgreSQL
themselves are external: one write lock, taken with the first statement that
writes, and, in SQLite, refused when the database has changed since the snapshot.
A row of `torrents` is its number of rows in `files`, how often it is in the
search index, whether `modified_on` is set, and when it was discovered. The
schema is the set of the objects that tell the versions apart. What the triggers
of version 3 do to a new row together (`Inserted`) is taken from their text and
assumed of SQLite and FTS5; `TorrentsWhole` is about which rows the upgrade
indexes and which the triggers do. `Stop` ends a
process anywhere, which is a crash as well as an error of a call, both of which
are fatal; `Start` starts it again. `Init` allows any database of an earlier
release.

**Statistics.** An instant is a day number and a second; a date in a request is
the numbers that the regular expression of its format picks out. Go's `time` is
external, written as day-number arithmetic. The reference in `CountsFollowing` is
independent of that arithmetic: it goes from one period to the next by the
lengths of the months (`Following`, `After`). `parseHour` accepts hour 24, which
`time.Date` makes hour 0 of the next day; the reference takes it for that
(`Named`). `n` is a positive number of 32 bits. So many hours may overflow a
`time.Duration` (from 2562048 on), and `AddHours` is exact about it: the end of
the window falls short by 2^64 ns for each turn of `n` (`Turns`). `CountsFollowing`
then only says that no other period is mentioned; that all of them are counted it
says when there is no overflow. The loop over the groups does not ask
`rows.Err()`: `lost` is any set of periods that were not read, and the property
holds whichever they are. PostgreSQL answers every request for statistics with an
error, so both properties are stated for SQLite.

## 3. Runs

| Run (cfg) | Shows | Bounds |
|---|---|---|
| `sink` (MCMetadataSink) | table, leeches, channel and history agree; entries end only when done, and all end | 3 hashes, a cap of 2, lists of no peer and of 2, channel of 1: the cap refuses the third hash, peers are exhausted, the channel fills and senders block. There are as many names of leeches as the cap allows; that the cap bounds them is the theorem `LeechesCappedTheorem` |
| `daemon_safety` (MCMagneticod) | over SQLite, double fetches are harmless, nothing fetched is lost, the daemon implements `Crawler` | 2 hashes, one of them without contents, channels of 1 |
| `daemon_liveness` (MCMagneticodLive) | what is fetched is stored; the loop returns | 1 hash |
| `leech` (MCLeech) | one callback, genuine success, closed connection, termination; a correct peer is asked for everything and not turned down | metadata of one piece and a half; announced sizes 0 to 6; piece numbers −1 to 2; seven info dictionaries |
| `indexing` (MCIndexingService) | table bound, rounds, pending queries, results; a full table is emptied | 2 neighbours, lists of nodes and strings that do not decode, 4 transaction IDs and 5 queries, so that the counter goes round; answers with IDs of one, two and three bytes, one of them to no query (`MaxStray`) |
| `credentials` (MCCredentials) | reloads and requests | 4 files, one request at a time, with and without `--no-auth` |
| `paging` (Paging) | over all pages no torrent is repeated, out of order or skipped; the list ends when all are shown | 3 torrents with 2 sizes, ranks and times, so that equal values meet the end of a page; pages of 1 and 2 |
| `storage` (MCStorage) | schema, torrents and pool in every interleaving of two processes that stop anywhere; statistics of what they commit | 3 torrents, one empty, one with a bad name and one with a bad path; 2 files each; 6 instants at the ends of years, of a leap February and of the February of 2100; requests over these, two with hours that overflow, and every set of lost groups; databases of every version, both engines; `MaxOpenConns` is 3 as in the code |

Deadlock is checked in `storage` and in the runs of `Credentials`, which may
never stop. Elsewhere the program may end (a panic, the end of `main`, a
finished leech, the end of a list) and the check is off.

Four runs expect a violation; each states what the source says of itself:

* `leech_handshake`: `errors.Wrap(nil, …)` is nil, so a first extension message
  that is no handshake is not reported (`leech.go:126`).
* `indexing_port_zero`: because of the shared loop variable, nodes get the
  address of another, also one with port 0 (`indexingService.go:171`).
* `indexing_samples`: `samples[i:(i+1)*20]` starts at byte `i`, so only the first
  hash of a response is right (`indexingService.go:224`).
* `credentials_no_auth`: under `--no-auth` the SIGHUP goroutine keeps the lock
  and never handles a second signal (`main.go:94`). Requests are not affected,
  which `RequestsAnswered` shows: they do not take the lock in that mode.

### Fairness

* Sink and daemon: a goroutine that can run does. `sync.Mutex` hands the lock to
  a waiter that has waited long enough, and blocked senders on a channel are
  served in order: strong fairness for `Lock` and for the send. `select` picks
  uniformly among ready cases: strong fairness for draining. A database call
  returns, with or without an error. Nothing makes a
  result or a signal arrive. A leech ends (this is `LeechEnds`).
* Leech: the deadline and the dial's timeout expire, and the leech's own steps
  are taken. No answer of a peer is assumed.
* Indexing service: the ticker ticks and `index` runs.
* Storage: a call that has begun goes on as long as it can, a statement that
  waits for the write lock fails after the busy timeout at the latest, and result
  sets are closed. Nothing makes a process start, a torrent or a request arrive.
* Credentials: goroutines run; nobody keeps the lock but in the modelled case.

## 4. Proofs

Every safety invariant and every action property that a passing run checks is
also a theorem, for all values of the constants that the named `ASSUME`s of the
modules admit. Most of them are not inductive; what follows says
what had to be added.

`MetadataSinkProofs` holds for every set of hashes, peers and leech names, any
lists of peers, any cap and any channel capacity, under the assumptions of
`MetadataSink` (lists are sequences over peers, the bounds are naturals, the
markers are not values).

* `TypeCorrect`: `SinkTypeOK`. It includes `HolderWants`: who holds the mutex is
  inside a call or callback that has still to release it. The types alone would
  not be inductive, as a critical section could run for a leech that does not
  exist.
* `OneLeechPerEntryTheorem`, `LeechesCappedTheorem`: from `JobInv`, which adds to
  the types that entries and leeches correspond and that the *table* is capped.
  `Sink` tests the size of the table; the bound on goroutines follows because
  leeches map one to one into it.
* `PeersTriedInOrderTheorem`: from `JobInv` and the property itself; the lemma
  `StepKinds` reduces every action to a few kinds of change of one entry.
* `EntryEndsOnlyWhenDoneTheorem`: an action property; the only steps that delete
  an entry are the ends of `flush` and of `onLeechError`, and in the latter the
  order of peers tells that the failed one was the last.
* `MetadataConservedTheorem`: the property counts, in the channel and among the
  leeches. `PlacesAppend` and `PlacesTail` say what a send and a receive do to the
  first number (a receive moves all places by one, a bijection); the second is
  at most 1, because `JobInv` has one leech per hash.

`MagneticodProofs` extends both `Magneticod` and the proofs of the sink: a step of
the daemon is a step of the sink or leaves the sink alone (`SinkSteps`), so that
the sink's invariants hold in the daemon, which never calls `Terminate`
(`SinkInv`).

* `DaemonTypeCorrect`, `RaceIsNotFatalTheorem`: from `DaemonInv`, whose `LoopInv`
  says what the loop holds at each of its places, and that a call to `Sink` is in
  progress just when the loop waits for it; that a torrent about to be
  inserted is not stored, unless the database failed to say so, is what makes the
  race harmless.
* `DaemonIsCrawler`: the refinement. Fetching hashes are the keys of the sink's
  table, pending ones those with a sending leech, in the channel or in the loop's
  hands (`PendingSet`). `SinkEffects` and `DaemonStep` show, action by action,
  which step of `Crawler` each is. A receive from the channel takes a hash from
  one place of the pending set to another, and is a stutter.
* `NothingFetchedIsLostTheorem`: from the refinement's steps, as `Crawler` drops
  a pending hash only when it stores it or need not.

`LeechProofs` holds for every piece length, every size of metadata below
`MAX_METADATA_SIZE` and whatever the peer sends.

* `ExactlyOneCallbackTheorem`, `ConnectionClosedTheorem`,
  `SuccessIsGenuineTheorem`: from `SafeInv`, which says where in `Do` a callback
  has been made and the connection is open. None of the three is inductive alone:
  that no callback was made *before* the return is what makes one more exactly
  one. `StepKinds` sorts the actions into those that go on, fail, succeed and
  return.
* `HonestPeerTheorem`: from `HonestInv`: before the last piece the count is a
  multiple of the piece length, what is counted is good, and the pieces asked
  for are all there are. The arithmetic is in `PieceArithmetic`.
* `LeechTypeCorrect`: from `TransferInv`: nothing is received before the requests
  are out, and in the loop the count stays within the buffer, because the test
  for too much follows the addition and ends the leech.

`IndexingServiceProofs` holds for every base of the bytes, all lengths of IDs,
addresses and hashes, any packets, any `MaxNeighbors`, and any number of queries
(`MaxQueries` bounds them, at an arbitrary number).

* `NeighborsBoundedTheorem`: the loop over a response breaks at the *first* node
  at which the table is full, which `Learn` takes as a minimum; `KnownBounded`
  shows that the nodes before it, with those known, are at most `MaxNeighbors`.
* `NoEmptyRoundTheorem`: between its two locks the table can only grow.
* `LatestQueryWinsTheorem`: `RecordLatest`; the last query with an ID is a maximum,
  in one response as well as over all that were sent.
* `NoExtraResultsTheorem`: from `CountInv`: what was reported of a hash and what is
  pending for it are together at most the queries for it. An answer moves one from
  pending to reported; one that is repeated, or was never asked for, finds nothing
  pending. A new query with an ID still in use takes the pending one away, which
  the inequality allows. The hash of zeros is excepted: answers that find nothing
  pending are reported under it, however many come.
* `ServiceTypeCorrect`: from the above and what `Codec` decodes.
* `NodesRoundTrip`, `PeerRoundTrip` (up to the short form of an IPv4 address) and
  `PeersRoundTrip`, for lists of any length: concatenated records of one width are
  cut at multiples of the width (`BlockOfConcat`), each of which is taken apart
  again (`NodeRoundTrip`, `AddressRoundTrip`, `PortRoundTrip`).

`PagingProofs` holds for any sizes, ranks, numbers of torrents, limits and times.

* `ShownInOrderTheorem`, `NothingSkippedTheorem`, `EndIsEndTheorem`,
  `PagingTypeCorrect`: from `PagingInv`, which adds that the value in the cursor is
  still that of the torrent it stands on (`CursorInv`; by relevance only while
  nothing is added). `Before` is a strict total order on rows because ids differ
  (`StrictTotalOrder`); hence ranks are distinct and `InOrder` is sorted and
  complete (`AheadCounts`, `InOrderSorts`); a page is an initial part of what is
  left after the cursor (`PageContents`), also one cut short, and appending it
  keeps all three properties (`ShowMore`).

`CredentialsProofs` holds for any users, passwords and files.

* `NothingSurvivesReloadTheorem`, `CredentialsTypeCorrect`: from `FileInv`: while
  a file is opened and loaded the map is empty, and otherwise every entry is a
  line of the file opened last (`FromFile`). `EnterEffect` shows it of the lines
  accepted before one that is malformed.

`StorageProofs` holds for every set of torrents and instants, any number of files
and both engines.

* `SchemaTheorem`, `LatestSchemaTheorem`, `TorrentsWholeTheorem`: from one
  invariant. Committed database and every transaction's own copy are whole, that
  is, schema, version and rows agree (`DbInv`, `SetupInv`, `AddInv`, the latter
  but for the row being written); a copy made with the write lock has all that is
  committed (`Succeeds`), and one made without it is still its snapshot; only an
  upgrade and `AddNewTorrent` have the lock (`LockInv`); who serves SQLite does
  so from version 3 (`ServeInv`). `Succeeds` is the reason why a commit loses
  nothing, and needs the refusal of a stale snapshot in `CanWrite`.
* `TorrentsKeptTheorem`: an action property, from the same invariant.
* `StorageTypeCorrect`: the accounts of the pools, from `PoolInv` (every step
  balances the account of its own process, `BalancesPool`), `ItemInv` (a torrent
  that is looked up or written is known not to be empty) and `StoredInv` (so are
  those in the database and in what may be committed).
* `StatisticsCountTheorem`, `PageReachesNowTheorem`: committed torrents have files
  and an instant at which they were discovered (`RowsCommitted`, from the
  invariant above); the rest is in `StatisticsProofs`.

`StatisticsProofs` holds for all rows and all instants; the page's requests are
made since 1970, with n from 5 to 365 (`PersistenceAssumption`), the `min` and
`max` of the input in `statistics.html`; `load` of `statistics.js` does not hold n
to them, and of other n nothing is said. It has no state.

* The calendar. `DayNumber` counts years from March; `YearForm` and
  `MonthLengths` bring it to years from January with the lengths of `daysOfMonth`,
  and `OneDate` says that no two dates are one day. `FieldsDate`: `Fields` yields a
  date of the calendar and `DayNumber` takes it back. Its hard part is the year of
  a day within the 400 years of an era (`YearOfEra`).
* `PageDays`, `PageHours`, `PageMonths`, `PageYears`: going back n units of fixed
  length and forward again by the calendar reaches now. For months this is
  `MonthsForward`: from the fourth on, n months have at least 30 n days wherever
  they begin. That 365 days are never more than a year settles years.
* `Window`, `AnswerCounts`. Every year, day or hour has a number (`IndexOf`), and an
  instant lies in the period with its own number (`PeriodByIndex`). `After` is a
  recursive function: a function that satisfies its equation is given in closed
  form, through `Fields`, and two such functions cannot differ at a least place
  (`AfterIndex`). So the periods after the one named have the next n numbers,
  which are those in the window of `GetStatistics`. For hours the end of the window
  is `HoursForward`: exact while they fit a `Duration`, and never later than that
  when they do not, which is enough for the periods mentioned.

Only model-checked:

* liveness, as the prover has neither fairness nor ENABLED: `EveryEntryEnds`,
  `FetchedIsStored`, `LoopReturns`, `LeechEnds`, `TableTurnsOver`,
  `SighupReloads`, `RequestsAnswered`, `CallsReturn`.

## 5. What could follow

* A composition of `IndexingService` with the daemon's output channel, and of
  `Leech` with the sink's view of a leech, as refinements. So far the latter
  rests on `ExactlyOneCallback` and `LeechEnds`, which are what the sink assumes.

## 6. Not modelled

* The Beanstalkd and stdout engines: each call writes one job or line and keeps
  nothing.
* The token secrets of `protocol.go`: no handler of the daemon reads them. The
  constructors of messages fill in fields.
* Error lists of the codec (`Error.UnmarshalBencode`): packets of type "e" meet no
  handler. Bencode and the socket calls are libraries.
* The readme handler of magneticow: a sequence of calls into a torrent client,
  whose behaviour under concurrent requests the source does not show.
* Statistics by week, whose number has three definitions that disagree, and by
  month beyond `PageReachesNow`: a month is taken to have 31 days, so the first
  days after a shorter one are not counted.
* The answers of two requests of the statistics page, which are drawn in the order
  of their arrival; the panic of `closeRows` after a query that fails, which
  `net/http` recovers; and foreign keys, which `PRAGMA foreign_keys=ON` enables on
  one connection of the pool only and on which no modelled call depends.
* Flag parsing, profiling, page templates, static files, the rendering of pages,
  and logging.
