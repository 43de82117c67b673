# ra-common-cpp in TLA+

A verification project for `ra-common-cpp`, the header-only C++20 library under
`src/include/ra_common/`. It holds TLA+ modules translated from the headers, the
TLC configurations that check them on small instances, and theorems that TLAPS
proves for every value of the constants. `PROJECT.json` is the index: it maps
every definition to the lines it models and lists the runs, the mutants that
show each property can fail, the hazards and the theorems.

    tlc -config runner_owner.cfg TaskRunnerProps.tla      # a run
    tlapm TaskRunner_proofs.tla                            # the proofs

## 1. Inventory

| Part | State it keeps | Operations | What is hard about it |
|---|---|---|---|
| `tasks/` TaskRunner | `managed_`, `running_`, `poll_thread_`, `active_workers_`, two mutexes, two condition variables, three atomics per entry | AddTask, Poke, Start, Shutdown, destructor, the poll loop, Pass, Worker | the only concurrent part: interleavings, lost wake-ups, shutdown races, lifetime |
| `route/` | a slip's `deque` of routes and its `current_`; a route's `routed` mark | AddRoute, CurrentRoute, NextRoute, Peek, Clone, JSON | LIFO order, a getter that pops, what survives serialisation |
| `envelope.hpp` | one message, header map, slip, a cached clone of the current route | factories, AddRoute, GetRoute, Ratchet, headers, document payload, JSON | two copies of the current route, ownership, hops between nodes |
| `service/` | a status, an observer, a producer | Send, Handle, HandleCommand, Start/Pause/..., UpdateStatus, Report | re-entrant and throwing observers and producers |
| `lifecycle.hpp` | a flag or a status behind an interface | Start, Pause, Unpause, Restart, Shutdown, GracefulShutdown | interface only |
| `messaging/` | message payloads, error lists | factories, buckets, JSON dispatch | wire names, what an absent key means |
| `content.hpp`, `multipart.hpp` | a body with hash and fingerprint, metadata; parts | SetBody, Build, JSON | hash against body when regeneration is off; parts lost in JSON |
| `util/nonce.hpp` | a set and a queue of ids | ContinueOn | set against queue, pruning at the limit |
| `crypto/` | none (HashCash, Hash, Multihash are values) | SHA-1/256/512, PBKDF2, hash strings, HashCash mint/parse/verify, multihash codec | padding at block boundaries, round trips, malformed input |
| `encoding.hpp` | none | base32, base58, base64 | leading zeros, padding, accumulator width |
| `identity/` | DID, keys, signatures, status | attributes, signature lists, ClearSensitive | what is cleared, JSON round trip |
| `network.hpp` | a peer's id, network, DID, port | equality, JSON | equality across partly filled peers |
| `config.hpp` | properties, files, directories | ParseProperties, Load, LoadAll, AppDir | precedence, several processes creating directories |
| `util/` (others) | none | version comparison, ids, bytes, strings, random | numeric edges |
| `exception.hpp`, `ra_common.hpp` | none | the error type, the umbrella include | nothing to model |
| `tests/`, `third_party/` | | doctest cases; vendored nlohmann/json and doctest | not part of the program |

Interaction. An `Envelope` owns one message and one `DynamicRoutingSlip`; a
service's `Handle` looks at the envelope's current route and its message and
calls the service's handlers, or its own command handler, which moves its
`ServiceStatus` and reports it to an observer. Channels (`messaging/channel.hpp`)
are interfaces only: nothing in the repository carries an envelope from one
node to another, so a hop is `ToJson` on one side and `FromJson` on the other.
A `TaskRunner` is used by a host to run periodic work; it knows nothing of
envelopes. Everything except TaskRunner is unsynchronised and belongs to one
thread at a time.

Correctness, part by part: a task runs on at most one worker and never after
its runner was shut down, and every shutdown returns (TaskRunner); the routes
of an envelope are visited last-in first-out, once each, on whatever node it is
(routing); a replay is rejected as long as its id is remembered, and the memory
is bounded (Nonce); the status a service reports is the one it is in (service);
a codec gives back what it was given (encoding, crypto).

## 2. Modules

### TaskRunner (`TaskRunner.tla`, `TaskRunnerProps.tla`, `TaskRunnerFaults.tla`, `TaskPool.tla`)

`TaskRunner` models `tasks/task_runner.hpp`. Threads are the owner (the thread
that calls Start, Shutdown and the destructor), the poll thread, client threads
that call AddTask and Poke whenever they like, and detached workers. A worker
whose task is in `Reentrant` calls AddTask and Poke from inside `Execute()`.
`pc` says where each thread is; an action is the code between two accesses to
shared state that another thread can tell apart.

| Code | TLA+ |
|---|---|
| `running_`, `managed_`, `active_workers_` | `running`, `managed` (a set: the order of the vector only orders the spawning), `active` |
| `Managed::status`, `stop`, `scheduled` | functions over `Entries` |
| `mutex_` | `mutex`, held between steps only by the poll thread (between its test and its wait); other critical sections do not wait inside and are one step |
| `workers_mutex_` | `workersMutex`, held by Shutdown() between its predicate and its wait, and while it clears |
| `poll_thread_.joinable()` | the poller is not `"idle"` |
| `to_schedule` of each running Pass() | `toSchedule` |
| the `m` and `cfg` a worker's lambda captures | `job`, `cfg` (the period only) |
| `ITask::Config().periodicity_ms` | `period`, -1, 0 or 1; `Reconfigure` changes it for tasks in `Pausable` |

`PassScan` is the critical section of Pass(), `PassSpawn` one round of the loop
after it. `wait_for` may time out whenever it waits, `wait` may wake spuriously.
Delays and periods are not timed: a worker may stay anywhere for any while.
A worker's `OnStop()` happens with the step that completes its entry.
A destructor is a Shutdown() after which the runner is gone (`"destroyed"`).

`TaskRunnerProps` states the properties and the inductive invariant
`RunnerInv`. `TaskPool` is the abstract promise: entries go from absent to
queued to active to finished, each launched at most once and only while the
pool is open; the pool closes only when nothing is active, and what is still
queued then is discarded. The refinement mapping reads the pool open from the
exchange in Start to the return of the Shutdown that follows (`PoolOpen`), and
an entry's life off the vector, the passes and the workers (`PoolLife`).

`TaskRunnerFaults` adds the fault the code is open to: `std::thread`'s constructor throws.
In Pass() it does so after `fetch_add`: the count stays, the rest of `to_schedule` goes
with the frame (`SpawnFails`). The exception reaches the caller of AddTask or Poke, or ends
the process (`ended`) on the poll thread and in a task that does not catch it. In Start() it
comes after `running_` was set (`PollerFails`): the runner runs unpolled, and Start() called
again returns at once. The consequence a user meets: after one failed worker no Shutdown(),
the destructor's included, returns.

Fairness (`FairSpec`): every thread in the middle of a call goes on (strong
fairness, because the mutex it waits for is released and taken again and again),
and `Execute()` returns. That is what an operating system's scheduler gives; no
call is forced to happen and no spurious wake-up is relied on.

### Nonce (`Nonce.tla`)

`seen` and `order` are `seen_` and `order_`; `log` is a history of the ids
accepted, which the properties refer to. `ContinueOn` is one action in two
parts, `Accept` (it returned true) and `Reject` (false); both prune first, as the
code does: `PruneCount` is the number of ids the loop of Prune() pops (or all of
them at 100 percent), `PrunedSeen` and `PrunedOrder` what is left. Ids are model
values. The promise to a caller is the window: a replay of one of the newest
`MaxSize + 1 - ToPrune` ids is always rejected.

### Routing (`EnvelopeRouting.tla`, `Itinerary.tla`)

Each holder has at most one copy of one envelope, `env[h]`: `routes` and `current` are the
slip's `routes_` and `current_`, `own` says which of these carry the routed mark, `route` is
the clone the `Envelope` keeps and `routed` the mark on that. `Clone` copies the mark the slip's
route has at that moment, and from then on the two are objects of their own. `NextRoute`, `CurrentRoute`, `GetRoute`, `Ratchet`, `AddRoute`,
`ToJson` and `FromJson` are operators with the names of the methods; each action is
one public call by the host that holds the copy. `Hop` is the JSON round trip:
absent keys stand for null pointers, and the sender keeps its copy, so a lost,
a duplicated and a late envelope are all runs of the model. A route is a model
value because its kind does not matter to the slip. `Mark` is `set_routed` on what `GetRoute()`
returned, `MarkOwn` on a route the slip still holds, which `CurrentRoute()`, `NextRoute()` and
`PeekAtNextRoute()` hand out by mutable pointer; either sets the mark or takes it off. (`PeekAtNextRoute()`
shows the front only; that a pointer got earlier may be used for a route further back is why
`MarkOwn` takes any route held.) `Steer` and `Consult` are a host that
calls `NextRoute()` or `CurrentRoute()` on the public slip, past the envelope; `apart` holds the
copies where that happened since the clone was made. `apart`, `path`, `lineage`, `marked`,
`born` and `clock` are histories that only the properties read.

`Itinerary` is the promise without the machinery: a stack of routes per holder.
Whatever pops is its `Visit`, be it called on the envelope or on the slip; a `GetRoute()`
answered from the clone, a mark and a `Ratchet()` of an exhausted slip are
stutters.

### Service (`ServiceCore.tla`)

`status`, `observer` and `producer` are the members of ServiceCore (the two pointers
by whether they are set); `calls` is the stack of UpdateStatus() and Handle() calls
under way. UpdateStatus() is split where it calls out: `UpdateStatus` up to the
observer (or the producer, when there is no observer), `ObserverReturns` from there to
the producer, `Return` the rest. Between two actions the host's code runs, whichever
callback it is in, and may call anything again. A command whose method is the
concrete service's is `HandleByMethod`: the method does whatever it likes until
it returns. `board` is the last report offered to a producer, `answer` the last
one given to a Report command; `changes`, `since` and `missed` are histories. What is called may
throw (`Throw`): neither UpdateStatus() nor Handle() catches, so any number of calls is given
up, and with an UpdateStatus() that still waited for its observer its report, until the next
event (`missed`).

### Content (`Content.tla`)

One copy of a content is followed, because copies share nothing once they are
made. `content` holds what SetBody() touches: body, size, version, hash,
fingerprint and the two algorithms a holder may choose. SetBody() is composed of
its assignments in their order, `Sized`, `Hashed`, `Printed`, `Taken`; `SetBodyThrows` is
the call that stops at the fingerprint because its algorithm is no plain digest
(hash_util.hpp:31), with size and hash already changed. `Build` is a `SetBody` of a
`Blank` content and cannot throw there. A body is known by its number of bytes. A
digest is a record of what went into it, that is an injection; a hash string is
the sequence of its parts, two or (for a password) three, so that taking a string
apart the wrong way is visible. `salts` makes every generated hash a new one.
`last` is a history: what the last SetBody() was asked.

`Objects` puts Nonce, ServiceCore and Content side by side for TLC. None calls another, so a
behaviour follows one `object` while the others stand still.

### The JSON forms (`JsonForms.tla`, `Identity.tla`, `Messages.tla`, `EnvelopeWire.tla`)

Every class of the library writes itself as a JSON object and is read back by a
function of its own that decides what an absent key means. `JsonForms` says this
once: `Keys` leaves out the members that have their unset value, unless they are
always written; `With` gives each absent key its value; an enumeration is the names its
ToString() writes, the names its FromString() compares with and the value that one takes
all others for.
The classes are instances of it, member by member:

| Module | Classes |
|---|---|
| `Identity` | Signature, PublicKey (attributes, signature lists), Did (ClearSensitive), NetworkPeer |
| `Messages` | document, command, event and text messages, the buckets of a document, exceptions, `MessageFromJson` |
| `EnvelopeWire` | the external routes, Multipart, Envelope; the state machine |

`EnvelopeWire` follows one envelope, from one of the five factories, through what
hosts do with it, one action per kind of call, and `Hop`, `FromJson(ToJson(env))`. The
id and the slip are not in it: they are what `EnvelopeRouting` is about, and nothing
here reads them. Strings, numbers and payloads are two values `X` and `Y`, an id is `Id`;
`SetMember`, `SetDid` and `SetKey` fill in all plain members at once with values a new object does
not have, so that a member that is not written, or not read, or read as another, is
seen. `thrown`, `cleared` and `revoked` are histories.

### The helpers (`BitCodec`, `Stamps`, `Versions`, `Hashes`, `Settings`, `AppDirs`, `ShaBlocks`,
`PasswordKeys`; composed in `Library`)

What the library offers as functions is modelled as a short behaviour each: who calls, the
loop or the file system at work, whoever carries the result, who reads it. So the loops keep
their own state, and what arrives need not be what was sent.

| Module | Code | State |
|---|---|---|
| `BitCodec` | base32 and base64 of `encoding.hpp` | the text, the bytes read back, and each loop's `bits` and `value`, the latter modulo the range of an int |
| `Hashes` | base58 of `encoding.hpp`, `crypto/multihash.hpp` | a value, one of its forms, how that form was damaged, what its reader makes of it |
| `Stamps` | `crypto/hash_cash.hpp` | the request, the search, the text that is carried, the stamp minted and the stamp parsed |
| `Versions` | `util/version_comparator.hpp` | two texts, where the loop is in each, the answer for them and for them swapped |
| `Settings` | LoadAll and its sources in `config.hpp` | environment, file, command line; whether LoadAll returned or threw, and the settings |
| `AppDirs` | `system_settings` in `config.hpp` | directories and files; where each caller is between its two mkdir() |
| `ShaBlocks` | `crypto/sha.hpp` around its compression functions | the padded message, where the next block begins, the words taken in |
| `PasswordKeys` | `crypto/pbkdf2.hpp` | the block and the round under way, the last HMAC, the exclusive or so far, the key so far |

Characters are indices in an alphabet, or words and separators where a separator is what
matters. SHA-1 in `Stamps` is a number of leading zeros that nobody can foresee. In `ShaBlocks` the
three functions differ in the lengths of a block, a word and the length field only; the words
taken in stand for the chaining value, because the compression functions are left out. In
`PasswordKeys` a byte is the set of the unknowns it is the exclusive or of, so that equal ones
cancel, and SHA-1 gives an unknown of its own for every text and place. In
`Versions` the overflow of ParseLong is undefined behaviour: the value wraps, and the
compiler may have dropped the loop's test for a negative one (`keepsCheck`). In `AppDirs` a
mkdir() is one step, with the outcomes the file system has: made, EEXIST for whatever
stands there, or an error that throws; base directories may be created by others meanwhile,
because AppDir() never creates them. Its comment, config.hpp:107, says "mkdir -p equivalent without
shelling out: create each path segment". Two properties state that, and the code breaks both:
`EachSegmentCreated` (a missing base makes the call fail) and `CreatedIsDirectory` (a file at the
place passes for the directory). `AppDirCalls` speaks of neither: it compares a caller among others
with the same caller alone (`FailsAlone`).

In `Hashes` four characters are no digit of hex or base58: white space, the two signs, and any
other. `Stoi` is what `std::stoi(..., 16)` makes of two characters: it passes over white space,
takes a sign, reads the digits it finds and throws when it finds none, and the number is then cast
to a byte. So ` b` and `+b` are 0x0b, `-1` is 0xff and `b+` is 0x0b. (`Hash` reads its bytes
with the same call, hash_util.hpp:52; its texts are tokens in `Content`, so that is not modelled.)

`Library` puts these and `EnvelopeWire` side by side. They share no state and call each other
nowhere in the modelled parts, so a behaviour follows one `subject` while the rest stands
still; one run checks all.

## 3. Runs

**TaskRunner.** Three entries and one more worker than entries, so that an
entry could be started twice; two starts where restarts matter. All hazards
involve at most two passes, one Shutdown and two entries.

- `runner_callers`: a client thread and a re-entrant task call at any time. No
  entry gets two workers, no wake-up is lost, the inductive invariant holds.
- `runner_owner`: no other callers, two rounds of Start/Shutdown, a task that
  adds tasks, up to two workers (and any poll thread) that cannot be created. A Shutdown
  that returns leaves a quiet runner; nothing is lost without a failed creation; the
  runner implements TaskPool.
- `runner_live`: when nobody adds tasks during it, the stop flags of Shutdown reach
  every worker and it returns; completed entries are erased, and a task that
  pauses and resumes is run.
- `runner_hang` (violation): a periodic task added after the marking and started
  by a pass already under way is never stopped, and Shutdown never returns.
- `runner_destroyed` (violation): the last worker counts down, Shutdown and the
  destructor return, and the worker then locks the destroyed `workers_mutex_`.
- `runner_paused` (violation): the second read of `Config()` executes a task
  that has just turned to -1.

**Nonce.** Six ids and limits of 3 or 4, so that several prunes happen and ids
come back after they were forgotten; `MaxLog` bounds the history.

- In the run `objects`: limit 4, half forgotten at a time. Set and queue agree, the memory is
  bounded and a recent replay is caught. A prune that forgets everything (100 percent) is covered
  by the proofs, which hold for every percentage.
- `nonce_small` (violation): limit 3 and the default 10 percent. A prune forgets
  `3 * 10 / 100 = 0` ids, so the memory is not bounded.

**Routing.** Two holders and three routes, so that a copy can be overtaken by the one
it was made from and routes can be added before, between and after hops.

- `routing`: clone and slip agree (on a copy whose slip was driven past the envelope: again
  from the next `Ratchet()` on, and the clone is a route left behind meanwhile), every route
  current once and none lost, newest first, marks kept, and `Itinerary` implemented. What `GetRoute()`
  shows is marked exactly when a host marked it; the one mark that is never shown is that set on
  the slip's current route when the clone of it is there already. Holders and routes are
  symmetric sets (`MCRouting.tla`): no definition tells one from another.

**Service.** Three statuses, four changes and three calls deep: an observer that
changes the status, a producer that does so inside that, and one more.

- In the run `objects`: once no observer is being told, the producer was last offered the
  current status, unless the last report was given up by an exception; reports, events and answers alike, never go back in time.

**Content.** Three bodies (one of them empty), three algorithms of which one is PBKDF2,
three versions, three hashes: enough for a hash of an earlier body, an algorithm
changed twice, a call that throws between two that do not, and hops anywhere.

- In the run `objects`: the properties hold unless the last SetBody() threw. After one that did, a
  content does carry the size and the hash of a body it does not have; version and
  body are still those of before.

**EnvelopeWire.** Three calls of hosts (`MaxOps`), hops in any number between and after them. Three is
what the properties need: an exception, a value put over the list and another
exception; a signer that signs twice and is removed; a peer that takes the
envelope's Did after it was filled in. Members are written and read independently of
each other, so more calls would combine what is already seen.

- In the run `library`: the properties hold. `HopKeepsAllButParts` also says what is lost, the parts of
  a multipart body, which `Multipart::ToJson()` does not write.

**Library.** One run over nine subjects; each module's bounds are the `MC` definitions of
`Library.tla`.

- `library`: the envelope properties above, and:
  - codecs: all messages of three bytes that differ in every bit pair (0, 255, 165), up to
    five long, so that every offset of bytes against characters and both paddings occur;
    any one character may be spoilt, into one that no alphabet has (another digit or a `=` in
    its place is not told from what might have been written). Text as RFC 4648 has it; what is read is what was written.
  - stamps: three resources, eleven extension maps (empty keys, empty values, separators),
    years of two centuries, bits 0, 2 and -1 of at most 3, any alteration of one field; dates are dates of the
    calendar. The
    value of a stamp is earned; an unaltered text gives the stamp back. The exceptions are
    in the property: the code's messages say "between 0 and 160" and "only versions 0 and 1"
    (hash_cash.hpp:55-56), but negative ones pass. Negative bits come back as they
    were; a negative version is written, and comes back, as 1.
  - versions: some sixty texts in all pairs, empty parts, letters, numbers at and past the
    largest long (127 in the run). Swapped texts give the opposite answer; where the numbers
    fit, the answer is their order.
  - hashes: bytes 0, 1, 58, 255 up to three long in base58, digests of the three lengths in
    four forms, cut, lengthened, resized or spoilt with a character that is no digit. A base58
    text, a JSON object and bytes are either read back or refused. In hex a stray character can
    go unnoticed, and the hash read then differs from the one written in the byte it stood
    in. That one digit became another is beyond what a text without a checksum can tell.
  - settings: all files of up to three of eight lines, three environments, four command
    lines.
  - directories: two callers, nine calls by kind, application and wish to create, six
    environments, file systems with a file or a locked directory in the way.
  - padding: messages of nineteen lengths on both sides of 56, 64, 112, 120 and 128 bytes,
    for each of the three functions, made of the very bytes the padding is made of. What is
    compressed is the padded message of FIPS 180-4.
  - keys: seven passwords below, at and above the length of a block (three bytes in the run,
    digests of two), with zero bytes, and one the SHA-1 of another; three salts, counts from
    -1 to 3, keys of 0 to 5 bytes, so that the last block is whole and cut. The key is the one
    of RFC 8018; a count below 1 counts as 1, since the loop starts at 1 whatever is asked.

- `appdirs_base` (violation): one caller on a new account, which has its home and nothing in it.
  The call that is to create its directories fails, against config.hpp:107.
- `appdirs_file` (violation): one caller on the file systems of `library`. With a file at
  the application's place the call returns as if it had created a directory, against the same comment.

## 4. Proofs

**TaskRunner** (`TaskRunner_proofs.tla`). The assumptions are those of the
constants: the sets of threads are disjoint, `Workers` is finite, `None` is
neither a thread nor an entry. None of the properties is inductive by itself:
that two passes do not claim the same entry needs the `scheduled` flags, that
the flags mean what they should needs to know what every pass and worker holds
(`ClaimsInv`); that Shutdown is not left asleep needs the locks (`LocksInv`) and
the exact count (`ActiveCount`, proved with the cardinality lemmas for finite
sets). `RunnerInv` is their conjunction. For every value of the constants it gives
`TypeOK`, `OneWorkerPerEntry`, `NoLostStopSignal`, `NoLostDoneSignal`,
`ActiveCount` (`RunnerInvariant`, `TypeCorrect`, `OneWorker`, `StopSignalSafe`,
`DoneSignalSafe`, `CounterIsExact`). With no client threads `QuietInv` is
inductive too, which gives `QuietAfterShutdown` and, step by step through the
lemmas `AddTaskAdds`, `ScanIsHidden`, `SpawnLaunches`, `ExitFinishes`,
`ClearCloses` and `OtherStepsHidden`, the refinement `RunnerImplementsPool`.
The lemmas that preserve the invariant are stated for `RunnerCore`, which says nothing of the
counter, and for a count that exceeds the live workers by any number `lost`: 0 for `Spec`,
`failed` for `FaultySpec` (`FaultyInv`). So the same lemmas prove `OneWorkerDespiteFailures`,
`QuietDespiteFailures`, `ShutdownQuietDespiteFailures` and `FaultyRunnerImplementsPool`; the last
needs that a pass holds only entries of the vector (`HeldInv`). `FailuresAreTheOnlyLoss` adds
what is scheduled, what is polled and where Shutdown stands (`ClaimedInv`, `PolledInv`, `HangsInv`).
`StopsReachWorkers`, and the same despite failures, says what makes Shutdown() return: with no
client and no re-entrant task, a worker that may still execute has its entry's stop flag once the
entries are marked. `ToldInv` adds to the marking that whatever a pass under way still holds, and
whatever has a worker, is among the entries that were marked (`HeldInv`, `QuietInv`).
Without the restriction on clients quietness and the refinement are false, as DESIGN.md admits: a client's pass
may start a worker after Shutdown has returned.

**Nonce** (`Nonce_proofs.tla`). Assumption: the limit is a natural number and
the percentage is between 0 and 100 (the constructor clamps it). `NonceInv` says
that set and queue agree, that the queue is a suffix of the log and that it is
as long as the window or the whole log; it is inductive for every configuration
(`NonceInvariant`), and `ReplayCaught` follows. `MemoryBounded` needs that a prune
forgets something; `nonce_small` shows why.

**Routing** (`EnvelopeRouting_proofs.tla`). Assumption: `None` is neither a route nor an
envelope. `RoutingInv` adds to the properties what makes them inductive: the
current route is the last of the path, the clone is a route of the path, marks are on routes of the copy,
the clone has the mark it ought to have and so has every route the slip holds except the one
the clone was made of, and a copy's routes were all born by now. It is proved copy by copy (`CopyByCopy`, with one
lemma per operation: `NextIsGood`, `CurrentIsGood`, `CloneIsGood`, `GetRouteIsGood`,
`RatchetIsGood`, `AddIsGood`, `LaterIsGood`, `MarkIsGood`, `MarkOwnIsGood`), a hop by `RoundTrip`: `FromJson(ToJson(e)) = e` for every sound copy.
The refinement goes step by step in `PromiseStep`.

**Service** (`ServiceCore_proofs.tla`). Assumption: the two named statuses are statuses.
`ServiceInv` is inductive as it stands, because `BoardIsCurrent` is stated for every
moment at which no observer is being told and not only for an idle service: the
calls on the stack that wait for their observer are exactly the reports still to
come; `Throw` shortens the stack anywhere, so its case compares what is left with what was
given up.

**Content** (`Content_proofs.tla`). Assumptions: SHA-1, SHA-256 and PBKDF2 are among the
algorithms, and a hash is not the absence of one. `ContentInv` is inductive as it
stands: its typing says of which form a hash is (`Hashes`, `Prints`), which is why no
check can throw (`HashesAreReadable`). SetBody() is proved assignment by assignment
(`SizedIs`, `HashedIs`, `PrintedIs`, `TakenIs`), a hop by `JsonLosesNothing`.

**JSON forms** (`EnvelopeWire_proofs.tla`). Assumptions: strings and identifiers may be anything,
`MaxOps` any number; the null pointer is no document (`DocumentAssumption`: it is a model
value, and a document is a record). Class by class, `Read...(Write...(o)) = o` for every object that hosts can make:
signatures, keys, Dids, peers, the three kinds of routes, the four kinds of messages
(`SignatureSurvives` to `MessageSurvives`), from what `Keys` and `With` do to any
record whose unset values agree on both sides (`ReadBack`, `ReadBackKeys`) and from the names of
each enumeration, written and read (`NamesSurvive`). `MultipartLosesItsParts` is the exception, and `EnvelopeSurvives` is
`HopKeepsAllButParts` for an envelope in order (`EnvelopeOK`). `WireInv` says that every envelope is in order, for
calls and hops in any number, and that the three histories tell the truth; one lemma per kind of
call (`DocumentSteps`, `DidSteps`, `KeySteps`, `HopStep`, ...) preserves it. The loop of
RemoveSignature() keeps the list's order and drops the signer by induction over the list
(`WithoutLeavesNone`).

Where a loop or a fold has to be followed through all its rounds, the induction is over the set of
rounds at which a statement fails: a set of numbers that is not empty has a least element
(`LeastElement`, `Induction`, from the well-foundedness of the natural numbers that TLAPS'
library proves). That a recursive function exists, and obeys its equation, is proved the same way
(`PrimitiveRecursion`), from approximations of it that agree.

**Codecs** (`BitCodec_proofs.tla`). Assumptions: messages are byte strings, and an int keeps
at least 12 bits when it wraps. The properties speak of whole texts, the loops of bits:
`CodecInv` says at every step which bits of the message are in the text, in the bytes read
and in the low part of the accumulator (`Writing32Inv`, `Writing64Inv`, `ReadingInv`). Powers of
two, windows of bits and each step of each loop are lemmas; `TextIsRfc4648` and
`DecodeInvertsEncode` then hold for messages of any length.

The other helpers share `Library_proofs.tla`, which uses the induction of `EnvelopeWire_proofs`.

**Stamps.** `StampInv` says that no stamp is worth more than its hash.
Assumption: keys and values of extensions are texts, and the keys are among those of the map's order
(`ExtensionsAssumption`). Four folds write and read them. `SplitAppended` and `SplitLast` say what one
more character, and a text without separators, does to what is split; hence `SplitJoined`: parts that do not
hold the separator are found again. An item is read as the key and the values it was written from
(`ItemRead`), and item by item the map grows back (`PutSteps`), so `ExtensionsInvert` and, with it,
`TokensSurvive`, which follows the text of a stamp through Parse.

**AppDirs.** Assumptions: paths are sequences of names, calls and
environments are of their types. What is proved is that callers do not disturb each other; the two
properties that state the comment do not hold. `AppInv` adds what each caller has seen by where it is: its
group directory stands when it is at the second mkdir(), and what stands never goes.

**ShaBlocks.** For messages of any length, `PaddingIsFips180` says that what is compressed is the
padded message of FIPS 180-4. The invariant places every byte written so far: message, the bit 1, zeros,
length; the number of zeros follows from where the loop may stop, modulo the length of a block.

**PasswordKeys.** Assumptions: the lengths of block and digest are numbers, a digest no longer than a block,
and a password is a sequence (`KeyAssumption`). `KeyInv` says that every
whole block of the key is RFC 8018's, and that the exclusive or under way is that of the first
`round` rounds. That chain of HMACs is a recursive definition, so its existence comes first; and
RFC 8018's exclusive or is stated as parity, so one more round turns the parity of just the
unknowns in it (a lemma on cardinalities).

**Settings.** Assumption: a source is a sequence of texts (`SettingsAssumption`). LoadAll is four
folds laid over each other. `FoldExists` gives the existence of any fold of the community
modules' `FoldLeft`, `SumsUp` what a fold of maps is: its keys are those of the maps, the last map
with a key decides. `SumsUpJoined` joins environment, file and command line to one list, and
`EnvSays`, `LineSays` and `ArgSays` show what each text says: the places of its separators decide
its key and value exactly as `SetsAt` states, trimmed where it is a line of the file.

**Hashes.** Assumption: plain bytes and digests are byte strings (`HashAssumption`). The state
part is short (`HashInv`: what arrives is what was written, with the one damage named); the
rest is arithmetic. For a stray character in hex, `StrayPair` bounds what std::stoi makes of its pair:
less than 16 or more than 240. No code and no length is among these, so such a byte in front is
refused, and in the digest it is the only one that differs (`ByteMisread`, `HexSpoilt`). Both loops of base58 keep a number in digits, so `V[i]` is the value of
the digits from the i-th on (`DigitValues`). A digit taken in multiplies and adds
(`DigitTakenIn`, with the carries of the loop), a text is its Horner sum (`TakenValue`), and a number
with no zero at its top is told by its value (`SameNumber`): so decoding inverts encoding, zeros in
front counted apart (`ConvertedBack`). A base58 text without its last character is the number
divided by 58. `TopOfCut` follows that division from the lowest byte to the highest:
whatever the digest, the first byte decoded is 1 or one of four that are no code (`CutBase58`).

**Versions.** Assumption: versions are texts (`VersionsAssumption`). The inner loop stops at the
same places of a text wherever the comparison stands (`Marks`), so a text is a list of
values whichever side it is on (`Listed`), and `VersionInv` says that both sides have passed equally
many of them, all equal. The order of two lists turns with them (`OrderTurns`): that gives
the first half of `VersionOrder` for every build, overflow or not. `FittingParts` gives the second:
where the decimal number fits, ParseLong's wrapped one is that number.

## 5. What is only model-checked, and what is not modelled

Only model-checked, because liveness under fairness is out of the prover's reach:
`ShutdownReturns`, `CompletedErased`, `NoStarvedTask`. The
refutations of `runner_hang`, `runner_destroyed`, `runner_paused` and `nonce_small` are
counterexamples and need no proof.

Left out of the models, beyond what section 2 says:

- TaskRunner: callbacks that throw, Start
  and Shutdown from two threads or from a task, callbacks that call the runner
  from `Config()` or a destructor (which would lock `mutex_` twice), time.
- Routing: slips nested in slips, hosts that assign the public `route`, malformed JSON.
- JSON forms: objects no ToJson() wrote (a key of the wrong type, an unknown kind or
  type), where FromJson() throws; lists of exceptions whose elements are not strings.
- Service: more than one thread (nothing in the class allows two), what concrete services
  do, whether a producer accepts what it is offered: Send()'s result is dropped.
- Helpers: the compression functions of the digests; texts of base64 with line breaks; directories that are
  removed while callers create them.
- `messaging/channel.hpp` and `lifecycle.hpp` are interfaces whose implementations
  are in other repositories. The draws of
  the random generator have no state a model checker can say much about.
- `third_party/` is vendored, `tests/` are the callers the models were read with.

The components with status `not_modelled` have no state, no algorithm the models need, or
are outside the library proper; their notes in `PROJECT.json` say which.

## 6. Plan

Done, in this order because the first is the only concurrent part and the second
what everything else travels in: TaskRunner with TaskPool, Nonce, EnvelopeRouting
with Itinerary, ServiceCore, Content, the JSON forms with identity, peers and
messages, and the helpers with their composition.

Left:

1. Slips nested in slips.
2. Equality of partly filled peers.

Abstract specifications worth adding: a content store whose hash is always of its
body (which Content implements only when the caller regenerates).
