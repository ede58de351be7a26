# PSist: a verified model of its key-value store

PSist (`src/Projecto`) is a key-value store made of two processes that keep
each other alive: a *data server*, which holds the data in a hash table and
serves every client connection in a thread of its own, and a *front server*,
which tells clients the port of the data server. Clients use a library of five
calls. Two earlier versions of the store are in `src/Labs` (Lab 6, Lab 7&8).
This directory holds TLA+ modules translated from that code, their
model-checking runs, and proofs.

## The system

| Part | Code | State | Operations |
| --- | --- | --- | --- |
| Hash table | `phash-lib.c` | buckets (chains of key and item pointer), a readers-writer lock and a log mutex per bucket | `read_item`, `insert_item`, `delete_item`, `create_hash`, `delete_hash` |
| Request handlers | `psiskv_server.c` | the request, the item allocated for it | `process_psiskv_prequest`, `write_preq`, `read_preq`, `delete_preq` |
| Log | `log.c` | `log.data`, or `log.data.temp` while the old one is replayed | `log_insert`, `log_delete`, `rename_log`, `delete_log` |
| Backup and recovery | `phash-lib.c` (278-590), `data-lib.c` | `backup.data`, its temporary file | `backup_hash`, `create_hash_from_backup`, `process_hash_log`, `setup_backup`, `clean_up` |
| Data server | `data-server.c`, `data-lib.c` | `port`, `server`, `end`, `args` | accept loop, `answer_call`, `connection_worker`, `wakeup_front_server` |
| Front server | `front-server.c`, `front-lib.c` | `data_server_port`, `end`, `args` | accept loop, `answer_call`, `connection_worker`, `command_handler`, `wakeup_data_server` |
| Client library | `psiskv_lib.c`, `TCPlib.c` | a socket | `kv_connect`, `kv_write`, `kv_read`, `kv_delete`, `kv_close` |
| Clients, helpers | `client.c`, `cli-exe*.c`, `sync_client.c`, `inetutils.c`, `debug.c` | none of their own | drivers and formatting |
| Lab 7&8 | `kvserver.c`, `phash-lib.c`, `log.c`, `psiskv_*.c` | one process: table, log with a buffered stream, backup | the store with a signal handler that saves and exits |
| Lab 6 | `kvserver.c`, `hash-lib.c`, `psiskv_*.c` | one thread: table, one connection | the first store |
| Labs 1 to 5 | `src/Labs` | | exercises on pipes, threads, signals, sockets |

How they interact. A client asks the front server for a port, connects to the
data server and sends requests; a thread runs `answer_call` for it and calls
the handlers, which call the hash table, which calls the log. The two servers'
connection workers exchange `PING` every second over a Unix socket; the data
server also sends its port, the front server `EXIT` when its user types `quit`.
When the connection breaks, the survivor starts the other process. A data
server starts from the backup and the log it finds; when it is told to exit it
writes a new backup and removes the log.

What is hard, and what makes each part correct:

* **Hash table and log.** Threads meet on the chain of a bucket, on the memory
  of items, and between the bucket lock and the log mutex. Correct means: it
  behaves as one map with atomic requests; chains hold a key once; items have
  one owner and are freed once; the changes of a key are logged in order; every
  request is answered.
* **Persistence.** The process may be killed between any two file operations,
  threads serve while it cleans up, and two threads may clean up. Correct means:
  what a client was told survives.
* **File formats.** Records of any length, parsed through fixed buffers.
  Correct means: what was written is what is read, at every buffer boundary, and
  a log that was cut short costs no more than the record it was cut in.
* **Connection workers.** Messages of two processes that die and come back, and
  change roles. Correct means: they never both wait or both speak, a dead peer
  is replaced and a live one is not, the port known is the port bound, `quit`
  ends both.
* **Accept loops.** One `args` shared by all new threads, descriptors that are
  given out again. Correct means: one thread per connection, which closes it.
* **Client library and handlers.** Streams that arrive in portions and end in
  the middle of a message. Correct means: both sides agree where a message ends
  and a call reports a success only when there was one.

`PROJECT.json` lists the hazards of each part at their lines, with the
properties that watch them.

## Modules

| Module | What it is |
| --- | --- |
| `KVStore` | What clients are promised: a map, every request atomic between receipt and answer |
| `HashStore` | The hash table, the handlers with their error returns, and the log appends, step by step under concurrent threads; implements `KVStore` |
| `HashStoreProofs` | Its invariants proved; what is leaked, only failing connections leak, and every step is one of `KVStore`, proved |
| `DataServer` | The life of the process over its files: start, serve, crash at any step, exit while clients go on |
| `CleanUp` | The end of the process with two callers of `clean_up`, on inodes and stream buffers |
| `DataServerProofs` | Exactly which answered changes may be lost, proved |
| `Scan` | The bytes of the files and what `sscanf` makes of them |
| `BackupReader`, `LogReader` | `create_hash_from_backup` and `process_hash_log` through their buffers |
| `Recovery` | `setup_backup`: the one reader after the other, on one table |
| `RecoveryProofs` | What the two readers recover, which logs they do not return from, and what a cut costs, proved |
| `Heartbeat` | Both connection workers, how processes start and end, how the port travels |
| `HeartbeatProofs` | Its safety, proved |
| `Dispatch`, `DispatchProofs` | The accept loops, `args`, descriptors and `answer_call` |
| `Protocol`, `ProtocolProofs` | The client library against the handlers over one connection, byte by byte; its safety, proved |
| `LabServer`, `LabServerProofs` | Lab 7&8: threads, a log stream that writes blocks, signal handler, recovery; what survives, proved |
| `LabStore`, `LabStoreProofs` | Lab 6, which implements `KVStore` over the requests as it reads them, proved |
| `MC*` | Values for the constants, for TLC |

A definition whose comment starts with *Fault* is not part of any
specification: it is a plausible slip in the definition after it, and shows
that a property depends on that definition.

### HashStore

`table[b]` is the chain of a bucket, a sequence of entries `[key, item]`; an
item is an address in `heap`, which holds the bytes of a `value_struct`, or
`NULL` when it is free. `malloc` may return any free address, so that reuse of
a freed item is in the model. `readers`, `writer` and `logger` are the two lock
arrays. `pc[t]` walks the code: `recv`, `lock`, `search`, `act`, `log_lock`,
`unlock`, `log`, `log_unlock`, `send`.

| Action | Code |
| --- | --- |
| `Receive` | `process_psiskv_prequest`, and in `write_preq` the allocation and the receipt of the value; `TCPnrecv` may end with -2, for which nobody tests, and then the item holds bytes that nobody sent |
| `ReceiveFails` | the receipt of the value fails: `write_preq` returns, its item stays allocated |
| `RdLock`, `WrLock` | the `pthread_rwlock_` calls at the start of the three table operations |
| `Search` | the loop along the chain; the pointer it leaves is `cursor[t]` |
| `ReadItem`, `ReadMissing` | the outcomes of `read_item`: a copy that the thread owns, or nothing |
| `InsertNew`, `Overwrite`, `InsertExists` | the outcomes of `insert_item` (the empty bucket and the end of the chain are one: the entry goes last) |
| `DeleteItem`, `DeleteMissing` | the outcomes of `delete_item` |
| `LogLock`, `Unlock`, `AppendLog`, `LogUnlock` | the hand-over from bucket lock to log mutex, the record, the release |
| `Send` | the answer; `write_preq` destroys an item the table did not take, `read_preq` its copy |
| `SendFails` | a `TCPsend` fails: the handler returns at once, `read_preq` without destroying its copy |

The search and the access are separate steps, so that the locks do real work:
with a lock too few, another thread moves the entry under the cursor. Reading
an item that was freed is undefined in C: `BytesAt` lets it yield any value or
`Garbage`, bytes that nobody sent. `lost` records the items that a failing
receive or send left behind. A thread whose connection has ended goes on as the
thread of the next connection. That a failing send raises `SIGPIPE` and ends
the process is left to `Protocol` and `Heartbeat`.

### DataServer and CleanUp

In `DataServer` the files are the variables that survive a crash: `backup`,
`backup_temp`, `log`, `log_temp`, each a content or `NoFile`. `phase` says where
the process is in `setup_backup` (`create_log`, `load`, `replay`, `rename_log`,
`recovered`), in `serve`, or in `clean_up` (`backup`, `remove`,
`rename_backup`, `delete_hash`, `delete_log`, `exit`); each file operation is a
step, and a crash may come between any two of them, also between `remove` and
`rename`. Threads serve writes and deletes in `serve` and throughout
`clean_up`, as they do in the code, and receive new ones after `EXIT`; one that
uses the table after `delete_hash` may end the process (`UseAfterDelete`). The
table is abstracted to a map with a bucket per key: that this is what the hash
table is, and that the log follows it, is what `HashStore` establishes. The
hand-over between two changes of one key, and the item that is gone when its
record is appended, are kept. A garbled record either stops the parser, and the
rest of the log is ignored as in the code, or is taken for a value. `Load` is
`create_hash_from_backup` with its faulty refill: it reads the whole backup, or
leaves a suffix `Unread`, never one of the first `Room` entries; which of the
two, and where, depends on lengths and is computed in `Recovery`.

Other variables only record what the properties speak of. `versions`,
`promised`, `mine`: the contents a key has had, the latest one whose client has
an answer, whose change made it. `garbled`: a record is not what was written.
`orderly`: the last process came to the end of `clean_up`. `volatile`: the keys
whose content is in memory and no file. `behind`: the keys that were changed
after `backup_hash` had passed them. `lost`: the keys that the code itself has
given up, at a death in the wrong phase (`Exposed`) or at the refill.

`CleanUp` looks at `clean_up` alone, with its two callers: the worker after
`EXIT`, and `main` when `accept` fails or a client connects after `EXIT`
(`CallCleanUp`). A file is an inode with names; `fopen(…, "w")` truncates the
one that is there; what was written is in the buffer of a stream until `fclose`
or `exit`; a table that was freed under a traversal yields anything or ends the
process (`WriteBucket`, `UseAfterFree`); a second `delete_hash` aborts it;
`access`, `remove` and `rename` come at the end of `backup_hash`. The actions
have the names of the calls they stand for, and no name is one of
`DataServer`'s, so that `DataServerProofs` extends both.

### Scan, BackupReader, LogReader, Recovery

A byte is a number; a digit is itself, `Blank`, `I`, `D` and `Other` are the
rest of the alphabet, `Junk` is memory that nobody wrote. `ScanU` and
`ScanPair` do what `%u` and `"%u %u%c%n"` do, blanks skipped and the byte after
the size taken whatever it is. `Turn` is one iteration of each reader's loop:
`ReadValue` and `Insert` take a value from the buffer, or past it from the file
and fill the buffer again; `CarryOver` is the refill of the backup reader with
its two buffers, as the code computes it; `Refill` moves what is left of the
log's buffer to the front. `Reached` computes from the lengths alone which
entries come before the first one whose header lies across the end of the
buffer: the content recovered from them is `Base`. `Recovery` starts from every
backup and log within its bounds, the log also cut at any byte or with a record
of unknown type, and runs the readers as `setup_backup` does. `log_status` is
`"done"` when `process_hash_log` has returned and `"crash"` when the `memcpy` of
a negative length has ended the process; `Done` is only the former.

### Heartbeat

`pc[p]` is where the connection worker of `p` is: `connect`, then as a client
`c_send`, `c_recv`, `c_sleep`, `c_close`, or as a server `unlink`, `listen`,
`loop`, `s_accept`, `s_recv`, `s_sleep`, `s_send`, and `clean_up`. `main[p]` is
how far its main thread is with its socket: the data server's counts ports up
from 9999 and stops at 11000 (`FirstOfPorts`, `NextPort`, `BindPort`,
`NoPortLeft`), the front server's has a socket before the variable `server`
names it (`FrontSocket`, `FrontAssign`), so that a child forked in between
inherits it (`held`), and keeps the port of a successor (`FrontNoSocket`). The
two threads of a process run in any order: a worker may connect, send a port
that is not bound yet, or start the other server while `main` has still to do
all of this. `link`, `box`, `pending` and `listener` are the Unix socket: ends,
tokens under way, at whose socket a connection is to be accepted, whose path it
is. A read finds a token or learns that the peer has closed (`PeerLost`); a
write to a closed end raises `SIGPIPE`, which nobody handles (`BrokenPipe`).
`WakeUp` is `fork` and `execv`; `WakeTwin` is the same while a server of that
kind runs, where the model stops. `Quit` is the command, or the signal handled
by another thread; `CallInterrupted` the signal handled by the worker in
`accept` or `read`, which return -1 as the handler is installed without
`SA_RESTART`; `MainLeaves` the main thread that leaves the loop after `EXIT`.
`sent` and `cut` are for the properties: the port that was sent last, and
whether a call was ever interrupted.

The constant `Crashes` says which faults happen. A crash is classified by what
the peer does next: it reads (`"seen"`), it writes (`"unseen"`, which kills it
too), or it waits for the process it has just started (`"unborn"`). `"ports"`:
all ports are taken. `"terminal"`: Ctrl-C reaches both processes.
`"eintr"`: `CallInterrupted`.

### Dispatch

The table of descriptors, `args`, and a thread per connection: `Accept`,
`AcceptFails` (the data server cleans up; the front server does so only if its
`end` is not set), `TakeSocket` (the thread reads `args` when it first runs),
then for the front server `SendPort`, for the data server `HandleRequest`,
`ClientClosed`, `RequestFails` (the return that leaves the descriptor open),
and `Close`. `server` picks one of the two programs at the start; their
differences (who looks at `end`, and when) are guards.

### Protocol

One connection: `out[p]` is what `TCPsend` has still to send, `wire[p]` what is
on its way to `p`, `got[p]` what `TCPnrecv` has collected. `Write` sends any
non-empty part, `Read` takes one byte; a header is three parts with the name of
their field, a value its bytes, so that a reader who is out of step is seen.
`process_psiskv_prequest`, `write_preq`, `kv_write`, `kv_read`, `ReadValue` and
`kv_delete` are the code after a `TCPnrecv` has returned, with its outcomes 0
(`Received`), -2 (`Closed`) and -1 (`ServerGivesUp`, `ClientFails`) and the
tests that the code makes, or does not make, of them. `Filled` is a header whose
last fields were not received: they are what was in memory. `Die` and `SigPipe`
end a process anywhere, `Others` is another connection that changes the item.
`Command` is `client.c`: any call, until an error it takes to be fatal.

### LabServer and LabStore

`LabServer` is Lab 7&8 at the grain of critical sections (`insert_item`,
`delete_item`, `read_item`, `LogLock`, `AppendLog`, `Send`). The log's stream is
never flushed: it writes a block when its buffer is full, wherever that ends.
`buffer` are the records of which a part is still in memory, `torn` says that
the file ends within the first of them. A process that ends without closing the
log loses `buffer`, and `Cut` is what `process_hash_log` will take the part of
the first one for: nothing, the same record with bytes that nobody wrote,
another key of which the digits are a prefix, or the end of the process
(`RecoverCrashes`); `tail` is which. `SIGINT` is handled by any thread wherever
it is (`Signal`: the one inside `malloc` is stuck in `fopen`), the handler
traverses the table without locks while the others go on, and inserts are
replayed without overwriting.

`LabStore` is Lab 6: `Main` accepts a client and serves it until it leaves; the
search of a bucket that is not empty never ends at `NULL`, so that the second
write to a bucket fails, and every failure ends the server (`CleanUp`). The
server reads a header and a value with one `recv` each and tests them for an
error only: `ReadWhole` is the lucky case, `ReadCut` a value that did not come
in whole, or not at all because the client left (its bytes are `Garbage`), and
`ReadAstray` what follows, when the rest is read as headers. The store answers
the requests that it reads; `KVStore` is over those.

## Runs

| Run | Instance | Shows | States |
| --- | --- | --- | --- |
| `store` | 2 threads, 2 keys in one bucket of 2, 1 value and `Garbage`, 3 addresses, 3 requests, any receive or send may fail | chains hold a key once; no item is used after it was freed or freed twice; what is leaked, a failing receive or send has left behind; the log follows the table; the inductive invariant of the proofs; the code implements `KVStore` with its fairness; every request is answered | 321,138 |
| `store_garbled` | violation | a record need not be what the client wrote | |
| `server` | 2 threads, 2 keys, 2 values, 2 requests, 4 starts, 2 crashes at any steps, `Room` 1 | no answered change is lost but of the keys that `lost` names; the old backup goes only when the new one is complete; replay is idempotent; `EXIT` ends the process and leaves a backup and no log | 746,638 |
| `server_twice` | violation | a second crash after a recovery loses what was recovered | |
| `cleanup` | 3 items, one of them in the log only | two callers of `clean_up` in every order: the process ends, and nothing is lost if only one of them got to `fopen` | 866 |
| `recovery` | all backups and logs of up to 4 entries (3 if damaged), buffers of 10 and 9 bytes | exactly the entries before a header that lies across the buffer's end, and all of the log, are recovered, in step; every turn but at two kinds of log moves on; a cut log costs one key if recovery returns | 470,591 |
| `pair_safety` | all six faults, 2 crashes, 3 ports, threads in any order | one token at a time, never both waiting, never both servers, the port that was sent is the one given out, only what is down is started, a server that reads the end of its connection starts the other one | 197,165 |
| `pair_pipe` | violation; `"unseen"`, 1 crash | a crash while the other server is about to write takes that one along | |
| `dispatch` | 3 connections, 2 descriptors, both servers | a thread will close each descriptor, every client is answered | 47,769 |
| `protocol` | values of 3 and 1 bytes, room for 2, 3 calls, both may die anywhere | both sides agree where messages end; items and values are whole; a success reported was one; every call returns | 451,622 |
| `lab` | 2 threads, 2 keys in one bucket of 2, 3 requests, 3 lives, 1 kill, blocks ending anywhere | an orderly end loses nothing that was answered; a kill takes a bucket back to one of its states, but for the key of the cut record; the handler waits for nobody | 5,111,019 |
| `lab6` | 2 clients, 2 keys in one bucket, 2 descriptors, 4 calls, requests in any portions | it implements `KVStore` over the requests it reads; the served client gets its answer | 421,522 |

Bounds and why they suffice. *Store*: two threads make every race of a pair,
writer against writer, writer against log append, overwrite against read; two
keys in one bucket give chains with a first and a last entry; there is an
address more than keys, so that freed ones are reused; three requests let a key
be written, overwritten or deleted, and written again; with `Garbage` there are
two contents to tell apart. The proofs are for any number of each. *Server*:
two keys for a traversal that has passed one of them, and for a backup of which
one entry is read and one is not (`Room` 1; the run of `server_twice` has
`Room` 2, so that the refill has no part in what it shows); four starts and two
crashes for a life after a crash during the recovery from a crash.
`CrashPoints[n]` names the phases in which the n-th crash may come: all of them
in `server`. *Recovery*: the buffers are a few bytes longer than a header, as
the code's are longer than its longest one, and the values are of lengths that
make the end of a buffer fall into a value, between value and header, into a
header and exactly on an end; some values look like records or numbers, and one
key begins with another. *Pair*: two crashes let a relaunched process die again
and roles change twice; three ports are one taken, one bound, and the last,
which the code treats differently. *Dispatch*: one connection more than
descriptors, for reuse and for an `accept` that fails. *Protocol*: a value of
more bytes than one read, one of a single byte, and less room than the longer
one; the second call meets what the first one left on the connection, the third
what both left. *Lab*: keys 1 and 11, since a record cut within the digits of
one may name the other; a third request comes after two that a kill or an exit
may have separated. *Lab 6*: calls enough for one of each client after a
request that went astray; its limit of descriptors is not reached in the run,
and covered by the theorem.
`MaxRequests`, `MaxStarts`, `MaxCalls`, `MaxCrashes`, `MaxLives` and `MaxKills`
are the only counters that the code does not have.

Conditions in properties. Where the code does not survive an event, the
property says so by a variable that only records it, and holds for all else.

| Condition | What it records |
| --- | --- |
| `lost`, `volatile`, `behind` (`DataServer`) | the keys that a crash in an unprotected phase, a refill or a traversal gives up: the property says that these are all |
| `lost` (`HashStore`) | the items that an error return leaves behind: the property says that these are all |
| `garbled`, `spoiled` | a record was read from a freed item; an overwrite, which Lab 7&8 does not replay |
| `Base`, `Reached` (`Recovery`) | the entries that the faulty refill lets through: the property says that exactly these are recovered |
| `damage` | the log was cut, or has a record of unknown type |
| `raced` | `args` was overwritten before it was read |
| `torn` (`Protocol`) | a process died in the middle of a message |
| `cut` (`Heartbeat`) | a signal ended a call of the front server's worker |
| `astray` (`LabStore`) | requests are read from the wrong place in the stream |
| `busy` (`LabServer`) | requests were under way when `SIGINT` came |

Each of these is listed under Findings or in the hazards as something the code
is exposed to. Without the condition the code itself violates the property;
with it the mutants are found.

Fairness. The operating system runs the threads of a process: weak fairness of
the steps of every thread (`HashStore`, `DataServer`, `Dispatch`), of start and
`clean_up` (`DataServer`, `CleanUp`), of workers and main threads
(`Heartbeat`), of both ends and the network (`Protocol`), of Lab 6's server and
of the clients that read their answers (`LabStore`, where reading a value that
did not come in whole is not fair). `LabServer` has none: that its handler
cannot be blocked is an invariant. No lock step has strong fairness; with
finitely many requests weak fairness is enough. Receiving a request,
connecting, `EXIT`, `quit`, a signal, a crash, a failing receive and a start by
the user are the environment's and are not fair. `pair_pipe` is
about the fair specification. The passing runs are of systems that may stop, and
say `CHECK_DEADLOCK FALSE`: when the clients have sent all they may,
when the files are read, when the process has ended, and in `pair_safety` when
a server waits for a child that died before it connected, or there are two of a
kind.

## Proofs

TLAPS checks these for all values of the constants, under the assumptions named
in the modules (at least one bucket, keys are naturals, `NULL`, `None`,
`Garbage` and the like are nobody else, ports are a non-empty range). Every one
goes by an inductive invariant; the properties alone are not inductive.

* `HashStoreProofs` (`TypeCorrect`, `ChainsCorrect`, `NoUseOfFreedItem`,
  `NoDoubleFree`, `Exclusion`, `LogOrder`) from `Invariance`. What `IInv` adds:
  threads keep their request and item (`RequestsKept`); the locks are held
  exactly by the threads whose step says so (`LocksKept`), which gives
  exclusion; what a cursor points at stays there (`CursorsKept`), which makes an
  insertion after a failed search keep keys unique and an overwrite free the
  right item; and `ChangesKept`: of the threads on their way to the log with one
  key, the last to have changed the table is the one that waits for the mutex,
  and the table shows its change until it has appended. The latter is why the
  mutex is taken before the bucket is released.
  Its last sections build on that. `LeaksFromFailures`: every allocated item has
  one owner who will free it (`InTable`, or a thread), or is in `lost`, which
  only failing receives and sends add to. `Refines`: the safety part of
  `ImplementsKVStore`; it needs `ItemsFilled` (an item of the table, or of a
  thread past its receipt, has the bytes of a value) and that a well-formed
  chain determines the content of a key.
* `DataServerProofs`: `TypeCorrect`, `OrderlyExit`, `Durability`, `BackupReady`
  and `ReplayHarmless`, with crashes at any steps, clients that go on after
  `EXIT`, and any `Room`; there is no assumption about when the process dies.
  `Durability` is `OnlyExposedAreLost`. The invariant says what each file holds
  in each phase (`FilesKept`), that changes on their way to the log are in their
  threads in order (`Ordered`), and, unless a record is garbled, `Kept`: of a
  process that leaves nothing behind (`Clean`), the files hold what was
  promised; of one that recovers (`Recovery`), base and records replay to it; of
  one that serves (`Service`), the log replays to the versions made, less those
  on their way to the log (`Recorded`), and the table holds the latest (`Held`);
  of one that leaves (`Saved`), the backup written so far is the table's but for
  the keys that were changed behind the traversal. All of them are about the
  keys that are not in `lost`, so that the theorem says both what is lost and
  that nothing else is. Lemmas about `Replayed` say what one more record does,
  and that a log replayed over its own effects changes nothing.
  The last section is about `CleanUp`: `CleanUpTypeCorrect`, for a table of any
  size.
* `RecoveryProofs`: `RecoversReachedHolds`, `InStepHolds`, `ReturnsHolds`,
  `CutCostsOneKeyHolds`, for any keys and values, any number of entries and
  records, and buffers of any size into which a header fits twice (backup) or
  once (log), which is so in the code: 1024 and 100 bytes, headers of at most 24.
  `BackupInv` says that `aux` is at an entry, with what was read of the file in
  front of the terminating zero and the rest not read yet (`Holds`), or that a
  part was carried over and cannot be scanned (`CannotScan`); that is why what
  comes after it is the end of the loop and not an entry of other bytes, and why
  the entries read are exactly those of `Reached` (`HasReached`). `LogInv` says
  that buffer, the rest of the file and what the file has lost (`gone`) together
  are the records from the n-th on (`AtLog`); `LogPhase` that the table is what
  the first n records make of what the backup gave. A turn then moves on by one
  record (`Moves`) or ends where the file ends within one (`Breaks`), having
  altered one key; the process only ends there if what is cut is the value of an
  insertion (`InValue`). The first half of the module is what `sscanf` makes of a header
  and what follows it: a header is scanned whatever the value behind it looks
  like (`ScanWhole`), and a part of a header is not scanned, or is the key of a
  deletion with digits missing.
* `DispatchProofs`: `NoLeak`. Needed: a thread that has not read `args` is the
  only one and finds its own descriptor there (`Handed`), a connection is
  accepted once, and every descriptor's thread keeps it (`Kept`,
  `ServesItsOwn`).
* `HeartbeatProofs`: `OneToken`, `NoDeadlock`, `OneServer`, `NoTwin`,
  `PortsAgree`, with every fault, for any port range, and with no assumption on
  how threads are scheduled. `Roles` says, for each place a worker may be at,
  where its peer can be and which ends are open; `Turns` that exactly the one
  whose turn it is has a token or is to send it; `Orders` that `EXIT` and `OK`
  come only from who has `end`; `Waits` that a connection in the queue has
  somebody to accept it. `Hangs`, `Shut` and `Lost` describe what a signal that
  ended a call leaves: a connection with one end in use, and nobody at the other.
  For the port, `Resends` says that a process being started is owed it, and
  `Tells` that a front server which is owed nothing has it, or has it next in
  its buffer.
* `ProtocolProofs`: `StaysInStep`, `ItemsAreWhole`, `ReadsAreWhole`,
  `ChangesAreTold`, for any set of values, any room and any number of calls.
  The invariant is about streams: what a side has collected, what is on its way
  to it and what its peer has not sent yet (`Due`) together are the message it
  waits for, or the start of it if the peer is in `torn` (`Arriving`).
  `ServerSide` and `ClientSide` say which message that is at each place, so that
  between two calls nothing is due in either direction, and an answer is only
  under way when the request has been taken off the wire whole. `Ends` says that
  who is down has nothing left to send. One lemma per action; those about cutting
  a sequence (`HeaderArrived`, `ValueArrived`, `CutShort`) are where whole
  messages, and messages cut short, come from.
* `LabStoreProofs`: `Refines`, the safety of `ImplementsKVStore`, whatever
  portions requests come in; a chain with one item of a key, and nobody with an
  answer without a request (`AnswersKept`).
* `LabServerProofs`: `AnswersSurvive` and `KilledRecoversThePast`, for any
  threads, keys and number of buckets, and wherever the stream's blocks end.
  `Orderly` says for each phase what the next start will read, as long as nobody
  is killed; `Left` that who leaves without requests has idle threads, and a
  backup by its name before the log goes. `Serves` is about a server that was
  never killed and has overwritten nothing: every prefix of its records (file
  and stream together), replayed onto the backup, makes of each bucket one of
  the states it was in (`InTime`, `Prefixes`), and the bucket now is what the
  records make of it, once the thread that has its mutex has written its record,
  and then the thread that has its lock (`Follows`). That is where the order of
  the two locks is used; `Exclusive` says that each has one owner. A kill keeps
  a prefix of the records and a part of one more, which recovery reads as a
  record that alters one key at most: what it gets is a past state but for that
  key (`Near`), so `Recovers` follows.
  `Replayed` is a recursive function over the records. That there is such a
  function, and only one, is proved by the least record at which it fails
  (`LeastNatural`, from `WFMin`): the library's induction rules cannot be used
  here, a least element can.

Every safety invariant that a passing run checks is stated by a theorem, but
for two: `HandlerWaitsForNobody`, which is about `ENABLED`, and
`LeavesEverything`, which is model-checked for tables of three items. Type
invariants are proved rather than run.

Model-checked only: liveness (also that the readers of `Recovery`, each of whose
turns takes something, come to an end), the fairness part of the refinements and
`ENABLED`, which are out of the prover's reach, and the three violations.

## Findings

Three runs show disagreements with what the report says:

1. `insert_item` logs from an item that another thread may have freed
   (`store_garbled`; `phash-lib.c:213`): *"the log stores all successful write
   and delete commands"* (`Relatorio.tex:150`).
2. Recovery empties the log without making a backup, so a second crash loses
   what was recovered (`server_twice`; `data-lib.c:236`): *"to maintain data
   between data server executions"* (`Relatorio.tex:149`).
3. A server that crashes while the other one is about to write takes it along,
   as nobody handles `SIGPIPE` (`pair_pipe`; `TCPlib.c:66`): *"the other
   server's connection worker will issue the pull up command"*
   (`Relatorio.tex:302-305`).

More were met on the way. They are in the models, and the properties name them
(last column); several contradict the report or a comment too.

| Where | What | Against | In the model |
| --- | --- | --- | --- |
| `phash-lib.c:316` | the new backup is ready when the old one is removed, but not at its name: a crash in between leaves none there, and `setup_backup` does not look for the other | `Relatorio.tex:165-166`, meant to prevent problems "with faults during this process" | `Exposed`, `NewBackupReady` |
| `data-lib.c:26` | `clean_up` does not stop the threads that serve: what they change behind `backup_hash` is lost with the log | `Relatorio.tex:149` | `behind` |
| `phash-lib.c:404` | the refill of the backup reader carries over the bytes already used, not those left: the entry whose header lies across the end of the buffer, and all behind it, are not read | `phash-lib.c:403`, `Relatorio.tex:149`, `298` | `Unread`, `Reached` |
| `data-server.c:60` | two callers of `clean_up` truncate each other's file, and free twice | | `LeavesEverything` |
| `phash-lib.c:542` | a record of unknown type is looked at for ever | | `Returns` |
| `phash-lib.c:556` | a log that ends in the value of an insertion may make the number of bytes left negative; the process ends, at every start again, since the log is kept | `data-lib.c:234`, "Ignoring" | `CutInValue`, `Returns` |
| `data-lib.c:145` | a process that dies before it connects is waited for for ever | `Relatorio.tex:223-226`, "re-launch it" | `"unborn"` |
| `data-lib.c:99` | the port is sent as soon as it is not -1, though not bound, and only once; the front server takes 9999 for none | `Relatorio.tex:229` | `PortPassedOn` |
| `front-lib.c:175`, `180`, `237` | `SIGINT` that the worker handles in `accept` or `read` ends the call: it leaves without sending `EXIT`, and the data server starts the front server again | `Relatorio.tex:252` | `CallInterrupted`, `cut` |
| `front-lib.c:46` | a child forked while the socket has no name yet inherits it, and keeps the port | `Relatorio.tex:306`, "closes the binded servers" | `held`, `FrontNoSocket` |
| `data-server.c:16` | Ctrl-C at the terminal ends the data server without `clean_up` | `Relatorio.tex:252` | `"terminal"` |
| `psiskv_server.c:128`, `194`, `203` | the error returns free neither the item nor the copy | | `lost`, `OnlyFailuresLeak` |
| `psiskv_server.c:128`, `psiskv_lib.c:195` | only -1 is looked for: a value cut short is stored, or returned as a success | | `torn`, `Garbage` |
| `psiskv_lib.c:128` | the test for -2 asks for -1 again: an answer cut short is read over the request's own bytes | | `torn` |
| `data-server.c:51`, `front-server.c:53` | `args` is overwritten before it was read: two threads serve one client, one client has none | | `raced` |
| `data-lib.c:202` | a failed request returns without `close`, and without descriptors the server ends | | `DescriptorsClosed` |
| Lab 7&8 `log.c:40` | the stream ends its blocks within a record, and recovery misreads that or crashes at it (`phash-lib.c:563`) | | `Cut`, `RecoversThePast` |
| Lab 7&8 `kvserver.c:56` | the handler needs locks that its own thread may hold | | `"stuck"` |
| Lab 7&8 `psiskv_server.c:132`, `psiskv_lib.c:152` | one read is taken for the whole value | | not modelled |
| Lab 6 `psiskv_server.c:67` | the same: bytes that did not come are stored as they are, and those that come later are a header | | `ReadCut`, `ReadAstray` |
| Lab 6 `hash-lib.c:64`, `psiskv_server.c:134`, `kvserver.c:100` | a second key of a bucket, or a delete of nothing, ends the server; descriptors are not closed | | `write_req`, `delete_req`, `PeerClosed` |

## Not modelled

* `inetutils.c`, `debug.c`: formatting, no state. `sync_client.c`, `cli-exe*.c`:
  test drivers that call the library in a loop.
* `kv_connect`: one exchange with the front server and one `connect`. What the
  front server sends is in `Heartbeat` and `Dispatch`.
* The calls and the client library of Lab 7&8, of which `Protocol` models the
  successors; Labs 1 to 5.
* Failures of `malloc`, of `fopen` and of disk writes, which the code does not
  handle.
* Two servers of one kind: after a cut call the front server's worker may start
  a second data server, and a user may start one at any time. What the two do to
  each other's files and ports is beyond `Heartbeat`, which stops there
  (`"twins"`).
* The default readers-writer lock prefers readers: with clients that never stop
  reading, a writer may starve. The runs have finitely many requests and do not
  show it.

Four hazards have no property: writer starvation (`phash-lib.c:137`), as above;
the race for `args` (`data-server.c:51`), against which the code does nothing
that could be stated; the child that dies before it connects
(`data-lib.c:145`), and the inherited socket (`front-lib.c:46`), to which the
code has no answer. The last three are in the models, where the other
properties hold with them or until they happen.

## Plan

The modules and theorems that were planned are there. What would go further:
that `load` and `replay` of `DataServer`, and the table it takes for granted,
are what `Recovery` and `HashStore` compute. The theorems of each say the same of
the table (`Replayed`, `Reached`; `LogFollowsTable`), but no module composes
them.
