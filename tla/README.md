# MyTinyWebServer: a TLA+ model of the server

This directory models the parts of MyTinyWebServer in which things can go wrong
between two lines of code: the reactor, its thread pool, the request parser and the
choice of the reply, the database connection pool, the logger and the I/O buffer. The
modules are checked with TLC on small instances; theorems about them are checked by
the TLA+ proof system (TLAPS) for every value of their constants. Source paths are relative to the repository.

## Inventory

| part | source | state | operations | what makes it correct |
|---|---|---|---|---|
| WebServer | `src/webserver.cpp` | `_clients`, listening socket, `_statue` | `_InitListenSocket`, `Start` (event loop), `_HandleNewConnection`, `_HandleRead/Write`, `_FunRead/_FunWrite` (on workers), `_Process`, `_CloseConnection` | one thread per connection, no connection forgotten, closed only between tasks, hang-ups noticed |
| Epoller | `src/epoller.cpp` | interest list, event array | `addFd`, `modFd`, `delFd`, `wait` | every event reported once per arming |
| HttpConnector | `src/httpconnector.cpp` | `_status`, read and write buffer, `_iov`, static `user_cnt` | `Init`, `Read`, `Process`, `Write`, `Close` | count exact, nothing left over for the next user of the descriptor |
| ThreadPool | `include/threadpool.hpp` | queue, mutex, condition variable, `status` | constructor (worker loop), `AddTask`, destructor | FIFO, exactly once, no lost wake-up, nothing abandoned |
| SQLPool, `_Login` | `src/sql_pool.cpp`, `src/httpresponse.cpp` | `_conn_list`, `_free_conn`, `used_id` | `Init`, `GetConn`, `ReleaseConn`, destructor; six library calls that may fail | every handle with one owner, given back on every path, no lost wake-up |
| Logger | `src/log.cpp`, `log/log.hpp`, `log/blockqueue.hpp` | bounded deque, `_status`, `_statue` | `LOG_BASE`, `push_back`, `pop_front`, `LogThread`, `Close`, `~Log`, `~BlockDeque` | order, capacity, nobody sleeps with work to do |
| Buffer | `src/buffer.cpp` | array, `_readp`, `_writep` | `Add`, `Read_FD`, `Update_Readp`, `Release_All_Buff` | positions in range, no byte lost or changed |
| HttpRequest | `src/httprequest.cpp` | parser state, method, path, headers, form, flags | `Init`, `Read_Buff`, `_Handle_Form`, `_Handle_Path`, `Select_Form` | ends on every input, nothing of an earlier request shows in the answer to one that is understood |
| HttpResponse | `src/httpresponse.cpp` | code, path, headers | `Init`, `_Handle_Path`, `Set_ContentLength_From_File`, `Head_Write_Buff` | the right page, a file that is there |
| HttpData | `src/httpdata.cpp` | constants | none | - |
| main, MySQL headers | `src/main.cpp`, `outheader/` | none | none | nothing to model |

How they interact: the main thread runs `Start`. It accepts clients, closes those
that hung up, and turns every readable or writeable client into a task for the
thread pool. A worker executes `_FunRead` or `_FunWrite` on the client's
`HttpConnector`, which it uses without a lock, and hands the client back to epoll
with `modFd`. `_FunRead` parses the request; a login takes a connection from the
SQL pool. All threads log, some while they hold the pool's or the SQL pool's
mutex.

What is hard: the hand-over of a connection between epoll, main thread, queue and
workers; edge triggering; events that are stale when they are handled;
notifications outside or inside mutexes; limits (clients, descriptors, event
array, log deque, connections, send buffer); partial writes; library calls that
fail half-way; and the end of the process through exceptions and assertions, which
are active because the build does not define `NDEBUG`. `PROJECT.json` lists these
hazards with their lines.

## Modules

| module | what it is |
|---|---|
| `TaskPool` | what the thread pool promises: a queue, idle and busy workers |
| `ThreadPool` | `include/threadpool.hpp`, one action per stretch between two lock operations; implements `TaskPool` |
| `Connections` | what the reactor promises for each connection: idle, reading, pending, writing, closed only from idle or pending |
| `WebServer` | main thread, Epoller, HttpConnector and the tasks, on top of `TaskPool`'s actions; implements `Connections` |
| `HttpConnector` | `Process`: the parser, the form, the choice of the file, the tests of it and its loading, over sequences of requests on one connector |
| `SQLPool` | connection pool and `_Login` |
| `Log` | block deque, writers, log thread, closing |
| `Buffer` | the buffer as operators on a record, and their callers as actions |
| `*_proofs` | the inductive invariant of a module and its theorems |
| `WebServer_refinement` | the proof that `WebServer` implements `Connections` |
| `SequenceLemmas` | facts about sequences that the proofs share, and induction over the naturals |
| `MC*` | symmetry sets, requests and file systems for TLC |

Operators named `Fault...` are variants of the definition that follows them with
one plausible mistake (a forgotten notification, an off-by-one, a missing reset).
No specification uses them; with one of them in place of the original, TLC finds
the property that guards against it violated.

### ThreadPool

`mtx` is the owner of `Pool::mtx`. A worker is at `lock` (wants the mutex), `top`
(inside the loop with the mutex), `wait` (in `cv.wait`), `run` (executes a task
without the mutex) or `exited`. `AddTask` is three actions: lock, push and unlock,
`notify_one`. `LOG_INFO` with the mutex held has no effect here. A task in
`Throwing` ends the process, since nothing in the thread function catches.
`Destroy` is the destructor; its guard says that the object is not used any more.
`added`, `started` and `finished` are history variables. A task is submitted at
most once, so that identity of tasks means something.

### WebServer

The kernel is modelled by what the code sees of it. A client descriptor is `none`,
`off`, or armed for `in` or `out`. Because of `EPOLLONESHOT` and because only the
task that has the descriptor can consume its condition, "armed and ready" is
stable, and edge triggering needs no extra state for clients. For the listening
socket it does: `edge` is set by an arriving connection and cleared by a report,
so returning from the accept loop early is visible. `EpollWait` reports up to
`MaxEvents` events and stores what they were at that moment in `batch`; the main
thread handles them one by one, in any order, while peers and workers go on.

`accept` may return any free descriptor. `AcceptFull` and `AcceptFails` are the
early returns of the accept loop. `Close` is part of `HandleHup`, as in the code.
A worker reads until the socket is empty (`ReadSome`, `ReadEnds`), processes, and
writes unit by unit (`WriteSome`); `tail` is the rest of the task after the client
has been handed back. The test `ret == 0 && !status` of `_FunRead` is in
`ReadEnds`; it never holds, because `Read_FD` clears the flag only when it returns
-1, so a failed read is processed too and only the hang-up event closes the client. Buffers hold, instead of bytes, whose bytes they are
(`own`, or `old` from the descriptor's previous connection), which is what
`NoCrossTalk` is about.

Left out: a peer's data before `accept` (the same as data right after it), time
(`SO_LINGER`), signals, `epoll_wait` failing, waiting for a database connection
inside a task (the pool of ten connections never runs out with ten workers), and
the bytes of requests: a segment is `ok` or `fatal`. Left out too is `addFd` failing
for a client, which `_AddConnection` ignores (`src/webserver.cpp:137`): the connector
would be open and counted with nobody to hold it, against `SingleOwner`. The kernel
refuses a descriptor only when it is out of memory or watches.

`InitListenSocket` has three outcomes: the socket is registered; something fails,
`_statue` is cleared and `Start` returns at once; or only `addFd` fails. It reports
that as 0, `LISTEN_CLOSE` looks for a negative number, and the server goes on with a
listening socket epoll does not know. `NobodyStranded` is about registered sockets.

### HttpConnector

What `WebServer` calls processing a request is taken apart here. `WebServer` shows
that one thread at a time uses a connector, so this module has one thread and is
about what the connector remembers: method, path, headers and form are overwritten,
never cleared. Received bytes are a sequence of lines, each with its CRLF, and
perhaps a tail without one. The loop of `Read_Buff` compares sizes with 2 only, so a
line is a request line, a header (with the `Content-Type` it sets, if any), blank, or
garbage; `Bytes` gives the lengths up to two. Each turn of the loop is an action:
`LineCut` and `HeaderLineOverrun` are the turns in which `Update_Readp` fails its
assertion, `BadRequestLine` is the early return past `_Handle_Path`, `LastHeaderLine`
the one that takes the last two bytes for the end of the request. `_Handle_Form` is
`FormChar` for every character of the body. An escape keeps its `%` and has its
digits replaced by characters `?` that are not the encoded one (`ConverHex` returns
the code of a digit, and the result is written in decimal). A body that ends inside an
escape is read and written beyond its end, which is undefined: it may go unnoticed
(`BodyLine`) or end the process (`BodyOverrun`).

`Receive` is not exact, because `Read_FD` is not: a read of more than the free space
puts as many bytes behind the request as there were too many (run `buffer_copy`).
`junk` is what is added, empty for a request that fits; how much depends on lengths
that the model does not have, so every request may get any of the `Junks`. They are
without CRLF, which could matter only behind a request that ends inside its headers,
and behind the request as a whole: a request that takes several calls of `readv`, each
with junk behind its own bytes, is left out.

`OpenFails` is a file that is there
and cannot be opened, for lack of descriptors or of permission; it is an end of its
own, since it can meet any request. `Written` happens when the client has taken the
reply and has no fairness.

`Deploy` changes the file system at any moment: the file is looked at by `stat`
(`Located`), by `file_size` (`SetContentLength`) and when it is loaded, and it can be
gone or different each time. `RespondLogin` takes the answer of the database as a
choice; `asked` records what the database was asked, `input` what the client sent.
A request that ends the process here is a `fatal` segment of `WebServer`, every other
one is `ok`.

`Survives` says which well-formed requests (a request line, at least one header, a
blank line, and a body or not) can fail an assertion or be read out of bounds: those
with a single byte behind the blank line, sent or added by `Read_FD`, and those that
end inside an escape. `OnlyMissingPages` is about exceptions: as long as nobody changes
the files, only a missing index, 404 page or login page ends the process.
`AnswerOfRequest` and `OnlyMissingPages` are about request lines that are understood.
Where they do not reach, the model shows what the code does and it is not what the code
means:

* a request line that is not understood makes `Read_Buff` return before `_Handle_Path`,
  whose branch for `400.html` (`src/httprequest.cpp:183`) is never reached; the client
  gets the file of the request before it on this connector (`BadRequestLine`). Only
  `LoginOnlyWhenAsked` holds of it as well;
* a complete GET of 1025 bytes on a new connector gets one byte of junk behind its blank
  line; `Readable_Size() <= 2` then skips two bytes where there is one and the assertion
  of `Update_Readp` ends the process. This is the first exception of `Survives`;
* a user name or a password with an escaped character is looked up as something else,
  although `ConverHex` is declared to convert hexadecimal digits: `FormDecoded` is about
  words that need no escape, and about forms that `Read_FD` adds nothing to, since junk
  becomes part of the password;
* which page answers a login depends on the password of an earlier one (run
  `connector_form`), so `AnswerOfRequest` says only that it is one of the two.

### SQLPool, Log

A critical section that runs with the mutex held and waits only as its last step is
one action. Spurious wake-ups are actions. `Log` keeps the two `notify_all` of
`Close` apart from the critical section before them, and calls `Close` twice: in
`~Log`, and in the destructor of the static deque that follows it. Threads go on
meanwhile, nobody joins them: their steps after `gone` are modelled as if the deque
were still there, where the code has a detached thread use a destroyed object.
`LogThreadEnds` excludes one position: a log thread that has tested
`_statue` and not yet entered `pop_front` when the last notification is sent sleeps
on. `Flush` only takes and releases a mutex and is part of `push_back`. `SQLPool`
connects one by one before anybody may call `GetConn`, as the constructor of
`WebServer` does, and a failure there ends the process. The destructor runs when the
server cannot listen, in two steps: `LibraryEnd` is `mysql_library_end()`, and only then
`CloseConns` closes the connections; what the library makes of that order is outside
the model. `open` is what a thread has opened and not closed, `closes` what the return
at each stage of `_Login` closes, return by return as the code lists it.

### Buffer

Bytes are numbers in order of arrival. `ReadFD` fills the free space, then `buff1`,
then `buff2`, and calls `Add` twice with the same length, as the code does; what the
stack buffers hold beyond the data is `Junk`, by where it comes from and not by its
value: behind `buff1` the bytes may be those of `buff2`, a second copy in the wrong
place. `NothingLost` says with `Carries` that
the data among what was consumed and what can be read is 1, 2, ... up to the last byte
that arrived, each once and in order; put this way, without filtering the sequence, it
can be proved.

## Runs

| run | question | bounds |
|---|---|---|
| `pool` | order, once, wake-ups, shutdown; every task done, every worker leaves; refinement of `TaskPool` | 3 workers, 2 callers, 4 tasks, 1 throws: workers can be idle, busy and heading at once |
| `server_safety` | one holder per connection; refinement of `Connections` | 2 descriptors, 2 workers, batches of 2 out of 3 events |
| `server_full` | client count, reuse of descriptors | limit 1 with 2 descriptors: full, leaked and exhausted; pipelined and fatal segments; replies in one or two writes |
| `server_live` | hang-ups are noticed, requests read, replies sent | 2 connections, 1 worker; replies of two units, send buffers of one: a reply is sent in parts as its peer takes it, or blocks. With send buffers of two the properties hold as well (363,364 states), but that takes more than twice as long |
| `sql` | ownership, wake-ups, cleanup; never all waiting | 5 threads on 2 connections: two can hold, three can sleep |
| `log` | order, capacity, wake-ups, closing; every line printed | 4 writers of one line, deque of 2: two can sleep at once |
| `connector` | which requests end the process; answers, logins, forms; every step uses up a part of the request, the parser ends | any sequence over 18 requests: complete ones for a page, a directory, `/` and `/login` with several forms; without headers, without the blank line, cut, with a body of one, two or three bytes, not understood, pipelined; each as it is or with one of two pieces of junk; two file systems, of which one lacks the page and one the directory's index |
| `buffer_safety` | positions, order of bytes, room | 7 bytes, array of 2, side buffers of 2: grows, compacts, scatters into both side buffers |

Four runs show that the code does not do what a comment in it says; each is a
finding in `PROJECT.json`:

* `server_stranded`: at the client limit the accept loop returns although
  connections wait, and no edge will come for them.
* `server_blocked`: a write that would block aborts the process.
* `connector_form`: a second login on a connector is decided on the password of the
  first, because the last pair of a form is stored only under a new key and nothing
  clears the form.
* `buffer_copy`: a large read leaves bytes in the buffer that nobody sent.

Descriptors and workers are interchangeable, so the safety runs of the server use
symmetry; a run with a liveness property never does. Deadlock is not checked where the system
may come to rest: all tasks done, no peer active, or the process dead.
`MaxBacklog`, `MaxPending` and `MaxLines` bound what peers and writers offer. In
`server_full` a second segment can wait behind the first; in the other runs of the
server `MaxPending` is 1, and the next one arrives once the first has been read. The
second half of `LinesPrinted`, that every writer returns, rests on `MaxLines`: threads
that log without end could overtake a waiting one for ever. `MaxBytes` and the sizes in `Buffer` are scaled down so that
every branch is taken at its boundary.

### Fairness

Weak fairness of every thread that can run: workers in their loop, a call of
`AddTask` that has begun, the main thread, the log thread, a thread inside `_Login`
or `LOG_BASE`, `~Log` and `~BlockDeque` once begun, a request being processed. The operating system's scheduler gives that.
Mutexes and condition variables are not assumed to be fair, spurious wake-ups are
never relied on, and nothing is assumed of peers: neither that they send a request nor
that they take a reply, so `RequestEnds` ends at the reply. `server_live` lets `EpollWait`
report everything that is deliverable, because the kernel serves its ready list in
order, which a choice of subsets does not express.

## Proofs

Every invariant that a run checks and every action property is a theorem as well, and
both refinements are proved for safety. The runs show the properties on
small instances, the theorems for all values of the constants that satisfy the named
assumptions of the modules:

| module | assumption | why the code justifies it |
|---|---|---|
| `ThreadPool` | at least one worker; finitely many threads; workers and callers disjoint | the constructor asserts it |
| `WebServer` | finitely many descriptors and workers; the listening socket is no client | limits of the process |
| `SQLPool` | finitely many threads, at least one connection | `main` asks for 10 |
| `Log` | finitely many writers, a deque of at least one line | the constructor of `WebServer` asks for 1024 |
| `Buffer` | the array and the stack buffers are not empty | both sizes are constants |
| `HttpConnector` | a request is a `Message`, a non-empty sequence with at most one tail, at its end, and what it contains are strings; junk is a non-empty text; a path is a directory or a file | `Process` returns on an empty buffer; only the last line can lack its CRLF |
| `HttpConnector` | `SentAssumption`: a client that is said to send a user name and a password without characters that need an escape posts a form (`Posts`): POST, `Content-Type` of a form last among those it sends, the two words last in the body, behind any fields that end in `&`, have complete escapes and not the key `pwd` | this is what the history variable `input.sent` means; it restricts no other request |
| `HttpConnector` | `StringAssumption`: the literals of the module are strings, and `None` is not | true in TLA+; no installed prover knows it |

Bounds such as `MaxBytes` and `MaxPending` are arbitrary in the theorems.

Every proof has the same shape: an invariant that is inductive, one lemma per action
(or per group of actions that do the same to it), and a theorem for each property.
What the properties need to become inductive is the interesting part.

* `ThreadPool_proofs`: `PoolInv` adds who holds the mutex (`MutexHeld`), that a
  caller inside `AddTask` keeps the pool open and brings a new task (`CallerInv`),
  that a worker has a task exactly while it runs one (`LocalInv`), and that running
  and finished tasks were started and tasks are added once (`HistoryInv`). For
  `WorkConserving` each push is matched by the notification that must follow it, each
  notification by the worker it wakes, and a worker goes to sleep only when it saw the
  queue empty with the mutex held; the proof counts the sets with the finite-set
  theorems. `Refinement` shows that the pool implements `TaskPool`.
* `WebServer_proofs`: `SingleOwner` as the runs state it counts holders. `HolderInv`
  says the same connection by connection: one of armed, reported, queued and worked
  on, and one entry of that kind. It is kept because a client is armed again
  (`modFd`) only by the worker that has it, a report disarms it (`EPOLLONESHOT`), and
  the batch is emptied before the next report; `WorkerInv` ties a worker's position
  to its task and `SocketInv` the interest list to open connectors. `NoCrossTalk`
  depends on who is about to do what: `TurnInv` says that whoever is about to read
  has a connection without a pending reply and whoever is about to write one with a
  reply, and `BufferInv` that a read buffer is empty unless a read task is at work on
  it. So a connection is closed with an empty read buffer and the reply of the
  previous owner is never sent.
* `WebServer_refinement`: `PhaseOf` maps the reactor to `Connections`. `PhaseKept`
  shows that a connection whose tasks, status and pending reply stay the same keeps
  its phase; then every action changes the phase of at most one connection, and in
  the way an action of `Connections` allows. `ServerInv` is needed throughout: the
  phase of a connection with two tasks would be ambiguous.
* `SQLPool_proofs`: `PoolInv` adds what the list is while `Init` builds it
  (`Building`), that free and used connections add up to all (`Balance`), and what a
  thread has open at each stage of `_Login` (`OpenAt`), which each return of `closes`
  has to match; `ReleaseConn` never reaches its `exit(1)` because the id it gives back
  is in `used_id`.
* `Log_proofs`: `LogInv` adds the local variables of the threads. `ConsumerAwake` and
  `ProducersAwake` are proved together with the type invariant, which bounds the deque
  by its capacity.
* `HttpConnector_proofs`: `ConnInv` follows a request through `Process`. While it is
  parsed it is fresh (no task flag, no error code) and has the path of its own first
  line (`Parsing`); then the request (`Parsed`), then the response (`Responded`) says
  what the first line and the file system ask for, as long as no file changes.
  An exception is about a file that is not there (`Missing`), and in the headers of a
  well-formed request there are lines to come, with a body behind the blank line if that
  is next (`HeadersLeft`), since otherwise the header before it would have been taken for
  the last. Three invariants build on this one. `TypeInv` adds that the buffer is always
  a suffix of what was received (`Unread`), from which the types of paths and forms
  follow, and that every step of `Process` shortens the buffer or enters the next stage
  (`Advances`). `SurvInv` adds that behind the headers of a well-formed request only its
  tail is left (`BodyLeft`): a turn that finds fewer than two bytes finds a tail of one,
  and the loop over a form ends inside an escape only if the text does (`SkipRead`).
  `PostInv` follows a request that posts a login: in the headers the announcement of a
  form has been read once its line is passed (`PostHeaders`), so that the body is
  reached with the form alone in the buffer (`PostBody`) and the form has what was sent
  when the request is answered (`PostRead`).

  What `_Handle_Form` computes is a function over the characters of the body
  (`FormLoop`). `LoopIs` shows that its recursive definition has a solution and
  `CharIs` what one turn does. Then three inductions over the position: the local
  variables keep their types (`LoopTyped`); behind other fields the next one begins
  afresh, and none of them was taken for a password, although escapes hide two
  characters each (`FrontRead`); and a word is collected as it was written (`WordRead`).
  `FormRead` puts them together along the text of the form (`TextIs`). Induction is
  `NatSetInduction` of `SequenceLemmas`, stated for a set instead of a predicate and
  proved from the least element of a well-founded set, because the library's induction
  theorems take an operator that the provers cannot instantiate.
* `Buffer_proofs`: `TypeOK` and `NothingLost` are inductive together. The work is in
  the lemmas about the operations: compaction and growth keep the readable bytes, `Add`
  appends, and the scattered read appends data that continues the data before it,
  possibly with junk between and behind (`ReadFDIs`). `RoomIsMade` follows from the
  positions alone.

Only model-checked:

* liveness (`TaskEventuallyDone`, `ShutdownCompletes`, `ImplementsPool` with its
  fairness, `HangupCloses`, `RequestsServed`, `PoolMovesOn`, `LinesPrinted`,
  `LogThreadEnds`, `RequestEnds`), which is outside the prover's reach. `Advances` is
  the part of `RequestEnds` that a safety proof can give: at most as many steps as a
  request has parts, and four more. What remains is that the thread takes them;
* the four statements that the code violates.

## Not modelled

* `outheader/`: the headers of the MySQL client, about 20000 lines of vendored
  declarations and nine tenths of the repository's lines. The server's own code is
  about 1500 lines. The library is external: each of its calls may fail.
* `src/main.cpp`, `include/include.hpp`, `CMakeLists.txt`: no state.
* `BlockDeque::empty`, `full`, `size`, `clear` and `HttpConnector::ClearWriteBuffer`,
  which nobody calls; `_cgi`, which nobody reads, is kept because `Init` resets it.
* `WebServer::GetInstance`: one thread calls it, once.
* Formatting: log lines, dates, status texts, header texts, and with them the number in
  `Content-Length`. `_headers` ends in the blank line (`src/httpresponse.cpp:23`) and
  `Head_Write_Buff` adds another CRLF (`:46`), so that every reply has two bytes more
  behind its blank line than `Content-Length` says; and a file that is replaced between
  `file_size` and the read has another length than announced.
* The memory behind `_iov[1]`: `fileContent` (`src/httpconnector.cpp:121`) is
  destroyed when `Process` returns, and `writev` reads the freed buffer later, on
  every reply with a body. No interleaving is involved, so a model adds nothing.
* Requests that arrive in several segments: the parser keeps nothing between two
  calls of `Read_Buff`; in the model each segment is a request of its own.
* Half-closed peers: `EPOLLRDHUP` is tested before `EPOLLIN`, so the request of a
  peer that shut down its side is dropped. `WebServer` models it; nothing in the
  repository promises otherwise.

## Plan

The components are modelled and the safety properties proved. What could follow: the
liveness properties, with a prover for fairness, starting from `Advances`; forms whose
words contain escapes, once `ConverHex` decodes them; and a request that arrives in
several segments, once the parser keeps its state between two calls.
