# defold-extension-sse in TLA+

A model of the Server-Sent Events extension for the Defold engine: its core in
C++, its four event-stream parsers, and the six adapters that read a stream
(libcurl, Defold's connection pool on Linux, WinHTTP, OkHttp on Android,
NSURLSession on iOS, fetch on HTML5). The modules are checked with TLC on small
instances, and their safety properties are proved for every size with the TLA+
proof system.

All paths below are relative to `src/`; `sse.cpp` and its neighbours are in
`sse/src/`.

## 1. The system

A Lua script calls `sse.connect(url, options, callback)` and gets a number, the
*handle*. The core keeps a record for it and asks the platform's *adapter* to open
the stream. From then on the adapter, on its own thread, pushes events into one
capped queue that all connections share; once per frame the core takes everything
out of the queue and calls the Lua callbacks, which may connect, disconnect or
fail. `sse.disconnect` and the end of the engine stop the adapter.

```
  Lua script <--- callbacks --- core (main thread) <--- capped queue --- adapter threads
      |                          ^      |                                  |   ^
      +--- connect/disconnect ---+      +--- SSE_Platform_* functions -----+   |
                                                              parser <--- bytes of the response
```

### Components, their state and operations

| component | code | state | operations | what makes it correct |
|---|---|---|---|---|
| teardown guard | `sse.cpp:44-74`, `703-795` | `g_SSEActive`, `g_SSEEntrants`, two mutexes | the guarded entry points; `AppInitializeSSE`, `AppFinalizeSSE` | no late call meets a deleted mutex; the shutdown ends |
| core | `sse.cpp`, `sse_private.h` | registry of connection records, queue, overflow list, the two swap arrays | `SSE_Connect`, `SSE_Disconnect`, `SSE_IsConnected`, `SSE_QueuePush`, `SSE_SetConnected`, `SSE_FlushQueue`, `SSE_DispatchEvent`, `InitializeSSE`, `UpdateSSE`, `FinalizeSSE` | memory safety under re-entrant Lua; order; every gap is announced; a disconnect is final |
| parser | `sse_parser.cpp/.h`, and the adapter callbacks it calls | the line, the event being built, the id buffer, what it was at the block's start | `Feed`, `ProcessLine`, `Dispatch`, `PoisonEvent`, `Reset` | an event is exactly its block; the resume position never passes an event that was not delivered |
| libcurl adapter | `sse_desktop.cpp:37-672` | per connection: `m_Stop`, `m_Finished`, `m_Opened`, `m_Status`; the zombies | worker loop, libcurl's callbacks; `SSE_Platform_Connect/Disconnect/Update/Finalize` | no record is freed under its worker; no frame waits for a worker; OPEN and CLOSED are told |
| reconnect delay | `sse_desktop.cpp:145-178`, `420-487` | retry interval, failure count | `SSEDesktop_ComputeRetryDelayMS` | grows, is capped, never overflows; failures are counted |
| Linux adapter | `sse_connection_pool_impl.h` | as libcurl, plus `m_CancelFlag` and the pool connection | worker loop, dial, request, reading; a disconnect that joins | every pool connection is closed exactly once; the join ends |
| chunk decoder | `sse_connection_pool_impl.h:492-635` | `m_State`, `m_Remaining`, `m_Line` | `SSEDM_FeedChunkedBody`, `SSEDM_ParseChunkSize` | the body is the same however the reads cut it |
| response head | `sse_connection_pool_impl.h:637-821` | `header_buffer`, `headers_done`, `chunked` | `SSEDM_FindHeaderEnd`, `SSEDM_ParseResponseHeaders`, `SSEDM_ReadResponse` | the body begins at the same byte however the reads cut the response |
| WinHTTP adapter | `sse_desktop.cpp:674-1580` | as libcurl, plus `m_Session`, `m_Connect`, `m_Request` | as libcurl; the shutdown closes the handles of a worker that is blocked | no handle leaks; the shutdown waits for no server |
| Android adapter | `sse_android.cpp`, `SseClient.java` | `stopped`, `currentCall`, the watchdog and its flag, the scheduler | OkHttp's callbacks, watchdog, reconnect, `disconnect` | a failure is told once; a timeout excludes a stream; every failure leads to a retry; nothing stays behind |
| iOS adapter | `sse_ios.mm` | the serial queue, `stopped`, session, task, three flags of the attempt | delegate callbacks, watchdog, reconnect, teardown | a failure is told once; the client is deallocated, and not before its last report |
| HTML5 adapter | `sse_html5.cpp` | the client object: `stopped`, controller, watchdog | `connect()` between its awaits; the engine's calls | a stopped client is silent; a failure is told once |
| ported parsers | `SseClient.java:347-520`, `sse_ios.mm:90-367`, `sse_html5.cpp:138-249` | a null pending id, the id at the block's start, what an attempt committed | as the C++ parser | they are that parser, but for how they count a text's length |
| stubs, libcurl declarations | `sse_null.cpp`, `sse_desktop.cpp:1582-1604`, `sse_curl_shim.h` | none | refuse every connection | |

The components meet in three places:

* **`sse_private.h`, downwards**: the core calls `SSE_Platform_Connect`,
  `_Disconnect`, `_IsConnected`, `_Update` and `_Finalize` on the main thread.
* **`sse_private.h`, upwards**: adapters call `SSE_EnqueueOpen`, `_Message`,
  `_Error`, `_Closed` and `SSE_SetLastEventId` from any thread. Every one of them
  passes the teardown guard and takes one of the two mutexes.
* **the parser's callbacks**: `SSEDesktop_ParserEvent` and its copies push the
  event, and only move the resume position when the queue took it.

### What is hard about it

* adapter threads push at any moment: before `SSE_Connect` has returned, after
  `sse.disconnect`, after `FinalizeSSE`, during `AppFinalizeSSE`;
* Lua runs in the middle of the dispatch loop and may disconnect any connection,
  the one being dispatched included, and connect new ones;
* the queue is capped, for OPEN and CLOSED too, and a lost event must be noticed
  by the script and by the resume position that a reconnect sends;
* the worker reads its stop flag and acts on it later;
* a finished worker's memory is freed by another thread;
* on Android, iOS and HTML5 a client outlives its disconnect, and on the first two the
  engine's shutdown too;
* watchdogs give up on an answer that is just arriving;
* bytes arrive cut at any place; lines, events and chunk sizes have limits;
* an engine reboot runs the whole life cycle again in one process.

`PROJECT.json` lists every such hazard with its line, and the properties for it.

## 2. The modules

| module | what it models | a step is |
|---|---|---|
| `SSEGuard` | the teardown guard | one access to an atomic or one mutex operation |
| `SSECore` | registry, queue, dispatch, Lua API, life cycle | a critical section, or the main thread's way from one Lua call or critical section to the next |
| `SSEParser` | the parser and the commit of the resume position | a line |
| `SSEStream` | the adapter contract: what `sse_private.h` expects of any adapter (abstract) | a call across that interface, or the decision to make it |
| `SSEDesktop` | the libcurl adapter | a critical section or a callback of libcurl |
| `SSERetry` | failure count and delay | an attempt, its verdict, a pause |
| `SSEPool` | the Linux adapter | a critical section or a socket call |
| `SSEChunked` | the chunk decoder | a read of the socket, or a pass of the decoder's loop |
| `SSEHeaders` | where a response's head ends, and what it says | a read of the socket |
| `SSEWinHttp` | the WinHTTP adapter | a WinHTTP call, a look at the stop flag, a critical section |
| `SSEAndroid` | the Android adapter | a `synchronized` block, a report, or a look at `stopped` |
| `SSEiOS` | the iOS adapter | a block of the queue up to its look at `stopped`, or a report behind it |
| `SSEHtml5` | the HTML5 adapter | the function's way to its next report, look at `stopped`, or await |
| `SSEPorts` | the parsers in Java, Objective-C and JavaScript | a line |
| `SSEReboot` | core and clients across reboots of the engine | a call across `sse_private.h`, or a step of the life cycle |

The `MC...` modules instantiate the others for TLC:

| module | checks |
|---|---|
| `MCSSELifeCycle` | `SSEGuard` or `SSEReboot` |
| `MCSSECore`, `MCSSEDesktop`, `MCSSEPool` | the module of that name |
| `MCSSEParsers` | `SSEParser` or `SSEPorts` |
| `MCSSEAttempt` | `SSEHeaders`, `SSEChunked` or `SSERetry` |
| `MCSSEAdapters` | `SSEAndroid`, `SSEiOS`, `SSEHtml5` or `SSEWinHttp` |

Where an `MC...` module has several, which share nothing, a variable chosen in the initial state (`side`,
`language`, `stage`, `platform`) says which of them the behaviour is one of; the variables of the
others stay in one of their initial states, where all their properties hold and nothing they owe by fairness
is enabled. The state space is the sum of theirs, and not the product. Properties of an instance get a name of
their own there (`IOSToldOnce` is `ToldOnce` of `SSEiOS`).

The `...Proofs` modules hold the theorems. `SSECoreProofs`, `SSEStreamProofs`, `SSEDesktopProofs` and
`SSEPoolProofs` extend the module they are about; `SSELifeCycleProofs`, `SSEParserProofs`,
`SSEAttemptProofs` and `SSEAdaptersProofs` extend the `MC...` module instead, so that a theorem states the
very definition that the run checks (`IOS!Spec => []IOSToldOnce`).

Definitions that begin with the comment "Plausible fault" are not part of any
specification: each is a faulty form of the action or operator next to it, which
shows, put in its place, that a property can fail.

How the modules fit together:

* `SSEDesktop`, `SSEPool`, `SSEWinHttp`, `SSEAndroid`, `SSEiOS` and `SSEHtml5` each contain
  `INSTANCE SSEStream WITH ...`: a mapping of the adapter's state to the contract's.
  `StreamContract` is the contract's specification under this mapping. Two constants say where
  an adapter promises less: `Late` on iOS, where data that waits on the queue is reported whatever
  the stop flag says, and `Trailing` on Android, where the watchdog's thread may push its error
  after the other thread's CLOSED.
* `SSEReboot` composes the contract in its weakest form (`Late` and `Trailing`) with the core's
  handles, registry and queue, through several runs of the engine. What holds there holds
  with each adapter, as each one implements the contract.
* `SSEPorts` contains `INSTANCE SSEParser WITH ...`: the C++ parser, with its lengths taken in UTF-16 units, is the
  specification of the others.
* `SSECore` takes *less* for granted than the contract: its adapters push anything
  at any time, long after a disconnect. What is proved of the core thus holds with
  every adapter.
* `SSECore` treats a cross-thread call as one step. `SSEGuard` is about what
  happens inside the call, before and after the critical section.
* `SSEParser` gets lines; `SSEChunked` is about the bytes they are made of, and `SSEHeaders` about
  where those begin.

### From the code to the model

**`SSEGuard`.** `call[t]` follows `SSECallbackGuard` and the lock in an entry
point: `Register` is its `fetch_add`, then `g_SSEActive` is read, then the mutex
is locked, released, and the count goes down. `AppFinalizeSSE` is split at the
store to `g_SSEActive`, each look at the count, and the deletion of each mutex.

**`SSECore`.** A connection record is its handle: fields that are flags are sets of
handles (`connected`, `userClosed`, `dispatching`, `destroyLater`), `live` is what is
allocated, `registry` what `m_Connections` holds. `batch` and `overflowBatch` are the swap
arrays, `phase` and `cur` where `SSE_FlushQueue` and `SSE_DispatchEvent` are. Lua may
run (`LuaRuns`) in a callback or between two updates. An event is its handle and its
number in that connection's order; `sent`, `last`, `dropped`, `gapTold`, `told` and `says`
are history. `SetupCallback` (`sse.cpp:426`) is taken to succeed: what makes it fail is the end of the script, which
`IsCallbackValid` has just ruled out (`:412`), and no Lua runs between the two. `OwnState` chooses between the two kinds of `SSE_Platform_IsConnected`:
the desktop's, which asks the platform's own record, and the one of Android, iOS
and HTML5, which returns `m_Connected`.

**`SSEParser`.** A data line is its length; the value of an `id:` or `event:` line
is the number of the block it stands in, so that the state tells where a value
came from. `block`, `lines`, `lost`, `droppedAt` and `delivered` are history. The queue
may refuse any event (`EventDropped`); an attempt may end anywhere (`Restart`).

**`SSEDesktop`** and **`SSEPool`.** `worker[h]` is the place of the worker's thread,
`main` and `subject` the place of the main thread and the connection it works on. Every
look at the stop flag is a step and what follows it another. libcurl and the network
may call back in any order, and end or fail at any moment; the HTTP status is "2xx" or
"other". In `SSEPool` `held` are the connections with `m_Connection` set and `live` those
whose pool connection is dialed and not closed.

**`SSERetry`.** `RetryDelay` is the function of the code with C's integer division;
the clock's contribution is a choice of per mille between -200 and 200. `streak` and
`skipped` are history: the failures there really were, and whether one of them ended
before its transfer.

**`SSEChunked`.** `FeedChunkedBody`'s loop, one pass a step, over bytes of eight kinds
(three digits, CR, LF, blank, semicolon, any other). `SizeMax` is SIZE_MAX. The reference,
`Meaning`, reads the whole body at once, recursively.

**`SSEHeaders`.** A response is a sequence of five tokens: CR, LF, a status line's beginning, the
header for a chunked body, any other text. What arrives as body is appended to `fed`; `wire` is history.

**`SSEWinHttp`.** One connection. A handle is 1 (session), 2 (connection) or 3 (request); `open` are
those that exist, `published` those in the record, `mine` and `taken` what the worker and the main
thread are about to close. A blocking call returns a success only on a handle that is open.

**`SSEAndroid`.** `at[t]` is the place of OkHttp's thread and of the scheduler's, `tasks` what the
scheduler holds. `tells` and `clean` are history: how often the attempt as a whole was reported as failed,
and whether its stream came to its end. `idFits` tells whether OkHttp takes the last event id as a header.

**`SSEiOS`.** `queue` and `delayed` are the blocks of the serial queue and of `dispatch_after`, `at` is where the
running block is, `task[a]` what NSURLSession does for attempt `a` (external: it answers, delivers and
ends at any moment, and its callbacks keep that order). The client is freed when neither a block, a session nor
the engine refers to it.

**`SSEHtml5`.** `at` is where `connect()` is. In the places of `Suspended` it awaits something, and only there
the engine's calls and the timers come in. After the abort of its controller a fetch or read can only reject.

**`SSEPorts`.** `port` says which parser it is; they differ in when an id is committed (at once, or when the
attempt is complete on iOS), and in what they count. The C++ parser counts bytes, against one cap for a line and for
an event's data. The ports count the data in the UTF-16 units of their strings (`SseClient.java:406`, `sse_ios.mm:233`,
`sse_html5.cpp:183`); a line in bytes (Java and iOS) or in units (`sse_html5.cpp:379`, `:387`), and in Java a line of
just the cap's bytes is too long already (`SseClient.java:232`, `:240`). So a text (`Texts`) has two lengths, and a line
(`Lines`) is its value and the rest of it; `TooLong` and `Overflows` are the two caps. `named`, `bytes`, `longest` and `wide` are
history: the name the block's lines gave, the bytes of its data and of its longest line, and whether it has a line of more bytes than
units. A line that is not UTF-8, which only iOS refuses, is not among the steps.

**`SSEReboot`.** A client is one `sse.connect`; `handle[c]` is its number, which another client may have had. The queue
holds handle and sender. `Quiesces` chooses between the adapters whose `SSE_Platform_Finalize` waits (or that are
silent anyway, on HTML5) and the two that do not.

## 3. The runs

All bounds are in the configurations. `CHECK_DEADLOCK FALSE` is set where the model
may really stop: the bound on handles, events, attempts, blocks or bytes is used
up, the extension is closed and nobody starts it again, or the one client of an adapter's module is gone.
`MCSSELifeCycle` is checked for deadlock: `SSEGuard` never stops, and `SSEReboot` only at its last start (`Ended`).

| run | asks | bounds |
|---|---|---|
| `lifecycle` | can a platform thread meet a deleted mutex; does the shutdown end; does a callback get its own stream's events only? | 3 threads: one preempted between count and flag, one holding a lock, one arriving late, start-ups and teardowns without a bound; 2 clients in the same run of the engine or in two, 3 starts, a queue of 3 |
| `core` | memory safety, no leak, order and gaps, final disconnect | 2 handles (a callback that disconnects the other connection, and connects it), queue of 2, 3 events per adapter (one queued, one dropped, one after the gap) |
| `core_live` | does every queued event and every drop reach the script? | 1 handle, queue of 2, 4 events |
| `parsers` | whole events, and the resume position; are the three ports the C++ parser, and how far apart do their caps lead? | C++: a cap of 3 bytes, which two empty lines nearly fill; 4 blocks: a loss, a commit after it, a second attempt; retry values below, in and above the range. Ports: a cap of 4, 3 blocks, values of 0 to 4 bytes: a line of just the cap, one beyond it, one character of two bytes and one unit, one of four and two, so that data and lines are over the cap in bytes and not in units |
| `attempt` | where the body begins, what it says, how long to wait, each against a reference | every response of up to 8 tokens in reads of 1 to 3: both delimiters are cut at every place, and a body with a blank line of its own fits; a head of at most 7 tokens, in which no header for a chunked body fits (that `chunked` is right is proved, for every length: `HeadsAreCut`). Every chunked body of up to 8 bytes of 8 kinds, reads of 1 or 2; size lines of up to 4 bytes; SIZE_MAX = 18, so that two digits overflow or just fit. The delay with the constants of the code; option values at both ends of the range and beyond, and the largest `int`; 11 failures, two more than the last that changes the delay |
| `desktop` | the libcurl adapter against the contract, to its end, and no record freed under its worker | 1 connection, 3 attempts: opened, failed, and one after both |
| `pool` | the Linux adapter against the contract, to its end, and who closes a pool connection | 2 connections competing for 1 slot of the pool, one of them with a second attempt |
| `adapters` | told once; timeout or stream; the contract; nothing left; every attempt leads on; who closes the WinHTTP handles, and does the shutdown abort every blocking call? | 1 client of one platform. Android, HTML5 (with and without streaming) and WinHTTP: any number of attempts. iOS: 3 requests, as a watchdog of an earlier request may meet a later one; one piece of data on the queue |
| `core_mobile` | *violation*: a disconnected handle reads as connected | 1 handle |
| `pool_blocks` | *violation*: a disconnect may wait for a dial nobody cancels | 1 connection, 1 attempt |
| `odd_id` | *violation*: no request after an id that does not fit a header | 1 client of `SSEAndroid` |
| `reboot_mobile` | *violation*: an event of an earlier run where the shutdown does not wait | as `lifecycle` |

No run uses symmetry.

The properties TLAPS proves and TLC has little to add to (type invariants, and those of section 5's
second table) are not repeated by a run.

The handles and connections interact in pairs only (the dispatching one and another;
the one being joined and another; the holder of the pool's slot and another), which
is why two are enough; the proofs of section 5 remove the bound for the safety
properties.

### The fairness assumed

* `SSECore`: `WF(MainStep)`. The engine calls `UpdateSSE` every frame, and Lua callbacks
  return. Scripts need not do anything; adapters need not push.
* `SSEGuard`: every thread inside an entry point goes on, and `AppFinalizeSSE` does; no
  thread has to call in, and the engine need not shut down.
* `SSEDesktop`: threads run, the engine calls `UpdateSSE` every frame, and libcurl calls
  its progress callback about once a second, so that a worker sees its stop flag inside
  a transfer. No server has to answer, nobody has to disconnect. `OwnStep` holds what
  is fair, `WireStep` what is up to the network.
* `SSEPool`: threads run; a dial has a timeout of 15 s (`SSE_DM_CONNECT_TIMEOUT_US`), a wait for the socket
  one of 100 ms. `OwnStep` and `WireStep` again.
* `SSEAndroid`: the two threads run, the scheduler's delays end, OkHttp ends a call that was cancelled, and
  unreachable objects are collected. `SSEiOS`: libdispatch runs the blocks, delays end, and a cancelled task
  completes (NSURLSession's documentation). `SSEHtml5`: the page lives, timers fire, an abort rejects what is awaited.
  In none of them does a server have to answer or a script to disconnect.
* `SSEWinHttp` and `SSEReboot` state safety properties only and assume no fairness.

## 4. What the runs show

* **Guard.** A caller counts itself and then reads the flag; the shutdown clears the
  flag and then reads the count. With that order every admitted caller is waited for,
  and the refused ones, though counted for a moment, do not stay in the count: once the callers
  stay out, the shutdown ends. (Callers that never stop could keep it waiting; the code has no bound for that.)
* **Core.** Whatever the scripts do inside callbacks, no deleted record is touched, none
  is lost, no callback follows a disconnect, and a script sees its events in order with a
  drop report exactly where events are missing. `m_Connected` does not depend on the queue.
  `core_live` adds that every drop is reported and every queued event delivered, unless
  the connection goes.
* **Parser.** An event is its whole block; a lost block's id is never committed; after a
  dropped event nothing later in the attempt is committed, so the next attempt replays it;
  the resume position never moves back.
* **libcurl adapter.** It keeps the contract; a record is freed only after its worker's
  last access; joins outside the shutdown are immediate; CLOSED comes last unless the
  worker was stopped; every stopped record is freed.
* **Linux adapter.** It keeps the contract; every pool connection is closed exactly once,
  wherever the disconnect falls; `sse.disconnect` always comes back.
* **Delay.** Within a fifth of the doubling reference, and between 800 ms and 360 s (both proved for all
  options, servers and clocks). The floor of 500 ms is never reached.
* **Chunk decoder.** The parser gets the data of the chunks, and a malformed size is
  refused at the same byte, however the body is cut.
* **Response head.** With CR LF line ends the body begins after the first blank line, at once when that line
  arrives, whatever the body contains. With bare line feeds it does not: a body with CR LF CR LF in it is cut at
  one place or another, depending on how it arrives (`SSEDM_FindHeaderEnd` looks for that first, in all it has).
* **WinHTTP.** No handle leaks, on any way out of an attempt, and while the shutdown joins a worker the request
  that worker is blocked in has been closed. A connection that was disconnected while it waited for the answer
  may still say OPEN, which the contract allows.
* **Android.** The script is told exactly once of a failed attempt, whichever of watchdog and callback comes first,
  and never gets OPEN from an attempt the watchdog reported. After a disconnect no call, task or reference is left. Every
  attempt that is over leads to the next one, unless its id cannot be sent.
* **iOS.** Told once; the retained client is deallocated after its last report, and never before.
* **HTML5.** Told once, and a stopped client reports nothing, although no code looks at the flag after the
  await of `fetch()`: the abort of the controller is what keeps it silent.
* **Ported parsers.** By their own count they are the C++ parser, under every loss, drop and reconnect: from lines their
  reader lets pass the events, ids and delays that it gives for texts of that many units; except for a line that is not
  UTF-8 on iOS (below). Near the caps the four differ (`CapsAgree`). A port loses a block to a cap only where the C++ parser loses it too,
  but for Java's line of just the cap's bytes. A block that a port delivers and the C++ parser loses has a character of
  several bytes; on Android and iOS it is the data that is over the cap then, never a line.
* **Reboot.** Where the shutdown waits for the clients, no callback gets another stream's event, although the handles
  start over.

### Where code and documents disagree

* **`core_mobile`.** `README.md:47` says `sse.disconnect(handle)` closes a stream, `:49` that
  `sse.is_connected(handle)` tells whether it is open. `SSE_IsConnected` (`sse.cpp:673`) does not
  look at `m_UserClosed`. On Android and iOS, where it falls back on `m_Connected`, an OPEN
  that the adapter announces between a disconnect inside the connection's own callback and the end
  of that callback makes it answer true for a disconnected handle. (HTML5 falls back on it, too, but there
  nothing runs while a callback does.) On the desktop, the same property holds and is proved.
* **`pool_blocks`.** `sse_private.h:107-108` says platforms use `SSE_Platform_Update` "to reap finished
  worker threads without blocking disconnect". On Linux that function is empty and
  `SSE_Platform_Disconnect` joins the worker on the main thread (`sse_connection_pool_impl.h:1063-1067`).
  The cancel flag meant to cut a dial short is reset just before the dial (`:844`), without the mutex:
  a disconnect between the worker's `ShouldStop` (`:910`) and that reset is forgotten, and the engine
  stands still until the dial ends, up to 15 s.

* **`odd_id`.** `README.md:89`: adapters reconnect and send the current Last-Event-ID. OkHttp refuses a
  header value outside printable ASCII and `fetch()` one beyond U+00FF. After an event with such an id, which the format
  allows, every attempt fails before it sends anything, for ever (`SseClient.java:113`, `sse_html5.cpp:321`).
* **`reboot_mobile`.** `sse.cpp:750-751`: the adapters "were already quiesced in FinalizeSSE". On Android and iOS nothing waits for
  callbacks on their way, and `AppInitializeSSE` starts the handles at 1 again: what a client of the earlier run pushes after a
  reboot reaches the new connection with its handle.

Found while reading the code for the models, and not the question of a run:

* `sse_desktop.cpp:1415-1417` confines the shutdown's closing of a worker's handles to the abort of a
  blocking read, and `SSEWinHTTP_TakeHandles` zeroes what it takes. `PerformOnce` however keeps session and connection
  in locals: taken and closed between `WinHttpConnect` (`:1200`) and `SSEWinHTTP_SetHandles` (`:1208`), or before `:1237`, they are
  published again and closed a second time. (`SSEWinHttp` has these steps: there `mine` is not always part of `open`.)
* `SseClient.java:150-151` says that the watchdog "already reported this attempt". It sets its flag under the
  lock and reports after it (`:207-210`): a client that does not reconnect can push CLOSED in between, and
  the script gets the error after it. (This is `Trailing` in the contract.)
* `sse_ios.mm:467-468` says in-flight callbacks bail on the stop flag; `didReceiveData` (`:599-602`) does not look at it. The
  core drops what it reports. (This is `Late` in the contract.)
* `sse_ios.mm:159-161`: "a truncated payload is never delivered as a complete event". A data line that is not UTF-8
  is reported and left out without poisoning its block (`:193-197`): the other lines are delivered, and the id is committed.
* The caps of the four parsers are one number (1 MiB) of different things, as said above. No document of the repository
  states them, so this is a difference between platforms and not a finding: an event whose text
  is within the cap in units and over it in bytes arrives on Android, iOS and HTML5 and is lost on the desktop.
* `README.md:96` says Linux uses libcurl, while `:119` and `ext.manifest` say it uses Defold's connection pool.

## 5. What is proved

The theorems hold for every value of the constants that satisfies the modules' named
assumptions: any finite set of threads; any number of handles, any positive capacity; any cap
and retry range; any set of connections and size of the pool; any number of attempts; responses of any
length, in reads of any size, any cap on a size line and any `SIZE_MAX`; any number of clients, handles and starts of the engine. The bounds on events,
attempts, failures and blocks are constants too, so a theorem holds for each of their values. The assumptions
say no more than what kind of value a constant is, but for these:

* `ParserAssumption`, `RetryAssumption`: the range of the retry interval is not empty; the delay's floor is at most four
  fifths of the smallest interval (500 ms and 1000 ms); a server's retry value is in the range, as the parser sees to
  that; the jitter is at most a fifth;
* `ThreadsAssumption`: finitely many threads;
* `Quiesces` is a hypothesis of `EventsReachTheirOwn`: `SSE_Platform_Finalize` waits for the clients, or leaves them
  silent, as it does on the desktop and on HTML5. On Android and iOS it does not, and the run `reboot_mobile` shows
  that the theorem fails there.

Each proof module defines an inductive invariant `IInv`, shows `Init => IInv` and
`IInv /\ [Next]_vars => IInv'`, action by action, and derives the properties.

| module | why the property alone is not inductive, and what `IInv` adds |
|---|---|
| `SSELifeCycleProofs`, guard | the count must be tied to the callers: `EntrantsCounted` says it is the cardinality of the set of threads inside; then an empty count means an empty set, and the mutexes exist as long as somebody is admitted |
| `SSECoreProofs` | *Lifecycle* (which part of the main thread's work happens when), *Pointers* (the registry is exactly the set of records; the dispatched and the starting one are among them and differ), *Closing* (a closed connection is the one whose callback runs, and a told one that still exists is closed), *FreshHandles* (nothing is known of handles not given out), *Announcements*. For the gaps, *Delivery*: in the batch and in the queue the events of a connection that was not disconnected ascend without a hole; before the batch there is one exactly where the script was told of it, between batch and queue only where `overflow` or its swap array says so, and `overflow` holds something only while the queue is full |
| `SSEParserProofs`, C++ | the id buffer is this block's id or what the last block left; that fallback is neither lost nor, as long as nothing was dropped, behind the committed position; the data is the block so far, or the block is poisoned |
| same, ports | `PortIInv`: until a block has lost something, its name and id are those its lines gave, and an id that is not null is the pending one; only the Objective-C parser holds an id back. Each step is then a step of the C++ parser, with null for that one's 0, or one it does not see (a comment). `PortCounts`, for `CapsAgree`: the data of such a block has at most as many units as bytes, and as many where no line is wide |
| `SSELifeCycleProofs`, reboot | `RIInv`: the clients that may still push have different handles, given out since this start (*HandlesApart*); an event in the queue has its sender's handle and no other live client's (*EventsApart*); the registry knows nobody who was told to stop; nothing of one start is there at the next (*BootsApart*, which needs `Quiesces`) |
| `SSEStreamProofs` | a busy worker is running, a released connection was told |
| `SSEDesktopProofs` | *Tracked* (every allocated record is attached or on its way to be freed, in exactly one place), what holds at each place of the main thread, and for each worker where it may be given its record's life, what it has said, and what is open |
| `SSEAttemptProofs`, delay | the counts agree at the point between an attempt and its verdict; the arithmetic of the delay is a chain of bounds on base, shift, product and jitter. The reference doubles step by step: `StepsAgree` shows it equal, step by step, to the closed form `Closed`, the interval times a power of two, cut at the largest interval |
| same, response head | `HeadIInv`: until the head ends, all that came is in the buffer and holds no delimiter; then it was cut at a place `CutOf` allows, the body is what came behind it, and no later read changes that. That the code's search returns the first occurrence is the lemma `FindsFirst` |
| same, chunk decoder | `BodyIInv`: what was read is whole chunks, whose data was fed (*Settled*: whatever follows them, the reference gives their data and then what it gives for the rest alone), and the beginning `q` of one more, in which the decoder is at a place that `q` determines (*Place*: in the line, the data, the line break, at the end, refused). Each place is what the reference says of `q` (`PlaceIsMeant`) |
| `SSEPoolProofs` | who closes the pool connection at each pair of places of the two threads |
| `SSEAdaptersProofs`, Android | *OneAttempt* (only the one way out of an attempt leads to the next), *Watched* (an armed watchdog, and one that left word, only before the callback clears both), *Told* (at each pair of places what the script was told, the report the watchdog still owes included), *Life*, *Shown* |
| same, iOS | `IosIInv`: each block that waits on the queue is about the newest attempt, but for watchdogs that went off too late (*IosQueue*, *IosSerial*); a response is answered or given up on, and each but once (*IosAnswered*); what the script was told at each place, and the one block that will tell it (*IosTold*); who still refers to the client (*IosLife*) |
| same, HTML5 | `WebIInv`: a function whose client was stopped awaits what can only be refused, or is past every report (*WebStops*); what was told at each place (*WebTold*, *WebShown*) |
| same, WinHTTP | `WinIInv`: whose every handle is at each pair of places of the two threads (*WinOwned*); once the shutdown has taken the handles, the worker looks at the stop flag before it uses new ones (*WinAborted*); the record's life and what was said (*WinLife*, *WinSaid*) |

**Induction over data.** The chunk decoder's reference, `Meaning`, is defined by recursion over a body of any
length, and the size of a chunk byte by byte. The library's induction theorems take the
predicate as an operator, which the provers cannot instantiate; these proofs use a set in its place: a set that
holds 0 and with each number the next one up to `n` holds all of them (`Climbs`, from the least member it would
lack, `HasLeast`). From it follow that a function given by its first value and its steps exists (`Iterates`), that the
reference is defined for every body and is what its equation says (`MeaningUnfolds`: what a text means depends on
shorter ones only, so any two solutions agree), and that `SSEDM_ParseChunkSize`, with its test before each shift, reads
the number that unbounded arithmetic gives, or refuses it (`SizeIsMeant`).

Type invariants are proved as well. So are these, which no run repeats:

| theorem | statement |
|---|---|
| `SSELifeCycleProofs!QuietTeardown` | no admitted call from the end of the drain to the next activation |
| `SSECoreProofs!OnlyFromUpdate`, `DropsNoted`, `FlagFollows` | callbacks run in an update only; a refused push is on the overflow list; `m_Connected` is what the adapter said last |
| `SSEParserProofs!ResumeForward` | the resume position never moves back |
| `SSEDesktopProofs!NoFrameBlocks`, `FinalizeIsLast`, `OpenIsAnnounced`, `EndIsAnnounced`, `NoUnwantedRetry` | joins outside the shutdown are immediate; no worker and no record outlives the shutdown; OPEN and CLOSED are told |
| `SSEAttemptProofs!RetryDelayInRange`, `PausesInRange`, `CountIsRight` | the range of the delay; the count, except after an attempt that ended before its transfer |
| `SSEPoolProofs!RecordsOutliveWorkers`, `PoolIsLast`, `ConnectedIsOpen`, `EndIsAnnounced` | as for libcurl, and the pool outlives its workers |
| `SSEAdaptersProofs!AttemptsAreSerial` | never two attempts of a client |

**Refinement.** All six adapters implement the contract. `KeepsContract` of `SSEDesktopProofs`, `SSEPoolProofs` and
`SSEAdaptersProofs` (Android), `IosKeepsContract`, `WebKeepsContract` and `WinKeepsContract` prove
`Spec => StreamContract`: each step of the adapter is a step of the contract or a stutter under the
mapping. In the contract, `ReleaseIsQuiet` and `CloseIsFinal` then say that a released connection was
told to stop and has nobody about to report for it, and that CLOSED is the last word.
`PortsAreTheParser` proves the same of the three ported parsers against the C++ one with its lengths in UTF-16 units; what is
proved of that one for any cap (whole events, lost blocks, the resume position) so holds for them, too. It does not
say that the four lose the same blocks: how far they differ is its second part, `CapsAgree`.

The theorems that state a property of a run are in `PROJECT.json`, with that property.

### Only model-checked

* Liveness: `ShutdownCompletes`, `DropsAreReported`, `QueuedIsDelivered`, every `StoppedIsFreed`,
  every `RequestIsBounded`, `Retries`. Fairness and ENABLED are out of the prover's reach.

Every safety property of a passing run is proved.

### Not modelled

* **Stub adapters and the libcurl declarations**: no state.
* **Texts**: URLs, request texts, error messages. Their parsing is a choice between its
  outcomes. Of the response's head, what decides where the body begins and how it is read is in `SSEHeaders`, other
  headers are not. The byte-order mark and the fields' decoding in the parsers.
* **The rest of a line that the JavaScript reader takes for a whole one at the end of a stream** (`sse_html5.cpp:396`).
* **The reconnect delay in Java, Objective-C and JavaScript**: the same formula in other number types, over a
  count that also rises when a stream ends well, which shifts no delay. A pause is a step of those modules, its length is not.
* **Lua marshalling**: an option table is accepted or refused.
* **JNI, bridging and heap copies** of strings, class loading: they hold no state of a connection.
* **What dmConnectionPool, dmSSLSocket, libcurl, WinHTTP, OkHttp, NSURLSession and fetch do inside**: any outcome
  of a call is allowed that the code's use of it and their documentation do not exclude.

## 6. Plan

Done, in this order: guard, core, parser, contract, libcurl adapter, delay, Linux adapter,
chunk decoder; Android, iOS, HTML5 and WinHTTP adapters, the ported parsers, the composition across reboots, the
response head. Theorems: every safety property that a passing run checks.

Next:

1. `SSEResume`: server, adapter, parser and queue together: every event of a server that honours
   Last-Event-ID reaches the script at least once, for as long as it reconnects.
