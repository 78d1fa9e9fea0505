# A TLA+ verification of libcpr

libcpr is a small C library of stand-alone parts: thread synchronisation,
a pipeline between threads, stream buffers, reference counts, micro-heaps,
configuration files, strings, sockets. This directory holds TLA+ models of its
parts, TLC configurations that check them on small instances, and theorems
about them that the TLAPS proof system checks for every value of the constants.
`PROJECT.json` maps every definition to the lines it models (paths are those of
the repository, below `src/`).

## 1. Inventory

| part | state it keeps | operations | what is hard | what makes it correct |
|---|---|---|---|---|
| semaphore (`src/thread.c`) | `count`, `used`, `waits`, mutex, condition | init, acquire, release, free | woken threads race newcomers; sparse signals | at most `count` holders, exact counters, no permit left while someone sleeps |
| condlock (`src/thread.c`) | `pending`, `waiting`, `sharing`, mutex, one condition | init, access, release, modify, commit, free | readers and writers sleep on one condition; modify returns with the mutex held | a reader/writer lock that prefers writers, nobody left asleep |
| waitgroup (`src/thread.c`) | `count`, mutex, condition | init, add, done, wait, finish, free | add while waiters wake up; finish destroys the group | wait returns only at zero, finish ends and destroys the group only when no worker runs and nobody sleeps in it |
| pipeline (`src/pipeline.c`) | ring (`buf`, `head`, `tail`, `count`), `closed`, mutex, two conditions | make, put, get, close, free, is_pipeline | close works without the mutex; signals only at the edges; two policies | a FIFO channel, each object received or freed once, no lost wakeup |
| thread shim (`src/thread.h`) | none of its own | mutex and condition calls | spurious wakeups | passes everything on to pthreads |
| bufio (`src/bufio.c`) | input half (`start`, `end`), output half (`put`) | make, fill, xget, cget, lget, reset, xput, cput, sput, fmt, flush, wait, free | short reads, partial and failed writes, moves of the buffer | both streams in order and complete, pointers handed out right |
| memory (`src/memory.c`) | an atomic reference count per object | makeref, retain, release, count, wrappers | concurrent releases, pointers left behind | freed exactly once, by the last release |
| mempager (`src/mempager.c`) | list of pages, used space per page | create, request, alloc, strdup, reset, free | requests at the size of a page, sums that wrap, pages too small for their header | blocks do not overlap, the limit is kept |
| memio (`src/memio.c`) | block, two positions | init, make, get and put calls, lget, reset | limits of the block, failed formats | below put is what was accepted |
| events (`src/events.c`) | a descriptor, or a pair | init, set, clear, wait, free | poll and read are two steps; every failure destroys the event, and so may any caller | a signal is taken or stays visible |
| keyfile (`src/keyfile.c`) | sections with keys, a file | load, save, find, get, make, append, free | crashes in a save, torn and long lines, quotes, duplicates | what was saved loads again, nothing else does |
| sync (`src/sync.c`) | deadlines | deadline, adjust, expires, realtime, until, sleep | carries, time that passes between two clocks | never late, less than a millisecond early |
| bitset (`src/bitset.c`) | a bit array | make, set, clear, get, count, any, all, lowest, mask, fold | padding bits | agrees with a set of numbers |
| service (`src/service.c`) | the running flag, a mutex | logger, syslog, openlog, closelog, sysexit, shutdown, is_running, is_service | lines of several writes, exit in between | lines stay whole |
| strchar (`src/strchar.c`) | the caller's buffer | copy, concatenate, head, tail, reverse, strlong, trim, chop, duplicates | where the NUL goes, empty strings, numbers that do not fit | a string that ends inside its buffer |
| strtype (`src/strtype.c`) | `size`, `used`, the text | new, make, copy, append, clear, commit, case, trim, chop, head, tail, printf | the byte for the NUL, strings of one byte | used is the length, the text is right |
| socket (`src/socket.c`) | a line being read | getline, putline, getch, putch, wrappers | editing with an echo | the terminal shows the line |
| multicast (`src/multicast.c`) | one global interface | make, find, join, drop | the global is shared by all sockets | a socket's groups are on its interface |
| address (`src/address.c`) | addresses | wrappers of system calls | errors | - |
| system, endian | none | platform wrappers, byte order | - | - |

How they interact. The synchronisation primitives and the pipeline call the
shim; every condition variable is used with exactly one mutex. The pipeline
calls back `free` on objects it drops or drains. bufio calls `read` and `write`.
keyfile and `pager_strdup` use the string calls of strchar, strtype is built on
them, and so is the line reader of socket. The other parts do not call one another
beyond helpers for strings and memory.

## 2. Modules

1. `Monitor`, `Semaphore`, `Condlock` (with the abstract `RWLock`), `Waitgroup`: the primitives of `thread.c`.
2. `Pipeline` with the abstract `Channel`.
3. `Bufio`.
4. `Memshare`, `Events`, `Service`: what threads share without a lock of the library
   around it. `MCShared` checks them, and `Semaphore` and `Waitgroup` with them, one at
   a time, with every interleaving.
5. `Keyfile`, `Mempager`, `Strchar`, `Strtype`, `Memio`, `Bitset`, `Deadline`, `Getline`,
   `Multicast`:
   what one thread uses at a time, each with a reference in its state for what the
   calls should have left. `Strtype` and `Getline` extend `Strchar`, on which the code
   builds them. `MCSequential` checks them, one at a time, with every sequence of calls;
   `MCMemio` and `MCStrchar` are the instances of two findings.
6. The proofs: `SemaphoreProofs`, `CondlockProofs`, `WaitgroupProofs`, `PipelineProofs`,
   `BufioProofs`; `SharedProofs` for the components of item 4, `SequentialProofs` for those
   of item 5, one part of the module each; `Counting` for the facts they share.

## 3. How the models correspond to the code

**Steps.** Each operation of `thread.c` takes the mutex first and gives it up only
on return or in `cnd_wait`. What happens in between is invisible to the other
threads, so it is one action: one from the call up to the wait or the return
(`Acquire`, `Access`, `Modify`, `Wait`) and one from the return of `cnd_wait`
(`AcquireResume`, `AccessResume`, `ModifyResume`, `Resume`); the body of the loop they
share is `TryAcquire`, `Attempt...`. Where this does not hold the model is finer: `modify` returns with
the mutex held, so `Condlock` has the mutex as a variable; `close_pipeline` works
without the mutex, so `Pipeline` splits `put` and `get` at the test of `closed`,
and `close` into the flag, the two broadcasts and the drain.

**Condition variables** (`Monitor`). A condition variable is the set of threads
asleep on it. `cnd_signal` takes one of them out, whichever the scheduler likes;
`cnd_broadcast` all. A thread that was taken out has still to get the mutex.
`SpuriousWake` lets any sleeper wake unasked, as POSIX allows.

**Callers.** They pair their calls (release what they acquired), add to a wait
group only while a counted worker runs or before finish, put only objects they
own, and free a pipeline when no thread is inside it. The models do
not cover callers that break these rules. A wait group is different: `finish` waits
for the workers and not for other threads in wait, and the model lets it destroy the
group whenever the code does.

**Semaphore** - `used`, `waits` are the fields; `stage` says where each thread is.
`count`, which no operation changes, is the constant `Limit`.

**Condlock** - `pending`, `waiting`, `sharing` are the fields. `RWLock` is what it
promises, without waiting; the mapping sends `readers` to the threads between
access and release and `writers` to those between modify and commit.

**Waitgroup** - `count` is kept modulo `UintSize`, as an unsigned is. Workers may
start workers. `finish` is wait and then `Free`. An observer that was woken and gets the
mutex only after `Free` meets a destroyed mutex, which is undefined; it returns in the
model, and `FreedAtRest` claims of the destroyed group only that nobody sleeps in it and
no worker is left to call it.

**Pipeline** - the ring is kept as the code keeps it. `place` follows each object:
with its client, in a call, in the pipe, or freed. `Channel` is the bounded FIFO
channel it promises; the mapping reads the queue off the ring from `head`. A put
that found the pipeline open may store after close has set the flag, and `Channel`
says so.

**Bufio** - bytes are numbered by their place in the stream, so that loss,
repetition and reordering are visible. `Fill` gives every outcome of `cpr_fillbuf`:
`read` delivers any part of what was asked for, nothing at the end of the stream
or when asked for nothing, or fails. `Flush` does the same for `write`; a failed
write returns true and drops the bytes, as in the code. `put` starts at any value
up to `JunkMax`, for `cpr_makebuf` does not set it. (A value near 2^64, with which
`request + put` would wrap, is left out.) `cpr_lgetbuf` is one step per round of
its loop because the loop need not end. One-byte calls (`cget`, `cput`) and `sput`
are instances of `XGetBuf` and `XPutBuf`. Calls that are refused without a change
(a request larger than the buffer, a NULL argument) are stuttering steps.

**Memshare** - a holder is a `memshare_t` variable of some thread. `refs` are the
references that are still to be released; a variable may have several of its own
(`MAKE_REF` on one that is set) and keeps its pointer when it has released the last
of them and others remain, as `RELEASE_REF` does. Callers work through a variable
only while it has a reference. `fetch_sub` and `free` are two steps.

**Events** - `pipe` tells the two builds apart: one eventfd, whose read gives all, or the
two ends of a pipe, whose read gives `Chunk` bytes (64 in the code). `rfd` and `wfd` are
`fds[0]` and `fds[1]`, `counter` is what the kernel holds, at most `Capacity`. Each call is
two steps, the test of `fds` and the system call, which looks at `fds` again;
`cpr_freeevt` is the test, a close for each descriptor and the assignment of -1. Any
thread may call it at any time, and every failed system call does, an interrupted `poll`
too; `causes` keeps why. A `poll` that begins on a closed descriptor reports it, one that
begins on -1 waits for nothing, and one that is running does not notice the close, but
for a pipe that has lost its writers. That the kernel gives the number of a closed
descriptor to another file is not modelled.

**Service** - a line is three writes; `printed` is who wrote which part. `cpr_sysexit`
writes without the mutex, and `quick_exit` may come at any moment. What goes to syslog,
and its mask, is not modelled.

**Keyfile** - a document is a sequence of sections with their keys, newest first, as
the lists are. A line is its kind, its name, its text in pieces, and whether it is
indented or has no newline. `load_keyfile` takes one line after the
other with `LoadLine`. `save_keyfile` is one step for the remove, one for the open, one per
line and one for the close, with `printed` as the place it has come to; a crash
may come between any two and leave the next line torn, and so may a full disk at the
close (`TailLost`). A key gets its name in lower case (`KeyId`, with `Lowered` for what
`cpr_lower` makes of the names that are not), and `get_keyvalue` compares it exactly, so
a key is not found under the name it was made with when that has capitals. The names of
sections stand for themselves in any case, as `find_keysection` ignores it. What the end
of an over-long line looks like, which the next `fgets` reads as a line of its own, is
taken to be neither a key nor a section.

**Mempager** - a page is its `used`, a block is where the caller was told its bytes
are. Page sizes are any, also those without room for the header, and sums are those of
a `size_t` (`WrapAdd`, `SizeMax`). Once a request has wrapped, the caller holds memory
that is not there; the model goes on up to the next reset, and `BlocksApart` speaks of
the time before. What such a caller writes over headers is not modelled.

**Strchar**, **Strtype**, **Memio** keep bytes as characters; positions are those
of the code, from 1 in sequences. The buffer of `Strchar` begins with anything in it.
`told` is what its caller may take it for: nothing at first and after a refused
`cpr_strlong`, which leaves its sign and digits behind; a string after the other calls;
and "empty" after `cpr_strcpy` has returned the buffer for an empty source, of which it
copies nothing. Callers pass on only what they were told is a string. `cpr_strlong` is
`LeftOver`, what each round leaves of the number, `Rounds` and `LowDigits`; the least
`long`, whose negation is undefined, is not among its numbers. The sizes of a `string_t`
fit into its `uint16_t`, and callers trim, chop and change the case of strings that
something was put into (`filled`): `string_new` leaves what `malloc` gave, and the code
does not test for it. `accepted` in `Memio` is everything that the puts which returned
true were asked to put, whether the block had room for it or not.

**Bitset** - a byte is the set of its bits. **Deadline** - `struct timespec` with C's
division; the clock moves between any two steps. **Getline** - the terminal of the peer
is modelled with the characters on its line and the cursor, so that what is echoed has
a meaning.

**Multicast** - `if_multicast` is the union as its members read it: the interface it
holds for the family of the last make, and 0 for the other. `joined` is what the kernel
has. Join and drop switch on the family of the group and never look at the socket's:
Linux takes the options of IPv4 on an IPv6 socket and refuses the opposite
(`KernelTakes`); it also refuses a second join and a drop of what is not there. A
failure in make exits the process. `wanted` is the reference, which socket is in which
group. The properties speak of the groups of a socket's own family: for the other one
the global has no interface.

Definitions marked *Mutant* are faulty versions of the definition below them; they
are used by no specification and serve to show that the properties can fail.

## 4. Runs

| run | instance | what it shows |
|---|---|---|
| `condlock` | 4 threads, each reads and writes | `Accounting`; no reader is let in while a writer waits (`ReadersYield`); readers follow the last writer; a free lock leaves sleepers, if any, of both sides (`StrandedOnlyTogether`); `ImplementsRWLock` |
| `condlock_stranded` | 3 threads | **violated**: `NobodyStranded` |
| `pipeline` | 2 producers, 2 consumers, 2 closers (one a producer), 4 objects, 3 slots, both policies | each object exactly once (`Conservation`), empty after close, nothing leaks, `ImplementsChannel` |
| `pipeline_spsc` | 1 producer, 1 consumer, 1 closer, 3 objects, 2 slots | `NoLostWakeup`, `PutEnds`, `Delivery` |
| `pipeline_close` | 1 of each, 1 slot | **violated**: `CloseWakesEveryone` |
| `bufio` | halves of 3 bytes, a stream of 5, delimiter of 2, 4 bytes put, junk up to 4 | `StreamIntact`, `ViewIntact`, `OutputIntact`, `PutInside` |
| `bufio_eof` | halves of 2 bytes, a stream of 3 | **violated**: `EofIsEof` |
| `shared` | 4 threads, 2 permits | semaphore: counters exact (`Accounting`), `WithinLimit`, no permit unfetched beside a sleeper (`NoLostWakeup`), a waiter is served unless newcomers overtake for ever (`ServedUnlessOvertaken`) |
| | 3 workers, 2 observers, coordinator, unsigned of 4 values | wait group: `CountsRunning`, `NobodyLeftAsleep`, `WaitMeansDone`, `FreedAtRest`, `FinishEnds` |
| | 3 variables, 2 objects, 2 references each | memory: `RefsReachLiveMemory`, `FreedByTheLast` |
| | 2 setters, 1 waiter, room for 3 signals, reads of 2, both builds | events: `SoleWaiterNeverRaces`, `EventDelivered` |
| | 2 logging threads, 3 calls | service: `LinesWhole` |
| `sequential` | see below | `RoundTrip`, `NothingInvented`; `BlocksApart`; `BufferRight`; `StringHoldsText`; `AcceptedKept`; `BitsetIsSet`; `DeadlineKept`; `EchoIsLine`; `LatestSocketRight` |
| `multicast` | 2 sockets, 2 interfaces | **violated**: `OperatesUnderItsInterface` |
| `memio_too_big` | a block of 2 bytes, texts of 1 and 3 | **violated**: `TooBigIsFalse` |
| `strchar_empty` | a buffer of 2 bytes | **violated**: `MemorySafe` |

The type invariants of the first modules and `RingConsistent` of `Pipeline` are proved
(section 5) and listed in no run.

In `shared` and `sequential` each behaviour picks one component and leaves the others
as they began, so that their state spaces add up and do not multiply.

Bounds. In `shared`, two variables that release the last two references and a third
that was handed one in between are three holders; two objects let an address be freed
and given out again. Reads that take less than the event holds need `Chunk` below
`Capacity`; setters go on without end. In `sequential`: three sections and two
edits with values that need either quote or are too long for a line and a key name with
a capital; pages with four bytes behind their header, a `size_t` below 16 and requests of
0 to 5 and of the two values whose sums wrap to 0 and to 1; a buffer of five characters, NULs
or not, with numbers that just fit and just do not; strings of one, two and five bytes; every
packet of four bytes with a delimiter of two; arrays of 0, 3, 8 and 10 bits, with
padding set and not; times at both ends of a second and of a millisecond, two changes
and a wait; lines of four characters; two sockets, two interfaces of which one has
both families, and two groups of each family.

Four threads are two that hold or read, one that was woken and one that
sleeps or overtakes: each race in the lists of hazards needs at most these. Three
slots with four objects let the ring wrap, fill up and drop while another producer
waits. In `bufio` the stream is longer than the buffer, so that moves happen with
and without room, and the junk may be longer than the output half. `JunkMax`,
`MaxPut` and `StreamLen`, `MaxRefs` and `MaxCalls`, `MaxPages`, `MaxSections`, `MaxEdits`,
`MaxSteps` and `MaxSockets`, and the sets of threads and objects are the only bounds; no
counter is capped otherwise. Deadlock checking is off where the system may stop
for good: finished wait groups, freed pipelines and buffers, a process that has
exited, a line that was read, counters at their bounds; and a pipeline whose threads
sleep after a close, see below.

Fairness. `shared`: a signalled thread gets the mutex of the semaphore and holders
release (`SemProgress`), nobody is obliged to call acquire; started workers end (`Done`),
waiters of the group make their calls and woken ones run (`GroupProgress`), finish goes
on to free the group; a waiter on an event calls wait and clear again and again and its
system calls return, `poll` only when it has something to report (`WaiterProgress`). All
of it is weak fairness of one thread. `pipeline_spsc`:
a thread inside a call runs on, consumers come back; strong fairness where the
mutex is taken, for another thread may take it in between again and again but not
for ever, as nobody sleeps with it. A spurious wakeup is never assumed to happen.

### What does not hold

* `condlock_stranded`: release and commit wake a writer with one `cnd_signal` on
  the condition readers sleep on too. If it picks a reader, the reader sees
  `pending` and sleeps again; the writer and the reader then sleep at a free lock,
  until another thread goes through modify and commit.
* `pipeline_close`: close broadcasts without the mutex. A thread that has tested
  `closed` and not yet reached `cnd_wait` sleeps for good.
* `bufio_eof`: when a full buffer has been consumed to its end there is nothing to
  move and no room to read, `read` is asked for 0 bytes, and the 0 it returns is
  taken for end of file.
* `multicast`: join and drop take the interface from the global that the last make
  left. After a second make they put the first socket on the interface of the second,
  or, when its family is another, on whichever the kernel picks.
* `memio_too_big`: the comment in `cpr_sputmem` says that a string that is too big gives
  false, by a + 1 that is not there. A text longer than an empty block is cut to the
  block and accepted (`memio.c:58-59`).
* `strchar_empty`: `cpr_strcpy` writes its NUL in place of the last character it copied,
  and with an empty source writes nothing. The caller of a fresh buffer gets it back
  without a NUL, and the next call that looks for one leaves it (`strchar.c:28`).

Other behaviour that is part of the models and stated where a property is about it:

* a key that was given more than once comes back from save and load with its first
  value (`RoundTrip`); sections and keys of one character are not loaded; the section
  structures are not freed (`keyfile.c:151`);
* `cpr_strcpy` gives up the last character it copied for the NUL, so `pager_strdup`
  loses the last character of a text and gives an empty one no NUL; `cpr_strtail` empties a string that is not longer than
  what it should keep;
* `string_printf` of a text that does not fit, and any copy into a string of one byte,
  write behind the string (`outside` in `Strtype`);
* a request so large that its sum with the header of a page wraps is granted
  (`mempager.c:81`, `:86`); `BlocksApart` holds up to then;
* a key stored under a name with capitals is found in lower case only;
* two waiters on one event destroy it; so does a signal that interrupts poll;
* what was rubbed out in `cpr_getline` stays visible right of the cursor, for only the
  first of the three characters is sent;
* an indented heading is compared with a byte behind the end of its line, which an
  earlier line may have left there (`keyfile.c:80`).

The hazards in `PROJECT.json` that have no property say why.

## 5. Proofs

The proof modules extend the modules of their components. `Counting` holds what they
share: how the size of a set changes with one member, facts about parts of sequences,
and `LeastNatural`, that a set of naturals has a least element. The last one stands in
for induction, whose theorems in the library the provers cannot instantiate: what holds
for 0 and is kept from one number to the next holds for all, for otherwise there would
be a least number it does not hold for. With it a recursive function is shown to
exist, to be the only one and to have its property, for lines of a file as for digits
of a number.

Assumptions are the named `ASSUME`s of the components, which TLC evaluates on the
instances: finite sets of threads, a ring with at least one slot, fewer workers than an
unsigned can count, buffers of at least one byte; any page size that `malloc` can give, less than half of what a
`size_t` counts (`PagerAssumption`); finitely
many waiters on an event; names and texts of a keyfile that are of their
kinds, and `Lowered` names that are in lower case (`KeyAssumption`); a block of at least one byte and a delimiter of 1 to 16
(`MemioAssumption`); sizes of bitsets (`BitAssumption`); clock readings with nanoseconds
below a second (`TimeAssumption`); lines of at least two bytes, for `socket.c:61` returns
otherwise (`LineAssumption`); sizes of strings that fit into a `uint16_t`, words without a
NUL, numbers of which the negative is a `long` too (`StringAssumption`,
`StrcharAssumption`).

| theorem | states | argument |
|---|---|---|
| `SemaphoreProofs!Safety` | `SemTypeOK`, `Accounting`, `WithinLimit`, `NoLostWakeup` | inductive with `Accounting`: moving one thread changes one count by one |
| `CondlockProofs!Safety` | `TypeOK`, `Accounting`, `Exclusion`, `ReadersFollowLastWriter` | inductive with the fact that the writer is the owner of the mutex and excludes readers (`sharing = 0`) |
| `CondlockProofs!Refinement` | `ImplementsRWLock` | step by step from the same invariant |
| `CondlockProofs!WriterPreference` | `ReadersYield` | a reader is let in only at `pending = 0`, which `Accounting` makes "no writer waits" |
| `WaitgroupProofs!Safety` | `GroupTypeOK`, `CountsRunning`, `NobodyLeftAsleep`, `FreedAtRest` | inductive with `FinishComesLast`: a woken coordinator may still be sent back to wait by workers that workers added, but once it has returned from wait no worker runs, and only a running worker could add |
| `WaitgroupProofs!WaitIsSound` | `WaitMeansDone` | from `CountsRunning` |
| `PipelineProofs!Safety` | `TypeOK`, `RingConsistent`, `Conservation`, `ClosedStaysEmpty`, `NothingLeaks` | inductive with who owns the mutex at which place, which object is in which call, and that a thread past its test of the flag holds the mutex until the drain can run |
| `PipelineProofs!SingleSidesLoseNoWakeup` | `NoLostWakeup` for one producer and one consumer | adds that a lone sleeper is the only one of its side |
| `PipelineProofs!Refinement` | `ImplementsChannel` | storing at `tail` appends to the queue read from `head`; moving `head` takes its first item |
| `BufioProofs!Safety` | `TypeOK`, `StreamIntact`, `ViewIntact`, `OutputIntact`, `PutInside` | one lemma on `Fill` (the move, the read and the NUL each keep the unread bytes) serves all get calls; `Flush` leaves what is sent followed by what is buffered as it was; lgetbuf's scan, even stale, stays between `start` and the end of the buffer |
| `CondlockProofs!Stranded` | `StrandedOnlyTogether` | inductive beside the invariant of `Safety`, in two halves. Readers alone: by `ReadersFollowLastWriter` none sleeps when no writer waits. Writers alone (`WritersPassItOn`): the last reader and every writer wake somebody when they leave, and with no reader in `cnd_wait` that is a writer, which goes in. Nothing is claimed when both sleep, which is the case of `condlock_stranded` |
| `SharedProofs!ShareSafety` | `ShareTypeOK`, `RefsReachLiveMemory`, `FreedByTheLast`, `CountExact` | the count is exact because every reference reaches its object through its variable; a count of 1 is then the last reference, so nobody else is about to free; a variable in the middle of a free has no reference of its own |
| `SharedProofs!EventSafety` | `SoleWaiterNeverRaces` | what the poll of a lone waiter saw is still there when it reads, or the descriptor is not (`ReadyIsReady`), for only it reads; and a descriptor is closed, or about to be, only after the event was full, a poll interrupted or `cpr_freeevt` called (`ClosedForAReason`) |
| `SharedProofs!ServiceSafety` | `LinesWhole` | the threads between lock and unlock are the mutex's one holder, and what `cpr_logger` wrote ends with the line of that thread as far as it has come |
| `SequentialProofs!PagerSafety` | `PagerTypeOK`, `BlocksApart`, `PagesWithinLimit` | while no sum has wrapped every block ends at or before `used` of its page, which `BlocksApart` does not say, so a block that begins there meets no other; a request that wraps makes an end of that and leaves the count of pages right (`PagerWeak`) |
| `SequentialProofs!KeySafety` | `RoundTrip`, `NothingInvented`, for documents the format can hold | at every place of the loops of `save_keyfile`, loading the lines printed so far gives that much of the document, each section's keys in the opposite order; a torn line adds a part of nothing. One line more is one round of `LoadLine` more, which is the induction over the file |
| `SequentialProofs!MemSafety` | `AcceptedKept` | every call writes at `put` or behind it; a NUL below it replaces a delimiter |
| `SequentialProofs!BitSafety` | `BitsetIsSet` | bit by bit: bit i of byte b is set exactly when 8b + i is a member, padding included; the count, while no padding bit is set, and the lowest member follow from the bijection between the two |
| `SequentialProofs!TimeSafety` | `DeadlineKept` | in nanoseconds: the normalised `timespec` is the deadline asked for, and the clock was read in the past; division by a million loses less than a millisecond, also when nothing is left of it |
| `SequentialProofs!LineSafety` | `EchoIsLine` | a line that is not finished has room for one more character; the bytes sent move the terminal as the line is edited |
| `SequentialProofs!CastSafety` | `LatestSocketRight` | the global is the interface of the socket made last (`GlobalIsLatest`), and a join or a drop of a group of the other family leaves those of its own alone |
| `SequentialProofs!StringSafety` | `StringTypeOK`, `StringHoldsText` | inductive byte by byte: the string begins with the text and its NUL (`Holds`), so the text found in it is the text; every call but the changes of case writes a part of a text and a NUL from some place on, one lemma for all (`PutHolds`); trim and chop find the blanks their references drop |
| `SequentialProofs!BufferSafety` | `BufferRight` | a buffer that was returned as a string has a NUL somewhere (`HoldsSome`), which each call keeps or sets, whatever the buffer began with and a refused `cpr_strlong` left in it; after `cpr_strlong` the string is the sign and the digits turned round, and the value of its first n digits is what the loop had left n rounds before its end |

Only model-checked: liveness (`ServedUnlessOvertaken`, `FinishEnds`, `PutEnds`,
`Delivery`, `EventDelivered`), which needs fairness and is out of the prover's reach.
Every invariant and every action property of the passing runs is stated by a theorem.

## 6. Not modelled

* `address.c` and the rest of `socket.c` pass their arguments to `getaddrinfo`,
  `setsockopt`, `ioctl` and the like; what they change is kept by the operating system.
* `system.c` and `endian.h`: file status, terminal settings, byte order; no state.
* Thread creation and joining, `cpr_waitbuf`, `cpr_until`, `cpr_sleep`: they wait in
  the system.
* The memory wrappers, the hexadecimal conversions, comparisons of strings,
  `string_clone` and `string_scanf`: no state is changed, or a copy is made byte by byte.
* `malloc` that fails is modelled where the call then leaves something behind
  (`Mempager`), not where it only returns NULL.
* The Windows branches; formats and their arguments.

## 7. Running

    tlc -config Pipeline.cfg Pipeline      # a run; see PROJECT.json for all
    tlapm PipelineProofs.tla               # the proofs of a module
