# TLA+ for the UULP exercises

The repository holds exercises for "Understanding Unix/Linux Programming" and some
programs of its author's beyond the book: thread synchronisation (`src/thread`), talk
programs over sockets (`src/ch15`), signals and timers (`src/ch07`), a shell (`src/ch08`)
and file tools (`src/ch01` to `src/ch06`). Most programs are one file with one `main`;
nothing links across files except the talk servers and their client, which meet over TCP.

## Inventory

| Part | State | Operations | What is hard | What makes it correct |
|---|---|---|---|---|
| `thread/producerConsumer1.c` | mutex, condition variables, `food_num`, `food_arr`, `testTime` | produce, consume (one condition variable), and an improved pair (two) | wakeups taken by the wrong side, spurious wakeups, the unlocked `testTime++` | the buffer is a bounded stack, nobody sleeps for ever, phases end |
| `thread/producerConsumer0.c` | one mutex, the buffer; `main`'s foods on its stack | order, produce, consume | `main` hands out pointers to dead locals, `producer_pt` is too small | what is ordered is made, and nothing else |
| `thread/philosopher.c` | one mutex per chopstic | take right, take left, put both | circular wait, threads started one by one | neighbours take turns, only the full circle sticks |
| `thread/readerWriter{,2,3}.c` | mutexes or a rwlock, `reader_num`, the message | read, write | a lock taken by one thread and released by another, starvation | a writer is alone, the promised side goes first |
| `ch15/talk_server_manage_select.c` | client table, fd sets, `maxfd` | accept, login, choose, forward, leave | descriptor reuse, hang-ups between select and the scan, a blocking login | tables agree, only the gone are closed, everybody is served |
| `ch15/talk_server_manage_thread.c` | the same table, no lock | the same, a thread per client | every access to the table races | a thread has its slot to itself |
| `ch15/talk_client1.c` | connection | name, lines, close | may end at any moment | environment of both servers |
| `ch15/talk_server.c`, `talk_client.c` | one connection, `timeout`, `count` | talk, give up when idle | `timeout` not set again, `count` never reset, a read after a write in one round | a talk is given up when silent and only then, reads do not block |
| `ch07/bounce2d.c` | ball, board | timer handler, speed and board keys | keys between any two ticks | ball and board stay in the field, each axis that may move does |
| `ch07/bounce1d.c` | column, direction, interval | timer handler, turn and speed keys | an unsigned comparison, an interval doubled without limit | the word comes back, the timer goes on |
| `ch08/psh2.c` | line, commands, words, child, SIGINT disposition | read, cut, fork, exec, wait | boundaries of the cutting, ^C at any moment | what was typed runs, in order, and is waited for |
| `ch02/mytail.c`, `myhead.c` | file position, a block, lines counted | arguments, search from the end, print | block boundaries, the newline at the end, swapped counts of `fread`, pipes | the lines or bytes asked for are printed |
| `ch03/myls.c` | option letters, directory position | options, list | files that go between `readdir` and `stat` | all that is to be seen is listed |
| `ch01/mymore.c` | lines of the page, terminal mode | show, ask, go on | three ways to set a count | no page scrolls past |
| `ch06/line_edit_6-6.c` | buffer, count, screen | type, delete, end | the screen cannot go back over a line end | the screen shows what is stored |
| `ch04/myPWD.c` | inode numbers, path | climb to the root | mount points | the path is right below them |
| `ch02/mycp.c` | both files, a block | read, write | files that overlap, failed writes | source intact, destination overlaid |
| `ch08/8.4.c`, `8.5.c` | one open file, two processes, stream buffers | write, fork, close | order of writes, buffers copied by `fork` | nothing is lost or overwritten |
| `ch06/testSignal.c` | parent, child, a signal on its way | fork, sleep, look, signal, wait | the handler may be late, the child gone | the child is reaped |
| the rest | | one-call demonstrations, formatting | | not modelled; `PROJECT.json` lists each with the reason |

`PROJECT.json` lists under "hazards" what is hard to test in this code, line by line, with
the properties that would notice. Some are in the models and no property forbids them,
because nothing in the repository promises the contrary: lines that TCP joins, the word
driven far off the screen, DEL as the first key, the child that is too slow for its handler,
mount points, lines longer than `myhead`'s buffer. Their notes say so.

## Modules

### The food buffer

`FoodStore` is the promise: a stack of at most `FOODNUMMAX` foods. `ProducerConsumer1` is
the program. `pc[t]` is the line a thread has reached, and an action is the code between
two points where another thread can interfere: the reading of `testTime`, its load and its
store (no lock protects them), the lock, the test of each `while` around
`pthread_cond_wait`, the two halves of the wait, the stores of a food, the counting with
the signal, the unlock. The file holds two programs. `Spec` is the one `main` starts, with
`cond` for both sides; `Spec2` is the improved version with `cond_full` and `cond_empty`.
They share all actions, which take the condition variables as arguments.
`pthread_cond_signal` wakes any one sleeper, and sleepers may wake unasked, as POSIX
allows.

### Philosophers

`Philosopher`: `main` creates the threads in order (`Create`) while the first already eat;
`TakeRight`, `TakeLeft`, `PutRight`, `PutLeft` are the four calls of `eating`. It deadlocks,
as the source says, so its run does not check for deadlock; it checks instead that the
full circle is the only way to get stuck.

### Readers and writers

`SharedMessage` is what all three programs promise: readers together, a writer alone,
writes appended. `ReaderWriter`, `ReaderWriter2` and `ReaderWriter3` are the programs,
`ReaderWriterThreads` the constants they share, and `ReadersWriters` runs one of them per
behaviour (`program`) and states what holds of all and what of each. `reader2`/`writer2` of
`readerWriter.c` differ from `reader`/`writer` only in comments and are not repeated.
The constant `ReadNumLockWorks` says whether an all-zero mutex can be locked: the
initializer of `g_msg` misses `readNum_lock`.

### The talk servers

`Talk` holds what the servers share: the clients (`talk_client1.c`), TCP as far as the
servers notice it (coalesced reads, end of file, reset, SIGPIPE), and the table of clients
with `findPeople`, `findClient` and `findAvailable`. A client takes whatever reaches it first
for the login prompt, also a line that was meant for the last user of its descriptor. An
operator that returns an index in C is the set of indices that match here: `TalkSelect`, where
nobody changes the table meanwhile, takes the first.

`TalkSelect` is `talk_server_manage_select.c`. It is sequential between two blocking calls,
so an action is one branch of the scan; `tmp_fds_set` is what remains of it. It blocks in
`select` and in the read of the login name, and `pc` says which. `linked` is history: which
slots were connected to which client.

`TalkThread` is `talk_server_manage_thread.c`. Threads race for the table, so an action is one
access to it, and the searches go from slot to slot (`LookOn` in `main`, `FindNext` for a name,
`LeftNext` for a partner) while the table changes. Only a thread's search for its own slot is
one step: no other slot ever holds its descriptor (`SlotsAreOwn`). A thread is named by its
descriptor, which `accept` cannot give out again before the thread's last step, `close`.
`named` is history: the name a thread stored. A store to `clients_sock_map[-1]` (line 107) is
taken to land outside the data modelled.

### The talk pair

`TalkPair` is `talk_server.c` and `talk_client.c`, two `select` loops that differ in a few
places (`p = "server"`, `p = "client"`). An action is one system call's worth: `select` that
finds something (`Select`) or runs out (`TimesOut`), the branch for the user's input, the
branch for the connection. Between them the other side and the users act, and seconds pass
(`Tick`). `SelectUpdatesTimeout` says what the system's `select` does with `timeout`.
`silent` is history: seconds since `select` last found something.

### Ball and word

`Bounce` is `bounce2d.c` and `BounceMessage` is `bounce1d.c`. `ball_move` and `move_msg` run
on SIGALRM between two steps of `main`; neither side writes what the other writes, except
`dir` of the word, where a torn update has the same outcomes as an untorn one. So one key or
one tick is one action.

### Shell

`Shell` is `psh2.c`: `Pieces` is the loop both `split2ArrByChar` and `conver2List` contain.
The shell, its child and the terminal act on their own. `ran` is history: the commands of
the line that got a child. `RunsWhatWasTyped` compares it with `Commands`, which finds the
words of a line without scanning.

### The polled food buffer

`ProducerConsumer0` is `producerConsumer0.c`. Its threads hold the mutex for a whole round,
so a round is one action; what is hard is `main`. It fills a food declared in the body of a
loop field by field (`FillField`), hands its address to a thread (`CreateProducer`) and goes
on; the thread copies the food field by field (`CopyField`), later. Two things are undefined
behaviour of the source: where the foods are, after their blocks have ended, and what lies
behind `producer_pt`, which is too short. `OnePlace` says whether the compiler gives the foods
of both loops one place (gcc does), `place` which one a producer's is in; a store behind
`producer_pt` may spoil any fields of them. `producerConsumer1.c` has the same `main`.

### Files and terminals

`TailHead` is `mytail.c` and `myhead.c`, whose arguments and numbers (`Calls`, `str2int`) are
alike. A file is a sequence of newlines and others; `Locate` is one block of the search from
the end, `HeadLine` one `fgets`, `FreadOne` the `fread` with swapped counts. A missing file is
not noticed, and the program crashes. The empty name means standard input to both, although
`mytail` says it takes none (line 156): a file, or a pipe, in which there is no seeking.
`PrintsWhatWasAsked` is what the programs' comments say, of lines (`TailPrintsLines`) and of
bytes (`BytesAsAsked`); neither holds. `PrintsRightPart` is what is left and holds:
`StopsAtNewline`, the search ends right behind the Nth newline from the end; the last N lines
where the file does not end with a newline; `HeadPrintsLines`; nothing but bytes asked for. All
compare what is printed with definitions that know nothing of blocks.

`MyLs` is `myls.c`: the options are collected in `main` and looked at after the directory has
been opened; an entry may be gone when `stat` comes to it, which ends the listing.

`MyMore` is `mymore.c` up to the keys: `domore` shows lines and asks after a page, `main`
goes through the files. Two history variables say how many lines the last key granted and
how many were shown since.

`LineEdit` is `line_edit_6-6.c`, which turns echo off and does the screen itself. `screen` is
what backspace-blank-backspace leaves on it. A store outside the buffer ends the model.

`MyPWD` is `myPWD.c`. The directories are chosen while the climb meets them, with any
numbering in which entries of one directory differ; `mounts` remembers which were mounted
roots. `MyCp` is `mycp.c`, with writes that fall short.

### Processes

`ForkFile` is `8.4.c` and `8.5.c`: two processes, one open file with one offset, and in
`8.5.c` a stream buffer each, which `fork` copies. `TestSignal` is `testSignal.c`.

### Tools and Exercises

`Tools` puts the single programs above into one module, under variable names that do not
clash. `Exercises` adds the philosophers, the talk pair, the ball, the word and the shell,
runs one program per behaviour (`program`) and restates their properties: `ScreensAgree` is
the pager's `PagesFit` and the editor's `ScreenIsBuffer`, `FilesHold` is `WritesSurvive` of
`ForkFile` and `CopiesOver` of `MyCp`.

## Runs

| Run | Instance | Shows |
|---|---|---|
| `pc` | 2 producers, 2 consumers, 4 places, as in the source, one food; both versions | `TypeOK`, `NotAllAsleep`, `WakeupsCoverSlots`, `ImplementsFoodStore`, `PhasesEnd`, `ConsumersServed` |
| `rw` | 3 readers, 2 writers, `MAXMSG` 3; three programs | exclusion, refinement of `SharedMessage`, preference, starvation |
| `rw_zeroed` | the same program with `ReadNumLockWorks` false | finding: a writer writes while somebody reads |
| `talk_select` | 3 clients, 2 slots, descriptors 4 to 6, 1 name, 2 messages in flight | `TablesAgree`, `OnlyTheGoneAreClosed`, `NobodyIsForgotten` (`LinesAreRead` and `LeaversAreRemoved`) |
| `talk_single` | 3 clients, 3 slots | finding: lines go to a stranger |
| `talk_thread` | 2 clients, 2 slots, 1 name, 1 message in flight | `SlotsAreOwn`; `NobodyIsForgotten`, with two clients logged in that link, leave and fall silent |
| `talk_thread_newcomers` | 2 clients, 1 slot, 2 messages in flight | `NewcomersAreAnswered`, while the other client has the slot |
| `talk_thread_names` | 2 clients, 2 slots | finding: a leaver erases a newcomer's name |
| `exercises` | philosophers: 5, as in the source | `NeighboursTakeTurns`, `StuckOnlyInCircle`, `MealGoesOn` |
| | talk pair: timeouts of 2 and 1 seconds, `MAX_COUNT` 1, 2 lines in flight, `select` leaves `timeout` alone | `ReadsDontBlock`, `GivesUpInSilence`, `IdleIsClosed` |
| | ball: a field of 5 by 5, a board of 2, times to move from -2 to 2 | `InField`, `BallGoesOn` |
| | word: 2 letters in 5 columns, `INT_MAX` 31, turned round up to 4 columns off the screen | `WordComesBack`, `TypesOK` (the interval stays positive) |
| | shell: all lines of up to 4 characters over two letters (one of them the word `exit`), `;` and blank | `RunsWhatWasTyped`, `ChildrenAreWaitedFor`, `LinesEnd` |
| | tail, head: every file of up to 5 characters, buffers of 3, every call with up to 4 of 8 words | `PrintsRightPart` |
| | ls: up to 3 entries, 3 words, letters `a`, `l`, `i` and a wrong one | `PrintsRightPart` (its part `ListsAll`) |
| | more: pages of 3, files of up to 7 lines, any number of them; line editor: lines of 3, a buffer of 4 | `ScreensAgree` |
| | polled buffer: 3 producers, 3 consumers, 2 places, two foods apart | `FoodsAsOrdered` |
| | pwd: 4 inode numbers, 3 levels | `PathIsPrinted` |
| | 8.4, 8.5: two processes; cp: files of up to 3 bytes, buffers of 2 | `FilesHold` |
| | testSignal: one parent, one child | `ChildIsReaped` |
| `food_shipped` | 3 producers, 1 consumer, 5 places, as in the source, `OnePlace` | finding: a producer of hambergers makes coke |
| `tail_head` | every file of up to 4 characters, buffers of 3, calls over 4 words | finding: `-c` prints a byte at most |
| `talk_pair_linux` | timeouts of 2, `MAX_COUNT` 1, `select` updates `timeout` | finding: a talk in use is given up |

Bounds. `Phase1` and `Phase2` (10 and 20 in the source) are 1 and 2: a late store can still
take `testTime` back over both thresholds. The four places and two threads a side are those of
the source; one place with as many threads deadlocks, as the comment at its lines 164 to 171
says. One food will do where only the number of foods matters; that they leave in the order of
a stack, whatever they are, is proved (`BufferIsStore`). Readers need three to have a first, a
last and one in between; writers two to compete. Three clients for two slots and three
descriptors fill the table and leak a descriptor in `AcceptFull`; `accept` may also fail at any
time, for want of a file in the process or the system (`AcceptFails`). `MaxInFlight` bounds
what is unread in all connections together: two make names and lines run together and lines get
lost behind one another. Clients come back, so descriptors and slots are reused without bound.
Two slots let a thread of the threaded server work while another waits in `read`, and let
clients link to each other and leave; with one slot the second of two clients is turned away.

The talk pair's `MAX_COUNT` of 1 stands for the 5 in `count++ > 5`: `count` is tested before
and after it has been counted up. With `MaxDrift` 4 the word of two letters gets to where
its column and length add up to less than 0, and where the unsigned comparison turns over.
`IntMax` 31 is six bits of an `int`: the interval 5 doubles to 20, and 20 to 40, which is
-24. Times to move of -2 to 2 hold a stopped axis, one that moves each tick and one that
waits. Lines of four characters hold two commands, or two words and a separator at either
end; `TypesOK` gathers the type invariants of all programs.

Blocks of 3 for files of up to 5 characters give a file two blocks, the first whole or
partial, with newlines at either side of the boundary; `fgets` breaks a line of 3. Pages of 3
in a file of 7 lines leave room for a page, a line and a page. The editors' buffers of 3 and
4 are filled, ended and overrun. Three producers make one hamberger and two cokes, the second
of which `main` orders over the first. Four inode
numbers make every entry of a directory different (itself, `..`, the one left, one more),
and three levels hold a mount under a mount. Two blocks of 2 cover a source of 3 bytes over
a longer, shorter or equal destination.

Deadlock is checked for the buffer and the readers and writers. It is not for the
philosophers, which may stick, the talk servers, which stop when SIGPIPE ends them, and the
programs of `Exercises` that end.

Fairness. Threads run when they can: weak fairness of each thread's own steps. Where
threads wait for a mutex, strong fairness: everybody sleeps for a second between two uses, so
waiters find the mutex free again and again, and POSIX systems do not pass them over for
ever. For the food buffer strong fairness of each side is enough, so it is not assumed of
each thread. `pthread_cond_signal` is not fair: which sleeper wakes is left open. Users of talk are
not fair at all; they need not type. The select server's liveness is stated under
`[]<>(pc = "select")`, because a client that never answers the login prompt stops it; the
threaded server's needs no such condition. In `Exercises` processes run when they can, time
passes (`Tick`, the interval timers), programs started by the shell end, and a signal that
was sent arrives (`Deliver` of `TestSignal`); nobody need type a line or press a key.

## Findings

Six runs expect a violation; `PROJECT.json` quotes the sentence each contradicts.
`rw_zeroed`: the missing initializer of `readNum_lock` lets a writer in. `talk_single`: a
link to a leaver survives it, and its descriptor is given to a newcomer.
`talk_thread_names`: a slot is free before its old thread is done with it.
`talk_pair_linux`: `timeout` is set once per connection and Linux's `select` uses it up.
`food_shipped`: half of the producers are to make hambergers, but gcc gives `main`'s foods one
place, and the threads copy them late. Where they are kept apart the shipped sizes fail as
well, as `producer_pt` has one place for three producers and an order may lie behind it.
`tail_head`: `-c` prints at most one byte, in both programs, as size and count of `fread` are
swapped. With that repaired the lines would still be wrong: `mytail` (99, 121) counts the
newline at the end of the file, so an ordinary text file is shown one line short.

Some properties say what the code does where that may surprise; no sentence of the
repository says otherwise, or the sentence is only a note to a line, so they are no findings
of their own. `myls` wants the path before the options, its comment (line 11) after them.
`mymore` gives a line for blank and a page for Enter, the comments of the earlier `seemore2`
(83, 86) say it the other way round; it leaves the terminal without echo (line 205 sets the
new modes again). `myPWD` names the wrong directory, or crashes, at a mount point. What
`8.5.c` printed before `fork` is in the file twice. `mycp` leaves the end of a longer
destination.

## Proofs

`ProducerConsumer1_proofs`, for all finite non-empty sets of threads and all buffer sizes:
`TypeCorrect` and `TypeCorrect2` from the invariant `IInv`, which adds to `TypeOK` that at
most one thread is inside the lock and holds it (`OneInside`), that producers and consumers
stay in their parts of the code (`SidesApart`), and that what a thread tested before
filling or eating still holds (`TestStillHolds`), without which the indices into `food_arr`
could not be bounded. `NoLostWakeup` needs two condition variables: with `OwnCond` (only
producers sleep on `cond_full`, only consumers on `cond_empty`) it shows
`WakeupsCoverSlots`, a counting argument over the threads that are awake on their way to
the buffer; from it `ImprovedNeverAllAsleep` follows, since a buffer cannot be full and
empty. `BufferIsStore` and `BufferIsStore2` map each step to a step of `FoodStore` or a
stutter: a food leaves the stack when a consumer reads it, before `food_num--`.

`ReadersWriters_proofs`, where `readNum_lock` works, for any finite set of readers, any
writers and array. `WritersAreAlone`: each of the three programs has an invariant of its
own. In the first, outside the update `reader_num` is the number of readers that have
entered and not left (`CountRight`), the group holds `writer_lock` exactly while it is not
empty (`GroupHolds`), and which member holds it does not matter. In the second the same
count is of the readers past their first update (`CountsAdmitted`), and the program places
say who holds which of the three mutexes; in the third they say who is in the rwlock.
`ReadersGoFirst` and `WritersGoFirst` are the preferences of the first two programs,
`TypesAreRight` the types. `KeepThePromise` maps every step of the three programs to one of
`SharedMessage` or to a stutter; it needs exclusion and, for the place of the NUL, that
between a writer's test of the array and its write nobody else writes (`MessageFits`).

`TalkThread_proofs`: `SlotsStayOwn`, for any clients, slots and descriptors (as many as fit
below `MaxFd >= 3`). A descriptor is open exactly while its thread runs
(`OpenWhileAlive`), so `accept` never hands out that of a running thread, and the indices
are set before they are used (`IndexKnown`). Only the thread itself empties its slot, and
before it closes its descriptor.

`TalkSelect_proofs`: `TablesStayAgreed` and `OnlyTheGoneGo`. The tables alone are not
inductive: the slot being filled in during the login is taken (`LoginSlot`), and no client
has two connections (`Connected`), so a read from one never empties another. From this
`StillReadable` follows: what `select` found readable is readable when the scan comes to it,
and if `FIONREAD` says 0 there, the client is gone.

The theorems about the small programs are in `Exercises_proofs`, from `ExercisesSpec`; what
a program keeps is proved from its own module's steps, in `Tools_proofs`, `Printing_proofs`
and `Shell_proofs` for the longer ones, and `Moves` says that a step of `Exercises` is, for
each program, a step of its module or none. So each of the following holds for every value
of the program's constants:

- `TurnsAreTaken`, `OnlyTheCircleSticks`, from two philosophers on. The invariant relates
  hands to program places (`HandsMatch`, `OwnChopstics`) and says threads are created in order.
- `BallStaysIn`, for every field with room for board and start, and all intervals. The ball
  may turn only after a step, so the invariant says that on an edge it already heads for the
  field (`HeadsIn`) unless the game is over, and that a counter never passes 1 (`CountsRun`).
- `ReadsDontWait`: only the reader itself takes away what `select` promised it, and a side
  that has closed does not come back before the other has noticed. `SilenceBeforeGivingUp`,
  where `select` leaves `timeout` alone: what a side has waited in silence and what is left in
  `timeout` are together a whole timeout at least (`SilenceAddsUp`).
- `TypedCommandsRun` and `NoChildIsLeft`. What has run is always the first so many commands of
  the line, none an `exit`, and the program place says how many (`Ran`). That is a statement
  about `Commands`, while the shell runs what its loops cut out, so the rest of `Shell_proofs`
  shows that the two are the same for every line. A piece is cut at a place that is no blank
  and has, up to a separator or the start, only blanks before it (`Begins`); the recursive
  function of `Pieces` is the sequence of all pieces in their order (`PiecesAre`). Each piece
  between semicolons begins at the first word of a command, different pieces have different
  numbers of semicolons before them, and each number that a word has is a piece's
  (`PieceNumbers`); within a piece the words begin where blanks end (`PieceWords`). A rising
  map onto a set keeps its order (`InOrderMapped`), which makes sequences of such sets.
- `RightPartPrinted`, which is `PrintsRightPart` and not more: the lines and bytes that
  `PrintsWhatWasAsked` demands are not printed (`tail_head`). `mytail` has counted exactly the newlines behind its place (`Searched`):
  what is counted in two neighbouring ranges adds up to the range of both (`CountSplits`), so
  it does not matter where blocks end. `myhead` has printed the beginning of the file, in whole
  lines where lines fit its buffer (`Shown`). The listing of `myls` holds the wanted names among
  those read so far (`ListedRight`), and its flags are what any option word asks for.
- `OrdersAreMade`, for builds that keep the two foods apart (`~OnePlace`) and for no more
  producers than `producer_pt` has places (`PRODUCERNUM <= CONSUMERNUM`). These are hypotheses
  of the theorem; `food_shipped` shows what happens without them. A
  producer finds its order where `main` put it (`OrdersStand`), since hambergers are all
  ordered before the first coke and have a place of their own, and what `main` has filled in
  stands until the thread is created (`FilledStands`).
- `FilesStand`. The offset of the shared file is always at its end, so a write appends; what a
  process has written by its program place is in the file once and in one piece
  (`ForkFileHas`). `mycp`'s buffer holds what the source, as it was, has behind what is copied
  (`BufferIsNext`), also when it copies a file onto itself.
- `ScreensStand`. What the pager may still show is what is missing from the page (`MoreInv`). The
  editors' theorem assumes `LINE <= BUF`, as in the source.
- `PathStands`: among four entries the number of the directory left is found under its name,
  unless it is a mounted root (`PwdSearch`).
- `TypesStand` gathers the types of all programs. For the word it is the argument that an
  interval doubled beyond `INT_MAX` is negative, and so not taken.

All invariants of the passing runs are thus proved, except `NotAllAsleep` of the shipped food
buffer: with one condition variable it depends on the sizes, and is false for one place and two
threads a side. It is proved for the improved version. The assumptions are those the modules
name (`...Assumption`); TLC evaluates them. `tlapm` needs a few minutes for each of the larger
modules.

Where a definition is a recursive function (`str2int`, `Pieces`), the proof does not
unfold it: it gives the value directly and shows by the least place where the two would
differ (`Least`) that the function has it.

Model-checked only: liveness, which is beyond the prover (`PhasesEnd`, `ConsumersServed`,
`ReadersServed`, `WritersFinish`, `NobodyIsForgotten`, `NewcomersAreAnswered`, `MealGoesOn`,
`IdleIsClosed`, `BallGoesOn`, `WordComesBack`, `LinesEnd`, `ChildIsReaped`), and the six findings,
which are refuted.

## Not modelled

Text, its lengths and the sizes of buffers (`sprintf` into 128 or 256 bytes, `buf[len]`); the
wording of messages; `clients_name` read while half copied; `client_num` of the threaded
server, which nobody reads; the C library's state when a thread or a handler interrupts it,
which includes curses when the ball's handler draws between two calls of `main`; the shell's
heap (it frees `list[num_arg]`, a null pointer, instead of its words); the columns of `myls
-l`. A key that `bounce2d.c` gets after the end of its input is none: `getchar` returns EOF for
ever and the state stays as it is.

Not modelled as programs, because nothing of theirs depends on an order or a boundary:
`psh1.c`, which reads words and becomes the program they name; `seemore`, `seemore2` and
`seemore3` of `mymore.c`, which nothing calls; `sigdemo3.c`, `sigactdemo.c`, `test_asyn.c`
and `sleep1.c`, each of which shows one feature of the kernel, so that a module would model
the kernel; the demonstrations of `fork`, `wait` and `exec`, of file calls and of terminal
settings; `threadDemo.c`, two threads without shared data.

## Plan

Done: the core (food buffers, readers and writers, talk servers), the small programs, and
the proof of every invariant and action property that holds for all sizes. What is left:

1. `NotAllAsleep` of the shipped version, for the sizes in which it holds.
2. What the talk servers keep of partners and names while nobody leaves: `SingleChat` and
   `NamesStand` under that condition.
3. What the liveness properties rest on and is not itself liveness: that a step of each loop
   brings its end nearer.
