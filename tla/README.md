# bigfish in TLA+

A verification development for bigfish, a small C++ library in the style of
Android's `libutils` (namespace `linuxSys`: reference counting, threads, locks)
with a few device components on top (NAND flash storage, a file store, an INI
parser, image helpers). The modules here model the parts whose correctness
depends on the order of steps: interleaved threads, failures between two system
calls, loss of power. TLC checks small instances; the proofs, checked by TLAPS,
hold for every value of the constants.

## 1. The system

| part | state it keeps | operations | what makes it hard |
|---|---|---|---|
| `RefBase`, `weakref_type`, `sp<T>`, `wp<T>` (`base/utils/RefBase.cpp`, `base/include/utils/RefBase.h`, `StrongPointer.h`) | `mStrong` (with a bias until the first reference), `mWeak`, `mFlags`; one pointer per `sp`, two per `wp` | take, copy, promote, assign, drop; `incStrong`, `decStrong`, `attemptIncStrong`, `attemptIncWeak`, `incWeak`, `decWeak`, `froceIncStrong`; three callbacks | lock-free; the object and its counter block die separately, in one of several orders, on whichever thread releases last |
| atomics (`cutils/atomic.h`) | – | add, or, compare-and-swap | a mutex on the host, instructions on ARM |
| `Thread` (`base/utils/thread.cpp`) | `mStatus`, `mThreadTid`, `mExitPending`, `mRunning` under `mLock`, `mThreadExitedCondition` | `run`, `requestExit`, `requestExitAndWait`, `join`, `_threadLoop` | detached pthread, restart after exit, waiting on oneself, lost wakeups |
| `Mutex`, `Condition`, `RWLock` | a pthread object each | lock, timed lock, wait, signal | deadlines computed from the clock |
| `NANDflash` (`component/nandflash`) | the medium, `blockstatus[256]`, one `readbuf` for all | init, write, read, erase block, close | read-modify-erase-write of whole blocks, bad blocks skipped, every driver call may fail, power may go |
| `DATADB` (`component/filedb`) | the file system | save, read, delete, copy, compare files and directories | truncate-then-write, recursion over directories, unchecked results, check-then-act on paths |
| `IniFile` (`base/utils/iniFile.cpp`) | `Section[20]`, a list of items each; the `FILE*` of an open | open, look up, close | index limits, error returns half way, failures of `getline()` taken for lines |
| BMP, JPEG (`component/jpeg`) | `bmpBuffer` and the headers; buffers handed to and from the caller | decode, encode, scale, convert, write a BMP | libjpeg leaves by `longjmp()`, who frees what, padding and rounding |
| timers, errors, logging, tests, build files, `openLib` | – | – | – |

How they interact. `sp` and `wp` call `incStrong`/`decStrong` on the object and
`incWeak`/`decWeak`/`attemptIncStrong` on its `weakref_impl`; the object calls
back the derived class (`onFirstRef`, `onIncStrongAttempted`, `onLastStrongRef`).
`Thread` is a user of `Mutex` and `Condition`, and calls the derived class's
`readyToRun` and `threadLoop` without its lock. `NANDflash` talks to an MTD
driver through `ioctl`, `lseek`, `read` and `write` on one descriptor. The
components under `component/` share nothing with each other.

What makes each part correct:

* RefBase: no access to freed memory, no leak, counts equal to the references
  held, no way back from a zero strong count, callbacks in pairs, progress of
  the compare-and-swap loops.
* Thread: what an observer may conclude from `mRunning` and from the return of
  `join()`; one pthread at a time; nobody waits for ever or for himself.
* NANDflash: logical addresses map one to one to good blocks; bytes next to a
  write survive it; a failed or interrupted write tears one block at most.
* DATADB: a call changes its destination and nothing else, whatever fails; after an
  undisturbed copy the destination holds the source, and the rest of a longer file
  that was there; a delete that reports success left nothing
  behind; an interrupted save leaves the old file or a beginning of the new one.
* IniFile: the table holds what the lines of the file say and nothing of an
  earlier file; a key is found with the right value; `Section[]` is indexed
  outside its bounds for known reasons only.
* BMP, JPEG: whatever fails, buffers, files and libjpeg objects have an owner who
  frees them; every byte of a picture ends up in its place; scaling takes a
  nearest pixel.

`PROJECT.json` lists the hazards, each at its line, with the properties that
cover it.

## 2. The modules

| module | contents |
|---|---|
| `RefBase` | the reference counting, one action per shared access |
| `Handles` | what smart pointers promise about one object: the abstract specification |
| `RefBaseHandles` | the mapping of `RefBase` to `Handles`, object by object |
| `MCRefBase` | the instances of both for TLC |
| `RefBaseInv` | the inductive invariant `IInv`, and the parts of it that only hold without early promotes |
| `RefBaseCounts` | type correctness and the counting lemmas (proofs) |
| `RefBaseSteps` | each action preserves its part of `IInv` (proofs) |
| `RefBaseProofs` | the theorems about RefBase, among them that it implements `Handles` |
| `Thread`, `MCThread`, `ThreadProofs` | the thread, its instances, its theorems |
| `Nand`, `MCNand`, `NandProofs` | the flash store, its instance, its theorems |
| `DataDb`, `MCDataDb`, `DataDbProofs` | the file functions, their instance, their theorems |
| `Ini`, `MCIni`, `IniProofs` | the INI parser and its table, their instance, their theorems |
| `Images`, `MCImages`, `ImagesProofs` | the JPEG and BMP classes with a program that calls them, their instance, their theorems |

Definitions named after a fault (`X_Fault` before `X`) are plausible bugs of
`X`. They are not part of any specification; substituting one for `X` makes TLC
violate the property `PROJECT.json` pairs it with, which shows that the property
has teeth.

### RefBase

A process is a smart-pointer variable, a *slot*: one thread works on a slot at a
time, the slots run concurrently. `ptr` is its `m_ptr`; `pc`, `this`, `arg`,
`src`, `cur` are the program counter and locals of the operation running on it.
Every read or write of `mStrong` or `mWeak`, every callback and every delete is
one action, in the order of the code; the tests between two of them are part of
the earlier one. The asserts are the definition `AssertsHold`, as a release build
has none; that none of them can fail is the theorem `AssertionsHold`. A read and the tests on it are one step, which loses nothing: nobody
else sees the local.

What a program may do is part of the model, so that it covers what the tests and
headers do (`mytest/spwptest.cpp` makes a `wp` from a raw pointer and an `sp`
after it) and not what C++ forbids anyway: a slot is not changed while another
reads it (`Free`, `Readable`). Three constants open uses that are known to break
something:

* `EarlyPromote`: `promote()` before the first `sp` is complete;
* `RawRace`: a first `sp(T*)` or `froceIncStrong()` racing `promote()`;
* `CopyAssign`: `wp = wp` of the same type with a non-null right hand side.

Memory is modelled by the two sets `objs` and `impls`; a cell is used again
after it was freed. `credit` is a ghost that counts callbacks.

`Handles` says the same without words, labels and interleavings: an object has a
number of strong references and of references of any kind, is `fresh`, then
`weak` (it never had a strong one) or `strong`, perhaps a `husk` (deleted, with
`wp`s left), and then gone; each step is atomic. `RefBaseHandles` maps an object
of RefBase to it: the references are those the slots hold, those an operation is
about to give back and those it has counted and not yet stored. `KeepsPromise` is the refinement:
every step of every slot is a step of `Handles` or a stutter for each object. That
is where a promotion that revives a dead object, a second delete, a delete in the
wrong lifetime mode, or a reference taken from nothing would show, whichever word
went wrong.

### Thread

Each section under `mLock` is one action, split at the condition wait. The
callers may call every public function at any time; a derived class returns any
member of `ReadyResults` and `LoopResults`, and its `threadLoop()` may itself
call `join()` or `requestExit()`. pthread ids are reused as soon as the pthread
has ended. Two defects of the code would make most properties false without
qualification, and excluding the inputs that lead to them would hide everything
else those inputs do. So two ghosts record that they happened: `again`, a pthread
went on after it announced its exit, and `stuck`, a pthread ended without an
announcement (an exit before the first iteration, or a `readyToRun()` that
failed). The properties hold as long as the ghost they name is false, for every
style of `threadLoop()`, any exit requests and any failures. A pthread that waits
in `join()` for another one's exit wakes up again (`SelfResume`). `ExitRequests` and
`CreateMayFail` only narrow the runs that show the two defects.

### Nand

One call at a time, as nothing in the class is locked. The steps of a call are
those between which it can fail or the power can go: the walk over
`blockstatus[]` turn by turn (`SkipBad`, `FoundGood`), reading (`Fetch`, `Fill`),
erasing and programming. A cell of the medium holds a value that tells where it
came from: the initial content, erased, uninitialised memory, or byte *k* of
write *n*, so a byte in the wrong place is seen. The driver refuses bad blocks
and addresses past the end; erasing may fail before or after it took effect,
programming after any page, reading for any set of pages. `write()` may also stop
after any page without an error, which the code takes for success. `blockstatus[]`
beyond the partition keeps arbitrary values. `old` and `lost` are ghosts: the
medium at the start of the last write, and the addresses of the bytes that the
call wanted to read from a page it could not read, or that a short `write()` left
out. The code reports neither (a write goes on with whatever `readbuf` held, a read
reports success), so the content properties hold for every byte outside `lost`: a
read error costs the bytes of its page, a short write those it did not store, and
no other.

`blockstatus[]` has 256 entries (`Entries`), and nothing compares the number of
blocks with it: `nand_flash_init()` of a larger partition writes past the array into
memory of others. The model then stops at the label `astray` until the power
goes: of such a partition nothing is promised, by the properties or by the theorems.
`Lengths` starts at 1 (a call of length 0 returns at once); offset and length are
small enough for the code's conversion to 32 bits to be the identity.

### DataDb

The file system is a set of directories and a function from paths to contents,
a sequence of buffers. A path is the sequence of its names, so the string work
of the code (appending `/` and a name into 256 bytes) is `Append`; paths that do
not fit are not modelled. A call is a stack of frames, one per activation of
`DirCopy()` or `_delete_dir()` and one for the function each is calling. A
system call is a step, with the tests on its result: it succeeds, fails for what
it finds, or fails for no visible reason (`Fails`); after any of them the process
may die. `readdir()` returns each entry that was there when the directory was
opened and is still there, in any order, and perhaps some of those that came
later; an error of it ends the loop like its end. A file system that does not tell
`d_type` is not modelled.

`save_file()` makes the parents of its file with `system("mkdir -p ...")`, and the path
is not quoted. A name in `Split`, one with a blank or a wildcard, is not one word to
the shell: then up to `MaxWords` directories are made that have nothing to do with
the path (`MakeWords`), wherever a path of at most `MaxDepth` names leads, and the
parents of the file may be missing after it. `NothingElse` says that this and no more is what such a call
does elsewhere (`CutUp`). A name with another character that is special to the shell, as `;`,
`>` or `$(...)`, is not in `Names`: there the shell runs what the name says, and of such a path
nothing is promised.

Two failures kill the process: `DirCopy()` reads a directory that could not be
opened, and when the last `remove()` of `_delete_dir()` fails the message about it
prints `ptr->d_name` of the null pointer that ended the loop. The second is why
`DeleteDone` holds: without the crash the function would report success with the
directory still there (`DeleteSelf_PassedOver`). Copying a directory into itself
is excluded, as the recursion would copy its own copy.

### Ini

A line of the file is what is left of it after trimming, told apart as far as the
code does: blank, `[` without `]`, no key or no `=`, a section, an item. An item
also says where it has a `;`, because `parse()` ends the value at the first `;` of
the line only if that one stands after the `=`. The lines come up as they are
read; the ghost `lines` keeps them, and the properties compare the table with
what these lines say by definition (`Heads`, `Nth`, `Own`). The points where the
code is delicate are all steps of the model:

* `getline()` returns -1 when memory runs out, and `open()` tests for 0 only: the
  line of the turn before is handled again, a section by then as the mere text of
  its title (`TitleLine`): a comment if it begins with `#`, an item if it has a `=`
  (`ItemOf` says which), a bad line else. If `realloc()` fails, the head of a long line is lost as well
  (ghost `torn`).
* The index of the section is used before it is tested. What is stored past the
  end or at `Section[-1]` goes to memory of others: the program ends or goes on,
  and the ghost `overrun` is set.
* `open()` closes its file after a line it does not understand, and not at
  its normal end: `files` grows until `fopen()` fails, at `MaxFiles` here.
* `findItems()` does not compare the last item of a section.
* A hexadecimal number is shifted in digit by digit, in a `long`, which has
  `LongRange` values.

### Images

A byte of a buffer is the number of its pixel and its channel (`r`, `g`, `b`,
`a`, gray, or those of CMYK), so that a byte in the wrong place, of the wrong
pixel or from outside the buffer is seen. A call is one step, except where
libjpeg may leave it by `longjmp()`: between any two calls of libjpeg in
`read_jpeg_file()` and `write_jpeg_file()` the error exit may come. libjpeg itself
is external: what it decodes to by default, and that it may give up anywhere.
`malloc()`, `fopen()` and `fwrite()` fail at any time; a `malloc()` the code does
not check ends the program. Reading past the end of a buffer gives junk or ends
the program; raw pictures may be longer or shorter than their size says. The
rounding of `(_U64)(i*rate+0.5)` may fall just below a whole number, in lines and
columns independently. The blocks of a conversion (`Conversions`), of
`fillBitMapBuffer()` and of `createBmpMap()` are allocated and given back one by
one, on each way out. The result of `fclose()` is not looked at in
`createBmpMap()`, so the call may succeed without the file: then `bmpfile` stays
empty.

The code keeps numbers of bytes in an `int`, an `_S32` or an `_U32`, and so does the
model (`S32`, `U32`; `IntLimit` is 2^31): `rgb_size`, the block of
`magnifyImage()`, `imageSize`, `bfSize`, the place of a line in
`write_jpeg_file()`. A negative size makes `malloc()` fail; one that wrapped gives a
block that is too short, which the copy leaves: `pc` becomes `"astray"`, as it does
where an `int` overflows that is not an argument of `malloc()` (there it wraps, as
it does in any build we know of). From `"astray"` the program is only started
again. `ImagesAssumption` asks for lines that fit an `int` at four bytes a pixel:
libjpeg takes no more than 65500 pixels, and a raw picture is written through
libjpeg or set by the caller of `setBitMapSize()`, whose width is restricted by
this.

The program is `component/jpeg/test/main.cpp` in that it loads raw pictures,
passes them on and frees its buffers, with one difference: it looks at the results.
After a late failure `read_jpeg_file()` leaves the address of a freed block in
`*rgb_buffer`, which `main.cpp:40` goes on to use; here the ghost `dangling` keeps
the program from it. To keep the states few it uses one of the two classes at a
time and gives up the buffers of the other first; the classes share nothing, so
no behaviour of either is lost.

## 3. The runs

| run | instance | shows |
|---|---|---|
| `refbase_shared` | 2 objects, 2 `sp`, 2 `wp`, both lifetimes, symmetric; 0.9 million states | memory safety, exact counts, no leak, no resurrection, the bias is removed once; RefBase refines `Handles` |
| `refbase_callbacks` | 1 object, same slots, no early promote | callbacks pair up; no `onLastStrongRef()` while an `sp` is held |
| `refbase_liveness` | 1 object, 2 `sp`, 1 `wp`, fair | the loops are lock-free; what is dropped is reclaimed |
| `refbase_copyassign` | `CopyAssign` | *violated*: `decWeak()` is called too many times |
| `refbase_rawrace` | `RawRace` | *violated*: `mStrong` underflows |
| `thread_all` | 3 callers, 2 pthread ids, every result of the derived class, exit requests, `pthread_create()` fails, fair; 77 thousand states | exit is quiet, one thread, no self-deadlock, no lost wakeup, `mRunning` stays true without a thread only after a known cause, `join()` returns |
| `thread_again` | `threadLoop()` may return true, exit requests | *violated*: an announced exit is not an exit |
| `thread_stuck` | exit requested at once | *violated*: `mRunning` stays true without a thread |
| `nand_store` | 3 blocks of 2 one-cell pages, any bad blocks, one write of any place and of length 1 or 4, any reads, fair; 0.2 million states | exact mapping, bytes in place, order of the blocks, read-back, every call returns |
| `datadb` | all trees of up to 3 nodes, 3 deep, files of none or 2 buffers; one of two names is no word of the shell, which then makes one directory; one call of any function on any paths, one failure, fair; 0.6 million states | nothing else changes, delete, copy and save are complete, every call returns |
| `ini` | files of up to 5 lines of every kind opened again and again, 2 sections, 3 titles, 3 items, one failure of memory per open, fair; 1.1 million states | the table is what the file says, look-ups and numbers are right, overruns have known causes, every `open()` returns |
| `images` | pictures of 3 sizes in 4 raw and 3 decoded formats, one byte too long or short, scaled to any of the sizes; bytes in numbers of 8 bits (`IntLimit` is 128), which 4 x 24 pixels of 3 or 4 bytes do not fit; 1.1 million states | nothing leaks, every byte in its place, nearest pixel |

Why the bounds are enough. In RefBase the protocol is per object: the second
object is there for assignments that release one and take another. Two slots of
each kind give every pair of operations a race, including two promotions, two
first references and a release against each of them; three-way races on the
bias are what the proofs cover for every number. `INITIAL_STRONG_VALUE` is 100
instead of 2^28: `RefBaseAssumption` says what is needed of it, that the slots
cannot count up to it. In Thread two ids allow a restart with the same or another
id, three callers allow two waiters and a runner. In Nand three blocks allow a
first, a middle and a last block, or a bad block before, between and after
good ones; two cells per block make every alignment: length 1 is a part of a
block, 4 is two whole ones or a part, a whole and a part. One write suffices: the code never looks at what it stores, each cell of the
initial medium has a value of its own, and so that medium stands for
whatever earlier writes, interrupted or not, left there. In
DataDb one call suffices as it starts from any tree, also one an interrupted call
left; three nodes make a directory in a directory with content, a source and an
existing destination, or two entries whose order matters; one failure is enough
to be ignored, one word of the shell to be elsewhere. In Ini two sections leave room for none, one, both, and for a third
that is one too many; a section title occurs twice; a section can have its last
item and one that is found, or two with one key; one title is an item, one
neither, one empty (a title that is a comment is handled like an empty one). In Images the widths give lines
of one, two and no bytes of padding, the sizes scale up, down, by whole and by
broken rates; the third fits its number of bytes when it is gray, wraps to a
short block in RGB and to a negative size in CMYK.

Fairness. `refbase_liveness`: a thread inside an operation is scheduled again
(weak fairness per slot); nothing forces a program to start or drop anything.
`thread_all`: pthreads and woken waiters are scheduled, `mLock` is always
released, and a `threadLoop()` that may return false finally does (strong
fairness of that result; without it the thread is meant to run for ever);
`JoinReturns` excepts programs that start the thread again for ever, where a
waiter may be overtaken each time, and the defect `stuck`.
`nand_store`, `datadb` and `ini`: a call that started goes on; an `open()` ends
because its file does (`MaxLines`, external) - what the run shows is that no
failure of memory keeps the loop in place. All of it is the
scheduler's, none of it is assumed of the code. `images` states no liveness: its
calls are bounded loops over a picture. Only `datadb` turns off the
deadlock check: after its call the program is done.

## 4. The proofs

All proofs are checked without omitted steps, for any number of objects, slots,
callers, pthreads, blocks, nodes, lines and pixels. Each invariant named below as the
inductive one was checked by TLC on the instance of section 3 before it was
proved. `PROJECT.json` lists the theorems with the property each one states.

*Reference counting.* `TypeCorrect` holds without assumption. Everything else
follows from `Invariance`, `Spec => []IInv`, under `~CopyAssign` and `~RawRace`
(early promotes are allowed). The safety properties are not inductive: that a
release finds its memory depends on the counts being exact, and these depend on
who may act on a cell. `IInv` therefore consists of

* the shape of the locals at each label (`Shape`, `SrcKnown`, `CurTested`,
  `LifetimeKnown`);
* `SrcHeld`: the slot an operation reads stays as it is until the reference
  taken from it is counted, so there is always a count behind a pointer;
* `WeakCountExact` and `StrongCountExact`, stated with the sets of slots that
  hold a count at their label;
* consequences of a count of zero: who brings `mWeak` to zero is alone with the
  cell (`ZeroAlone`), a new object is known to its creator only (`FreshAlone`),
  the last strong reference has one holder (`LastOnce`, `DeletePending`);
* the bias: no `sp` holds a biased object (`HeldUnbiased`), and `incStrong()`
  takes a first reference alone (`FirstAlone`) - what `RawRace` breaks;
* what is alive: `RefsAlive`, `ObjectGone`, `ZeroDeletes`, `NoLeak`.

The argument counts: a step touches one slot, so the cardinality of each set
changes by at most one (`RefBaseCounts`), and the balance of that change with
the change of the word is checked action by action (`RefBaseSteps`).
`MemoryIsSafe`, `WeakIsExact`, `StrongIsExact`, `AssertionsHold`, `NothingLeaks`,
`DeadStaysDead` and `BiasGoesOnce` are its corollaries.

The refinement (`PromiseKept`, `ImplementsHandles`): `PromiseStep` shows for
each action that every cell either keeps its mapped state or takes the one step of
`Handles` the action stands for. The cells the acting slot does not work on keep
theirs (`RunElsewhere`); those of the silent steps do so because the references of a
slot move from one of its places to another (`RefsMove`); the deletes are where
`IInv` is needed, as the mapped counts must be zero. The one fact `IInv` lacks is
`FirstKnown`: a slot that takes a first reference holds a pointer to the object.

The callbacks (`CallbacksArePaired`, `LastIsLast`) need `~EarlyPromote` as well,
as the run does. Two invariants carry them: `BiasGoneBefore`, a promotion never
meets the bias, and `CreditExact`, which extends the count of grants to the
moments between: the grants are one while a strong reference exists, plus those
given and not yet counted (`Granted`), less those counted and not yet given (`Owed`).

*Thread.* `OnceSafe`, `OneLivePthread`, `NoSelfWait`, `WakeupsArrive` and
`RunningExact`, for every choice of the constants: any style of `threadLoop()`, any
exit requests and failures. The invariant `OnceInv` adds to the first that as
long as no pthread went on after its announcement (`again`), there is at most
one live pthread and it is the one `mThreadTid` names, so that it can never mistake
itself for another; without that ghost a waiter still implies `mRunning`. The
ghosts stand where the runs `thread_again` and `thread_stuck` show that an exception
is necessary.

*Nand.* `BadBlocksSkipped` is about partitions `blockstatus[]` has room for (of others
the model says nothing): the loop invariant of `nand_get_good_block()` is that
`total` counts the bad blocks below `index1` and `index2` is the address plus
`total`; when no bad block is left in the interval, the block found is good and
has as many good blocks below it as the address says; and for an address the
good blocks can hold the walk stays in the entries that were initialised
(`WalkInside`, which is only proved and not run). `WriteInOrder`, `WriteExact` and
`ReadExact` follow from `StoreInv`: that mapping (`MapInv`), the place of the call in
its range with the types of everything (`CallInv`), and for a write that the
logical blocks below the current one are rewritten, those above are as they were
and the current one is what its label says - untouched, erased, or programmed up to
a page (`WriteInv`); `ReadInv` says the same of a read and its buffer. The link
between the two halves is that the mapping is injective and monotone (`BelowMono`,
`BlockOfIs`), so that no step on one block touches another.

`CallsAreFinite`: each step of a call makes the number `Left` smaller and leaves it
natural. It is the logical blocks the call has left, each worth the steps a block can
take, and within a block the label and the bad blocks ahead of the walk; that a bad
block the walk has passed cannot come back is `FewerBad`.

*DataDb.* The inductive invariant is `Control /\ FilesOK`: the stack is a chain of
calls each working one name deeper than its caller (`StackOK`), the top has what its
label needs (`OpenOK`), the bottom frame belongs to the call (`CallOK`,
`BottomOK`), the file system is a tree. `TouchesNothingElse` adds `Contained`, a
condition on steps: what a step writes lies at or below the destination of the
top frame, and that below the one of the call, with `CutUp` as the one exception, for directories
only. `DeletedIsGone` needs an argument about
paths: `rmdir` of a directory took an empty one, so nothing below it is left, as
the ancestors of a node exist all the way up (`Ancestors`, by the well-ordering of
the naturals). `SavedInOrder` is an invariant of its own, `SaveInv`.

`CopiedWhole` is the longest of these arguments, as `DirCopy()` looks at no result of
what it calls. `DirCopyInv` says that every node of the source is copied or is
`Pending` to some frame of the stack (`Covered`): to a frame that starts, all it was
called for; to one that scans, what is below its entries not yet done; to one of
`FileCopy()` or `CreateDir()`, its one node. A frame that returns has nothing pending
left; one that calls splits what it had. For that each frame must work on a node of
the source towards its place (`FramesIn`), a scanned directory must be there or be
made by the frame on top (`Made`), the place must not be taken by a node of the other
kind (`Room`), and the tail of a longer old file must still be there (`Tails`). The
source itself is untouched because nothing is below or above both of two paths that
are not below one another (`SourceStays`, from `TouchesNothingElse`), and two nodes
have two places (`ShiftOnce`). `FileCopyInv` is the same for a file copied by the
program, where source and destination may be one file.

`RecursionBounded` and `CallsAreFinite`, for finitely many names: the functions of
DATADB come to an end although they read directories that they change.
`DirCopy()` into the source itself is left out of the model (section 2); any other
does not follow the copies it makes: if the destination is not above the source,
nothing longer is added below the source, and if it is, every copy is shorter than its
original. Hence `DepthInv`: no path at or below the source of the
call grows longer than the bound `Depth` that held before it, and no stack grows
higher than `MaxStack`. To each frame `Work` gives what it has left to do by itself:
labels, entries not yet read, components of a path, buffers of a file. A step lowers
that of the top frame, or lowers it and calls, or returns; so `Left`, the work by height
in the stack, decreases in the lexicographic order `Fewer`, which is well-founded
on functions from a bounded interval to the naturals, a theorem of the library.
TLC checked `DepthInv` and the decrease on the instance of `datadb` first.

*Ini.* `TableHolds`: the table holds what the definitions `Heads`, `Nth` and `Own`
say of the lines read so far. The work is in lemmas on how these change with one more
line: the heads are ranked, a new line is a new last head (`HeadsAdded`,
`NthGrows`) or an item of the last one (`OwnAdded`, `ItemsAdded`), and all other
entries are as before (`EntryKept`). `OverrunExplained` rests on `Counted`: `IniDex`
is the number of titles handled, less one, also where memory runs out, because a
title handled twice is no title the second time, and if it is an item then, its section has a
place.

`LookupFinds` proves `KeyFound`, the part of `LookupExact` about the table. It holds
for tables that have lines twice, which `TableHolds` does not speak of. `EchoInv` says
what is left of the table then: the items of a section are those of the file, each
once or oftener, and whatever stands before an item in the file stands before it in
the table as well (`Echoes`). That is kept when the last item is added again
(`EchoAgain`, `Repeats`), and it is enough for the first hit in the table to be the
first in the file (`FirstFound`). The one item that may stand in the table and not in
the file is the title of the section, where it is one (`TitleItem`): so a key is found with the
file's value or with the one the title spells. An empty place of the table, whose title is `""`,
holds no items (`SectionFound`).

`LookupIsExact` adds the other half, `NumbersExact`: a hexadecimal literal of any
length is read as the sum of its digits by their weights, cut to a `long` of any
width. Both sides are folds, so there is first a function that folds over any set of
places (`FoldExists`) and its values are those one gets place by place
(`PlaceByPlace`, `ShiftsIn`, `SumsUp`). After each digit the number shifted in is, cut
off, the one whose multiple by the weight of the place is the sum so far
(`NumberIs`); that it makes no difference whether a number is cut off before or after
the next digit is `CutOnce`, from quotients and remainders.

`OpenIsFinite`: each step of `open()` makes the lines left to read, each worth the steps
a line can take, fewer - also where memory runs out and a line is handled twice.

*Images.* `NothingLeft`: at each label the allocated blocks are those of the
program, of the `BMPMAP_FILE` and of the running call, none of them twice
(`Owned`, `InCall`). `PictureInPlace` and `NearestPixels` are about the contents
(`Contents`): a buffer holds the picture its format and length say, as far as it was
read (`ReadSoFar`); a line of a file is its pixels and then its padding
(`PaddedIs`, `LineIs`); a scaled pixel is all of one source pixel (`MagnifiedIs`), and
one whose distance from the exact place is at most half a pixel, or a rounding
error more (`SourceIs`, integer arithmetic on halves). Both hold for every size of
`ImagesAssumption`, also those whose bytes overflow 32 bits: then a call fails, or
the program is astray and holds nothing the properties speak of. What is left
of a number when it is cut is `CutIs`; that a copy of `magnifyImage()` that ended,
not astray, had a block as long as itself is part of `ScaledOnce`.

*Only model-checked.* Liveness (`Returns`, `JoinReturns`, `LockFree`, `Reclaimed`
and the like) is out of reach of the provers here, which know no ENABLED. Of the
`Returns` of NANDflash, IniFile and DATADB the half about data is proved: no call
takes steps for ever (`CallsAreFinite`, `OpenIsFinite`). That one that has not returned
always can take a step, and under fairness does, stays with TLC. All invariants and all
action properties of the runs are theorems. Where one needs induction over a number, as
`Ancestors`, `FoldExists` and `NumberIs` do, the least counterexample is refuted, from
the well-ordering of the naturals.

## 5. What the development found

Runs that end in a violation, each against a sentence of the repository (see
`findings` in `PROJECT.json`):

* `wp<T>::operator=(const wp<T>&)` takes no reference (`RefBase.h:327-337`);
* `attemptIncStrong()` and `incStrong()` may both remove the bias;
* the exit of a `threadLoop()` that returned true is announced but does not
  happen (`thread.cpp:111`);
* an exit requested before the first iteration leaves `mRunning` true for ever.

Known defects that are part of the model and that the properties are stated
around, so that the runs show that nothing else goes wrong with them:

* a failing `readyToRun()` leaves `mRunning` true as well (`stuck` in `RunningKnown`
  and `JoinReturns`);
* `nand_block_write()` forgets the error of reading the bytes it is to preserve,
  and `nand_flash_read()` every error; a short `write()` counts as a full one
  (`lost`);
* `nand_flash_init()` of a partition of more than 256 blocks writes past
  `blockstatus[]` (`astray`);
* a section too many, and an item before the first section, are stored outside
  `Section[]` (`OverrunOnly`);
* `findItems()` never compares the last item of a section (`LookupExact`);
* a section whose title has a `=` gets the title as an item when `getline()` runs out
  of memory after it (`Spelled` in `KeyFound`);
* `IniFile::open()` does not close its file when it succeeds (`files`);
* `read_jpeg_file()` leaves the address of a freed block behind, and
  `main.cpp:40` uses it (`dangling`);
* `_delete_dir()` reads through a null pointer when the last `remove()` fails;
* sizes that do not fit 32 bits give blocks that are too short, which
  `read_jpeg_file()` (`jpegmanage.cpp:98`), `magnifyImage()` (`:196`) and
  `createBmpMap()` (`bmpmanage.cpp:222-228`) write past (`astray`);
* `createBmpMap()` does not look at the result of its `fclose()`
  (`bmpmanage.cpp:296`) and succeeds without a complete file (`bmpfile`);
* `save_file()` gives the path of its file to a shell without quoting it (`CutUp`);
* `FileCopy()` does not truncate a longer file that is there (`CopyDone`).

Noticed while reading, not shown by a run: with early promotes
`onLastStrongRef()` may be called while an `sp` is held and grants do not pair
with releases; the partition check of
`nandflash.cpp:148` never fails; offsets are cut to 32 bits; `timedlock()` and
the timed functions of `RWLock` return -1 whenever the clock can be read;
`compareFileAmendTime()` compares
nanoseconds with seconds (`datadb.cpp:502`); `DirCopy()` of a single file reports
success even if the copy failed, as does `save_file()` after a short write;
`magnifyImage()` and `write_jpeg_file()` take three bytes a pixel, whatever
`read_jpeg_file()` decoded; a value is cut at its first `;` only if no `;` stands
before its `=`.

## 6. Not modelled, and the plan

Not modelled by choice:

* `LightRefBase`: one atomic counter, one step an operation; a model would repeat
  its two lines.
* `Mutex::timedlock()`, `Condition::waitRelative()`, `RWLock`: wrappers of one
  pthread call each, without a caller in the repository. What `Thread` uses of
  `Mutex` and `Condition` is inlined in its module.
* `IniSection::operator=`, which has no caller, and `delItems()`, which does
  nothing.
* PNG (an empty file), timers, errors, logging, debug reference tracking, thread
  names and priorities, plain getters, test programs, build files, vendored code.
* Two callers at once of `NANDflash`, which has no lock: nothing it promises would
  be left to hold.

Left to do: two callers of DATADB at once, where two `CreateDir()` race for a missing
parent; its two compare functions, which are pure.
