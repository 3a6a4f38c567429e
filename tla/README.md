# A verification development for Shane's Emacs configuration

The repository is one person's Emacs configuration: about 500 files of Emacs
Lisp under `src/config`, loaded by `src/emacs` and `src/after-init.el`, and a
copy of every installed package under `src/packages28`. Most of `src/config`
is declarations (`setq`, hooks, advice, key bindings). What is modelled here
is the part with behaviour of its own that several activities can disturb:
timers, process filters and sentinels, nested calls, several Emacs daemons
that share a cache directory, kills and failing writes. Of the packages one is
modelled too: `libgit`, a C library that is loaded into Emacs itself, so that
its mistakes are those of the editor, and that works on repositories other
processes work on at the same time.

Two facts about the Lisp code shape its models:

* no file of `src/config` has a `lexical-binding` cookie, so every variable is
  dynamic: a lambda that runs later sees the bindings of that moment;
* Emacs is single-threaded, but `accept-process-output` runs timers, filters,
  sentinels and the server filter, so calls nest wherever the code waits; and
  several daemons of the same user run at once and share `$NOTES/programs`.

## 1. Inventory

| Component | State | Operations | Interacts with | Hard part | What makes it correct |
|---|---|---|---|---|---|
| **Memoize** `my-memoize.el`, `memoize.el` | a table and a timer table per wrapper, properties of the symbol, the cache file and its swap file | `memoize`, `memoize-restore`, the wrapper, the expiry timer, load and save of the table | every caller of a memoized function (`url-is-404`, `url-cache-is-404`, `url-domsuf-parse-file`); other daemons through the files | nested calls, timers inside calls, two writers of one swap file, kills, hidden write errors | an answer is a result of the function; a file that is read is complete; no value given out is lost by one daemon's restart |
| **UrlRetrieve** `my-url.el` | one activation of the loop per waiting retrieval, its dynamic variables, connections, redirects, dead buffers | start, follow a redirect, look at the process, wait, time out, quit, return; the network's answers | `url-found-p` and `ecurl` (timeout 5), the helm completion (no timeout); timers and filters that retrieve | callback of one activation hitting another, processes replaced while waited for, quits and typing | each retrieval returns, with its own buffer; a timeout leaves no process |
| **GlobalArg** `my-global-argument.el` | `prefix-arg`, `global-prefix-arg`, their `current-` twins, the transient map | `H-u`, digits, minus, `command-execute` | every command; `sh-notty` reads the argument to decide on an update | two prefixes at once, keys that belong to the argument or do not, frames; timers that read it late | the argument typed reaches the next command, once |
| **EwwCache** `my-eww.el` | cached pages, flags, the rendering of a page | `eww`, `eww-render`, delete, reload, 404 predicates | UrlRetrieve, Memoize | stale pages, wrong answers made permanent | a page shown is the page of its URL |
| **SuggestFuncs** `my-context-functions.el` | the memoized state of every predicate | memoize all, evaluate, restore all | `memoize-orig` | an error between memoizing and restoring | predicates are never left memoized |
| **GlossaryTimer** `my-glossary.el` | the idle timer, per-buffer glossaries | toggle, restart, recalculate, draw | the idle loop | toggles from Lisp and from keys, two timers | at most one timer runs, and the toggle says so |
| **Term** `my-term.el` | `termframe`, `termframe-local`, processes | make a terminal, frame hook, sentinel | the server, frames | the sentinel runs in any buffer | a terminal closes its own frame and buffer |
| **Shell glue** `my-utils*.el` | none | one shell process per call | everything | none: I/O | |
| **Position list, annotate, REPL history, right click, tablist** | a variable or a file each | single commands | | | |
| **RefdbFs** `libgit2/src/refdb_fs.c`, `sortedcache.c`, `filebuf.c`, `futils.c` | loose files, `packed-refs`, their lock files; a cache of `packed-refs` with a stamp per process | lookup, write, delete, rename, compress | other processes with the same repository, through files only | reads in two places, caches older than the file, locks that are not waited for, prunes after a commit, kills | a reference keeps its value until somebody changes it; nobody is misled; locks are given back |
| **CommitWalk** `libgit2/src/merge.c`, `graph.c`, `commit_list.c`, `pqueue.c` | marks of commits, a queue by committer time | merge bases, ahead and behind | the history | stops early on the word of clocks | the bases are the best common ancestors; the counts are right |
| **EgitObjects** `libgit/src/egit*.c` | a wrapper with a reference count and a parent per object Lisp has | wrap, finalize, owner | the garbage collector of Emacs | handles are finalized in any order | nothing needed is freed, everything else is |
| **Rest of libgit2** index, checkout, object database, transports | | | | | |
| **Configuration, key bindings, start-up, vendored packages** | declarations | | | | |

## 2. Plan

The order is by what goes wrong most quietly.

1. `MemoPromise`, `Memoize` (done): the abstract promise and the memoizer.
2. `UrlRetrieve` (done): the synchronous retrieval.
3. `MemoizeProofs`, `MemoizeFileProofs`, `UrlRetrieveProofs` (done): every
   safety property of the passing runs of `Memoize` and of `UrlRetrieve`.
4. `RefStore`, `RefdbFs` (done): what the references of a repository promise,
   and the files, locks and caches that keep it. `RefdbFsProofs` (done): types,
   the locks and the caches of readers. `RefdbSoleProofs` (done): the refinement.
5. `CommitWalk`, `CommitWalkProofs` (done): merge bases, ahead and behind,
   against ancestors, for every finite history.
6. `EgitObjects`, `EgitObjectsProofs` (done): the wrappers, and the two facts
   about them for any number of wrappers.
7. `GlobalArg`, `GlobalArgProofs` (done): the argument built key by key
   against the documented meaning of the keys.
8. Left: `MemoUrl`, `UrlRetrieve` and `Memoize` composed as in `url-cache-is-404`: which
   wrong answers become permanent. Abstract specification: an answer is what
   the server said.
9. The reflogs and the index, which share `filebuf.c` with `RefdbFs`; then
   `SuggestFuncs`, `GlossaryTimer`, `Term`, `EwwCache`.

## 3. The modules

### MemoPromise and Memoize

`MemoPromise` is what a caller may rely on: an answer for some arguments is a
value that the original function returned for those arguments at some time, or
an error. Its variables are histories: `produced` and the last `reply`.

`Memoize` is the code. How its state corresponds:

| variable | code |
|---|---|
| `marked` | the property `:memoize-original-function` of the symbol |
| `active`, `wraps` | the function definition of the symbol: 0 is the original, n the n-th wrapper of the session |
| `table` | the hash table that the backquote of `memoize--wrap` put into the wrapper |
| `armed` | the keys in the timer table whose timer has not fired |
| `stack` | the memoized calls that are running, with the dynamic `args` (`key`) and the place in `my-ht-cache` |
| `swap`, `file` | the swap file and the cache file: missing, being written, whole or cut short, or the mixture of several writers, with the table printed in it; `by` are the daemons that have the inode open |

| action | code |
|---|---|
| `Memoize`, `Restore` | `memoize.el:62-91` with the load of the table (`my-memoize.el:35-40,59-62`) |
| `CallHit` | the wrapper when `gethash` finds a value, and its unwind form |
| `CallMiss`, `Return`, `Fail` | the original function is called, returns, or signals |
| `Open`, `EndWrite`, `Rename`, `RenameFails` | the rest of `write-to-file` (`my-utils.2.el:446-451`) and `rename-file`; `Return` includes `puthash`, the print of the table and `delete-file` |
| `TimerFires`, `Bindings`, `Without` | the lambda of `run-at-time`, with the `args` of that moment |
| `Restart` | the daemon is killed and started again |

A save is four steps - delete the swap file, open it, end the write, rename it
- since other daemons run between them and a kill can come between them; within one daemon nothing runs while it saves, which is what
`CanEnter` says (`SessionShape` depends on it). A rename moves an
inode, not a path: a file renamed while another daemon still writes it goes on
being written under its new name. Lock files are off (`src/emacs:1600`), so two
daemons that have both deleted the swap file may open the same new one: the
inode is then `mixed`, and the last writer to end leaves in it the table of one
of them or a text that is neither. `MemoizeMC` adds the symmetry of daemons and
functions for TLC.

Abstractions. A mixture of two prints that can be read is one of the two tables,
never a third one that happens to parse. Printing and reading a table are inverse (`featurep 'hashtable-print-readable`
holds in the Emacs this is written for). File names are assumed to be
distinct for distinct functions; a slug loses characters, so this is not a fact
of the code (`my-memoize.el:25,73-78`). The timer interval is left out: a timer may fire at any time, and
`memoize-default-timeout` is never nil so one is always armed. What a timer
removes is the dynamic `args` of that moment. Besides a memoized call, any function
with a variable of that name may have bound it while it waits, in an idle daemon or inside
a memoized call: an around-advice (`my-eww.el:784`), a wrapper of
`memoize--wrap-orig` (`my-memoize.el:130`). These are not modelled one by one:
`OtherArgs` are the values they bind it to, any set, keys of the table or not, and
one of them may be current whenever a timer fires. The buffer that a failed
`read` leaves behind is left out.

### UrlRetrieve

One activation of `url-retrieve-synchronously` is a record on `stack`: the
dynamic `retrieval-done` (`done`), `asynch-buffer` (`buf`), `proc`, `counter`
and `abort-hang` and the place in the loop. The callback (`Complete`) assigns the
topmost activation, whichever retrieval it belongs to.

| variable | code |
|---|---|
| `conn`, `opened` | the process of a buffer and how many it had; `eof` is closed by the peer with the sentinel still to run, `kept` is a live connection that is no longer the buffer's |
| `moved` | `url-redirect-buffer` is set, and the buffer is marked dead |
| `killed` | killed buffers: `url-gc-dead-buffers` (line 745) and callers (`my-eww.el:773`) |
| `expired`, `input`, `quit` | the clock, `input-pending-p`, `quit-flag` |

`FollowRedirect` (246-250), `Round` (251-276), `Wake` and `WakeOnQuit`
(279-290), `Return` (237, 299) and `LeaveLate`, `KillProc`,
`KillBufferProcess`, `ReturnLate` (291-299) are the function; `Start` is
207-228 with `url-retrieve-internal` (731-783). `Response`, `Redirect`,
`PeerCloses` and `RunSentinel` are the network: an answer, a redirect that
starts another asynchronous retrieval with the same callback, a close. The
handling of headers is read from the (disabled) copy in lines 331-726; the
sentinel may call the callback, decide not to (the FIXME in lines 255-263), or
connect again in the same buffer.

Abstractions. One redirect per request. URL syntax, cookies, history and cache
pruning are left out. The interval 0.1 s is left out: a wait may end at any time.
The limit of 20 rounds is the constant `InputLimit`. `Flaky` are the retrievals whose
sentinels may connect again, each up to `MaxConns` connections per buffer.
Requests on a kept connection and answers without content are not
distinguished from others.

### RefStore and RefdbFs

`RefStore` has one value per reference. A request changes its own reference
only, from the value it stated if it stated one; a lookup answers with a value
the reference had between question and answer; a rename is a deletion and a
creation.

`RefdbFs` is the file system and the processes. A reference is a loose file, a
line of `packed-refs`, or both, and then the loose file counts (`Value`).

| variable | code |
|---|---|
| `loose`, `packed`, `hasPack` | the files |
| `looseLock`, `packLock` | `<ref>.lock`, `packed-refs.lock`: free, a process, or `Dead`, left behind by a killed one |
| `cache`, `wasLoose` | `refcache` and its entries with `PACKREF_WAS_LOOSE` |
| `fresh` | the processes whose `stamp` is that of the `packed-refs` there is now |
| `pc`, `goal`, `task`, `got`, `todo` | where the process is, what the lookup or reload is for, the arguments, `old` of a rename, the rest of a loop |
| `seen` | history: the values the reference of a lookup or rename had since the request |

| action | code |
|---|---|
| `Look`, `Stat`, `Read` | `loose_lookup`; `git_sortedcache_lockandload`, first the stamp, then the file |
| `Available`, `Lock`, `Commit`, `Abandon` | `reference_path_available`, `loose_lock`, `loose_commit` with `git_filebuf_commit`, `git_filebuf_cleanup` |
| `Drop`, `Unlink`, `Unlock` | `packed_delete`, `loose_delete`, the end of `delete_tail` |
| `LockTo`, `CommitTo` | the second half of `rename` |
| `List`, `Load` | `packed_loadloose`, reference by reference |
| `PackOpen`, `PackCommit`, `Prune`, `PruneOne`, `Updated` | `packed_write` with `packed_remove_loose` and `git_sortedcache_updated` |
| `CommitFails`, `PackFails`, `Kill` | a write that fails, and the end of the process at any step |

Abstractions. References are direct and their names do not contain each other;
`HEAD`, reflogs, worktrees, iterators and the lock entry points are left out.
The directory is listed at once, its files are read one by one. A new
`packed-refs` has a new stamp (`NewStamp`): inode, size and time in nanoseconds
do not repeat. Comparing, unlinking and unlocking one pruned reference is one
step: nobody else writes it meanwhile, since its lock is held. A comparison in
memory belongs to the read before it. `fsync` of directories is off. Reads,
parses and unlinks never fail. In the code a read or a parse that fails after the
stamp was updated (`sortedcache.c:213-241`, `refdb_fs.c:192-199`) leaves an old or a
cleared cache that counts as fresh, so `Implements`, `LockDiscipline` and
`ReaderCacheExact` are about kills, writes that fail and prunes that meet a lock only.

### CommitWalk

One action is one turn of a loop: `Pop` is the body of the loops in
`paint_down_to_common` and `mark_parents`, `Reduce` and `Reduced` are before
and after the walk inside `remove_redundant`, `Filter` and `Keep` the rest of
`git_merge__bases_many`, `Count` is `ahead_behind` after its marking. The heap
is a set of which some newest element is taken, so the result holds for every
way of breaking ties; that a commit can be in the heap twice does not matter,
since its second visit paints nothing. `Init` chooses the history, the clocks
and the question; `Repeated` is the shortcut for a commit that is on both sides
(`merge.c:511-514`, `graph.c:41-44`). `Ancestors` is the reference the results are compared with.

### GlobalArg

Every key runs a command, and `command-execute` moves `global-prefix-arg` and
`prefix-arg` into their `current-` twins before it runs: every action does so
(`CommandExecute`). The commands of the prefix keys then store them again:
that of C-u by `PreserveState`, that of H-u with the key added (`Again`,
`Negated`, `WithDigit`). `map` is the transient map, which Emacs takes away
before the next command. `typed` and `utyped` are the keys so far, and `Meaning`
is what they denote by the docstring of `global-argument` (160-164), read off the
sequence as a whole: digits and minuses make up a number, its sign by the parity
of the minuses; with neither of them, each prefix key is four times as much; behind
them it ends the argument and is no part of it. The code does not do so behind a
lone minus, so the properties of delivery promise nothing there
(`PrefixAfterMinus`; see "Disagreements found"). The docstring does not say that zeros behind a minus do not count, nor that two
minuses cancel out; there `Figures` follows the comment "Treat -0 as just -" and
`(- arg)`. `dropped` is set where the code forgets the argument of
H-u: when C-u is typed after it (`universal-argument` runs Emacs's own
hook and not `global-prefix-command-preserve-state`) and when a frame is
selected (Emacs saves only its own argument); `GlobalDelivered` promises nothing
then. What the minibuffer reads are commands as well, and so is M-x, which
gets the argument itself and hands none to the command it reads.

### EgitObjects

A wrapper has a kind, a parent and a count; `handles` is the number of user
pointers to it. `Open`, `Derive` and `Sibling` are the three ways a function
calls `egit_wrap` (no parent, the argument, the parent of the argument), `Owner`
the functions that return the repository of an object with a new handle.
`Collect` is Emacs dropping a handle, `Finalize` one turn of `egit_finalize`,
which calls itself for the parent. `Counted` are the six types that the first
`switch` counts. Addresses are used again as `malloc` may.

## 4. What is checked

`tlc -config <run>.cfg <module>`; each run finishes within three minutes.

| run | instance | shows |
|---|---|---|
| `memo_session` | 1 daemon, 1 function, 2 keys, results nil and v, kills, 2 wrappers, depth 2, others bind `args` to one of the keys | type, `SwapReady`, `FileReadable`, `CompletedCallsDurable`, `EvictionNeedsBinding` |
| `memo_shared` | `MemoizeMC`: 2 daemons, 2 functions (both symmetric), no kills, no faults | `EntriesProduced`, `TearNeedsTwoSavers` |
| `memo_faults` | 2 daemons, 1 function, kills, write errors, depth 2 | `WriterIsWriting`, `SessionShape`, the refinement `KeepsPromise` |
| `url_single` | 2 retrievals one after the other, 1 connection per buffer, quits | `RightBuffer`, `EveryReturn` |
| `url_nested` | 2 nested retrievals, one with timeout, redirects and reconnections (2 connections per buffer), typing with limit 1, quits, silent sentinels | type, `ForeignOnlyWhenDone`, `ReconnectionKilled`, `TypingReturns`, `TimedReturn` |
| `refs_sole` | `RefdbFsMC`: one process that deletes, renames and compresses, one that looks up, creates and changes one reference and may be killed; 2 references, 2 objects | type, the refinement `Implements` |
| `refs_race` | `RefdbFsMC`: two processes that compress, one of which also deletes, fails and is killed, and one reader and writer; 1 reference, 1 object | `LockDiscipline`, `ReaderCacheExact` |
| `walk` | `CommitWalkMC`: all histories of 5 commits with at most 2 parents, 13 clocks, 1 or 2 others | `BasesExact`, `CountsExact` |
| `egit` | 5 wrappers, 2 handles each | `NeededIsKept`, `NothingLeaks` |
| `global_arg` | the digits 0 and 3, up to 5 keys for each argument, any number of arguments and commands | type, `GlobalDelivered`, `UniversalDelivered` |
| `memo_expiry`, `url_wrong_buffer` | as `memo_session`; 2 nested retrievals with redirects, nothing else | `ExpiryHonoured` and `RightBuffer` are violated: see "Disagreements found" |

The bounds. Two wrappers of one function are the least with an old and a new
table over one file; two nested calls the least in which a timer meets the
call of another key; in `memo_session` one key may be bound by others and one only by memoized
calls, and with two daemons `OtherArgs` also holds a list that is no key; two daemons the least that share a swap file. Two
retrievals are the least that nest, and two connections per buffer the least
with a reconnection. `InputLimit` 1 lets the count pass zero, reach the
limit and exceed it. In `url_nested` only one of the two retrievals has a
timeout, so that the other one ends by typing or not at all; it is the inner one in some behaviours
and the outer one in others. Zero and one other digit, and five keys, are enough
for a minus before and after a zero, two signs, two figures after a sign, and
prefix keys before and after each. `Restarts` and `DiskFaults` are off where the property is
about a disk that works or about daemons that live, and on in the others. Two
references are the least with a rename; the race of two maintainers has only
one, which both of them pack and prune and one of them deletes, and one object,
so that it is there or not; renames with any number of maintainers are left to
the theorems. Two objects tell a value from the one before. Four commits are
the least in which `remove_redundant` has something to do (with
`NeedsNoReduction` TLC finds a wrong base among four), five leave room for two
heads, two candidates and what they share. Five wrappers are a repository, an
index, two entries and an object.

Several properties hold for one daemon only, and the code is not meant to
promise more: with two daemons the later save overwrites the entries of the
earlier one (`CompletedCallsDurable`), a rename may find its swap file taken by
the other daemon (`RenameFails`), and two simultaneous saves of one function, or
a kill during a write that was renamed by the other daemon, leave a cache file
that cannot be read (`FileReadable`); `TearNeedsTwoSavers` says that it takes two.

`Implements` likewise holds for one process that maintains, on a disk that works
for it: with two, each rewrites `packed-refs` from a cache loaded before it took
the lock, and loses what the other one did (`refdb_fs.c:1107`, `1564`); one whose
rewriting fails keeps a cache that no longer fits its stamp. What is left with
any number of them, failing and killed, are `LockDiscipline` and
`ReaderCacheExact`. `CountsExact` needs `OrderedClocks`, since `mark_parents` may
stop before the paint of one side has reached what is common; `BasesExact` needs
nothing of the clocks.

`CHECK_DEADLOCK FALSE` is set everywhere but in `global_arg`: memoizer and retrievals may stop, when the
bound on wrappers is reached or every retrieval has been made. So may the
walks, which end, and the two others, where it only says that nobody need ask
for anything.

### Fairness

* `Spec` has none: the safety runs use it, and so does `Memoize`.
* `LoopSpec`: Emacs goes on executing the loop of the innermost retrieval (weak
  fairness on `Loop`: nothing else can disable it, `accept-process-output`
  returns after 0.1 s), and time passes.
* `FairSpec`, for retrievals without timeout only: moreover an open connection
  that is waited on again and again is answered, and the sentinel of a closed one runs
  (strong fairness: each wait is a new chance, and leaving
  `accept-process-output` disables them). This is a fact about servers, not
  about the code: without it an untimed retrieval may of course wait for ever,
  which is why `TimedReturn` and `TypingReturns` do not assume it.

### Disagreements found

* `memo_expiry`: entries do not expire. The timer's `args` is not the key it
  was armed for (`my-memoize.el:116`), against the docstring at 68.
* `url_wrong_buffer`: with nested retrievals the inner one returns the buffer
  of the outer one, against the docstring at `my-url.el:199`.

Others were met while modelling and have no run of their own:

* a redirect that arrives in the last wait before the timeout leaves its
  process running, against the comment at `my-url.el:291`;
* a quit does not stop the loop when deleting the process makes the sentinel
  connect again, against the comment at `my-url.el:285`;
* with a sentinel that stays silent inside `accept-process-output`, `proc`
  becomes nil and the workaround of lines 251-266 no longer sees the closed
  process, so an untimed retrieval waits for ever;
* `packed_remove_loose` means to let a busy reference be ("If someone else is
  updating it, let them do it", `refdb_fs.c:1000`) and fails instead, because
  `lock_file` returns `GIT_ELOCKED` (`filebuf.c:50`) and not `GIT_EEXISTS`;
* `git_reference_create` promises an error if the name exists and `force` is not
  set (`git2/refs.h:167`); the test comes before the lock (`refdb_fs.c:1289`);
* `git_graph_ahead_behind` counts as `ahead` the commits that only `local` has
  (`graph.c:128,163`); the parameter in `git2/graph.h:30` and the docstring in
  `egit-graph.c:11-13` say `upstream`, while the sentence above the parameter
  (`graph.h:25-28`, "what git would report for the branches") agrees with the code.
  `CountsExact` takes no side: the two numbers are those of the two sides.
  `LocalFirst`, the part of the proved invariant it follows from, says which is
  which in the code;
* `H-u` after a lone minus makes it (-4) and does not end the argument
  (`my-global-argument.el:191-194`), against the docstrings at 161 and 198 and
  the comment at 175. `Meaning` follows the docstring and the properties of
  delivery leave these arguments out, those of C-u as well, since Emacs's own
  `universal-argument-more` does the same;
* the entry for `[switch-frame]` (`my-global-argument.el:125`) keeps the map of H-u but not the
  argument, so `H-u 1`, another frame, `2` is 2; and `H-u` then ends in no argument at all;
* `C-u` after `H-u` forgets the argument of H-u, though both should be usable at
  the same time (`my-global-argument.el:12`); the other order works;
* a blame or a diff keeps no repository alive (`egit-blame.c:90`,
  `egit-diff.c:186`), which objects must (`egit.h:287`), nor does a delta taken
  from a pathspec match list keep what it points into (`egit-pathspec.c:111`).

## 5. What is proved

For all values of the constants that satisfy `ConstantsOK` (any number of
daemons, functions, arguments, retrievals, any bounds), with TLAPS:

* `MemoizeProofs`: `TypeCorrect`; `EntriesSound`, inductive with the type
  invariant once it covers swap files and the results that calls are about to
  return; `PromiseKept`, the refinement: each step is a step of `MemoPromise` or
  a stutter, from `TypeOK /\ EntriesProduced`; `SessionsShaped`; `Evictions`, an
  action property from the type invariant and the shape, for any `OtherArgs`: a
  timer removes one binding at most (`Without`), and it is of the table whose timer it was.
* `MemoizeFileProofs`: `WritersLive`, inductive with the type invariant: a step
  of d only touches inodes that d is not writing, or settles them;
  `TearsNeedTwoSavers`, for `~DiskFaults /\ ~Restarts`, an action property from
  `WritersLive` and the invariant `ShareInv`: a swap file that is mixed or cut
  short belongs to a function that two daemons are saving, and nobody writes to
  a swap file and to the cache file at once. The second half is needed for the
  first: a write that ends may come out cut short only where it was mixed.
  The same module, for `SoleDaemon` (one daemon, no write errors, kills at
  any moment): `FileAlwaysReadable`, `SwapAlwaysReady`, `CallsDurable`. None is
  inductive alone: a file is replaced by its swap file, so it is readable
  because the swap file is ready, and what `memoize` takes from a missing file
  must be empty. The invariant is `SoleInv`, the conjunction of the three
  with `MissingEmpty`; it uses `SessionsShaped` (below a saving call all calls
  wait) and `WritersLive` (a complete file has no writer, so the end
  of a write or a kill does not change it, and nobody else has the swap file
  open when it is opened).
* `UrlRetrieveProofs`: `TypeCorrect` and `ForeignBufferMeansDone`. The
  inductive invariant is `Good`: every activation is `Faithful` (a foreign
  buffer comes with `done`, and a count over the limit with `abort`), and a
  connection that is there was opened.
  `ReconnectionsKilled`, an action property, needs `Known` on top of it: an
  activation that is not done knows the process of its own buffer, an earlier
  one, or none, and in the last two cases the buffer was connected again or has
  nothing more to say (`Tracked`); so the first deletion leaves a second
  connection at most, and the second deletion a third. Activations below the
  innermost one wait, so `Tracked` must survive whatever connections do
  meanwhile (`Onward`), and buffers that are killed, moved or returned must
  never be opened again (`Left`, `Moves`, `Results`).
  `RightBufferReturned`, for `OneByOne` (one activation at a time, no timeout, no
  typing, one connection per buffer; any number of retrievals, redirects, quits
  and silent sentinels): a callback assigns whatever activation is innermost, so
  the invariant `OneInv` says that nobody's connection talks except that of
  the activation that goes on waiting. It is there that a redirect matters: a
  closed connection ends the loop only if no redirect has opened another one
  (`OnlyOneTalks`), which rests on `Left` and `Moves` again. Each hypothesis of
  `OneByOne` excludes a way in which a retrieval leaves a connection behind that
  later answers to somebody else (`url_wrong_buffer` shows one).

* `RefdbFsProofs`, for any processes, any requests they may make, any faults:
  `TypeCorrect`, `LocksDisciplined` and `ReaderCaches`, from the inductive
  invariant `Good`: types, and that a process is at a step its request has, or
  on the way to one by a lookup or a reload. The lock discipline moreover needs
  that a deletion never prunes the reference it deletes (`NotItsOwn`), whose
  lock it would take twice. That a reader's cache is exact needs that nothing is
  packed where there is no `packed-refs`, and that a reader never is at a step
  that changes a cache; the rest is that a new `packed-refs` makes every stamp
  unfit.
* `RefdbSoleProofs`, for `SoleMaintainer` (at most one process that deletes,
  renames or compresses, and that one not in `Faulty`; any number of others,
  which look up and write and may fail or be killed at any step; any references,
  objects and requests): `SoleImplements`, the refinement `Spec => Implements`.
  The invariant is `Base` (`Discipline` and `Exact`, from `RefdbFsProofs`) with
  `SoleInv`, whose parts each stand for one argument of the code:
  - `MaintainerCache`: between loading and writing, the cache of the maintainer
    is `packed-refs` but for the line it is about to drop or to add. Hence what it
    writes shows no reference another value, and pruning a loose file only
    uncovers the same value in `packed-refs`. This is where one maintainer is
    needed: another one would change `packed-refs` under the cache.
  - `Current` and `Pending`: who watches a reference has seen its value, and a
    lookup that missed the loose file has seen what it will yet find in
    `packed-refs`, the line that a compression is just adding included. Hence the
    two reads of a lookup, which are not atomic, answer with a value that the
    reference had meanwhile.
  - `Carried`: what was found is kept until it is answered or, by a rename,
    written under the new name.
  - `Compares`: under its lock, a reference keeps the value that the request
    compared with the stated old one, until the file is renamed or removed: its
    loose file is protected by its own lock, its line in `packed-refs` by there
    being nobody else who rewrites that file.
* `CommitWalkProofs`, for any finite history, any clocks, any question, a repeated commit
  included: `WalkInvariant`, `BasesAreExact`, and `CountsAreExact` for histories whose clocks
  are ordered (the hypothesis of the property itself), from `LocalFirst`, which also
  says that the first number belongs to the first commit, local. No theorem of the library
  about induction can be used: `Least` (every set of numbers that is not empty has a
  least one, from the well-founded order of finite subsets) stands for each of them.
  `Ancestors` is a recursive function over the numbers of the commits; `Solvable`
  shows that its equation has a solution, and `AncestorFacts` gives what the rest
  needs of it. The invariant `WalkIInv` was checked by TLC on the histories of four
  commits before it was proved. Its parts:
  - `WalkInv`: marks are sound (a commit marked for one side is an ancestor of
    that side, a stale one lies below a result), every mark has been handed to
    the parents or waits in the queue, what both sides have reached is listed or
    stale, and, with ordered clocks, the queue is older than what has
    left it;
  - `Candidates`: while results are reduced, the list has every best common
    ancestor and nothing but common ancestors; what was found redundant lies below
    another one, and what was tried is best or redundant;
  - `BasesListed` and `LocalFirst`, what holds at the end.
  The walk may stop with unfinished marks in the queue: `OnlyStaleWait` says that
  only stale commits wait then, `MarkReaches` that a mark reaches all that is below
  its start unless the queue holds a marked commit on the way, so nothing outside
  the list is best (`ResultsEnough`), and `RedundantIsMarked` that each walk of the
  reduction marks every candidate below the one it starts at.
* `GlobalArgProofs`, for any digits and any number of keys: `TypeCorrect` and
  `OnlyOnce`, from the invariant that an argument for which no key was typed is
  none, and `GlobalIsDelivered` and `UniversalIsDelivered`, from the invariant
  `Agrees`, which TLC checked first: unless a prefix key was typed behind a lone minus
  (and for `H-u` unless keys came to nothing), an argument is the meaning of its keys, and
  while its map is in force keys were typed for it, and they are `Unfinished`: prefix
  keys only, or a digit or minus last. Without the
  second part it is not inductive: what ended an argument would go on. A
  step adds one key, so the proof needs what one key more does to `Meaning`
  (`MeaningAgain`, `MeaningDigit`, `MeaningMinus`), and that needs what it does to
  the value of the digits (`DecimalOf`), the sign (`OddOf`), the powers of four
  (`FourfoldOf`) and the figures as a whole (`FiguresDigit`, `FiguresMinus`,
  `FiguresPrefix`); `MinusBefore` says that keys with no prefix key behind a lone minus
  had none one key earlier. `GlobalIsDelivered` is therefore about the docstring's
  meaning, and its exemption is where the code departs from it.
  The recursive functions in them are known through solutions of their equations,
  which `Upwards`, again from `Least`, shows to exist and to agree on shorter keys.
  Assumed of the constants: digits are 0 to 9, and neither of the two other keys is
  one of them or the other.
* `EgitObjectsProofs`: `CountsAreExact`, the invariant that a count is the number
  of handles and of children, plus one while a release is under way;
  it is inductive together with `NeededIsKept`, since a wrapper is freed when its
  count says so. `AllIsFreed` follows: a wrapper that is left would have a child,
  that one a child, and the kinds allow no third.

Only model-checked: liveness (`EveryReturn`, `TypingReturns`, `TimedReturn`),
which is out of the prover's reach. Every invariant and every action property of the
passing runs is stated by a theorem.

## 6. What is not modelled

See the components with status `not_modelled` in `PROJECT.json`; those with a
plan are in section 2. The rest is pure I/O (shell glue), text layout
(drawing of buttons, rendering), declarations (configuration of packages, key
bindings, start-up) or the code of others (`packages28`): of its two hundred
thousand lines of C and C++, most of libgit2 and all of the clang server and of
SQLite are left out; what is modelled of them are the parts in which several
processes, early ends of walks or several owners meet.
