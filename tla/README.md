# git-vws in TLA+

`git vws` gives programs *sessions*: copy-on-write worktrees with a private
Git repository of their own, made from a bare *authority* repository and
published back to it. Everything it manages lives in one directory under
`$HOME`: an authority record, `templates/`, `sessions/`. There is no daemon.
Each command is a process that reads records, takes `flock`s, runs `git`
children, renames and unlinks files, and may be killed anywhere; whatever
coordination there is, is between processes through the file system.

These modules model that coordination. TLC checks them on small instances;
TLAPS proves what they promise of safety for every value of their constants: of the publish
transaction, the session and template lifecycles, the record transaction, the
registration of repositories, the collection of loose objects, the owner of a git
child and the worker pool that builds a template.

## The system

| Component | Source | State it keeps | Operations | Talks to |
|---|---|---|---|---|
| Publish transaction | `src/session.rs` 787-1003, 1507-1674, 3982-4414 | the journal in the session record | `publish` | the session's private repository, the authority (through `git` children), record transactions, the root lease |
| Session lifecycle | `src/session.rs` 753-785, 1005-1405, 1862-2530, 2629-2921 | session record, root directory, tombstone name | `create`, `remove`, `exec`, `gc` | templates, storage, record transactions, both locks |
| Record transaction | `src/authority.rs` 1016-1513, 2011-2340 | a record and a temporary beside it | `begin*`, `commit`, `abort` | every record of the system |
| Template lifecycle | `src/template.rs` | template record, sealed tree | `acquire`, `gc` | storage, session census |
| State root | `src/authority.rs` 206-1014, 1515-1774 | state directory, authority records, HOME lock | `init`, `open_state` | everything |
| Git children | `src/git.rs` | a process group with pipes and a deadline | spawn, wait, clean up | git |
| Tree storage | `src/storage.rs` | - | clone, seal, verify, remove a tree | kernel |
| Loose-object collection | `src/session.rs` 2923-3642 | private object directory | part of `gc` | authority object store |
| Diagnosis | `src/session.rs` 319-500, 2553-2749 | - | `list`, `doctor` | all of the above, read-only |
| Checkpoints, CLI, release scripts | `src/m4_checkpoint.rs`, `src/main.rs`, `.github` | - | - | - |

What makes each correct:

* **publish**: the ref of the authority moves at most once per transaction, only
  from the tip that was frozen and only as a fast-forward; what the journal says
  of it is true at every point a process can die; two publishers of one session
  never act on one journal; an error the user may act on is an error that moved
  nothing; what can be resumed gets settled.
* **lifecycle**: a program run by `exec` keeps its tree; a session that was
  delivered stays until a removal has put a tombstone on disk for that very
  root; nothing on disk outlives the record that names it; damage is reported;
  commands return and tombstones are completed.
* **record transaction**: success is an atomic, durable compare-and-swap of the
  record; a record is never torn; one that was there or was acknowledged is on disk
  under some name until somebody who named it is through.
* **templates**: at every point a process can die the record is a true account of
  the tree; a template a session needs stays whole; a `gc` that succeeds has left
  nothing behind; what can be finished is, and what nobody needs goes.
* **template workers**: success means every entry was written once; no thread
  outlives the call; the call returns.
* **state root**: one repository has one record; an `init` that reported success
  survives a power cut, one that is refused leaves no trace; nobody waits for a
  dead lock holder.
* **git children**: output is whole when it is handed over; a failure leaves no
  child and nobody in its group behind; a foreign group is never signalled; calls
  end, whatever the child does.
* **loose objects**: `gc` never takes the last copy of an object a session had; what
  it reports as removed is gone.

The hard behaviours are interleavings of processes around files (compare, then
rename), processes killed between two durable steps, locks that are dropped and
taken again, children that outlive their parents, and outcomes nobody can know.
`PROJECT.json` lists them under `hazards`, each at its line.

## Modules

    PublishTarget  <--implements--  Publish   <--extends--  PublishQuiet  <--extends--  MCPublish (2 cfgs), PublishProofs

    RecordRegister <--implements--  RecordTxn <--extends--  MCRecord, RecordTxnProofs

    SessionPromise <--implements--  SessionLifecycle <--extends--  MCSession (3 cfgs), SessionLifecycleProofs

    TemplatePromise <--implements--  TemplateLifecycle <--extends--  MCTemplate, TemplateLifecycleProofs

    MaterializePool   <--extends--  MCPool, MaterializePoolProofs

    StateRoot         <--extends--  MCStateRoot, StateRootProofs

    GitChild          <--extends--  MCGitChild, GitChildProofs

    LooseGc           <--extends--  MCLooseGc (2 cfgs), LooseGcProofs

Publish and session lifecycle meet in the session record. `Publish` has the whole
transaction and no removal: a removal is refused while the journal is busy and
otherwise takes the lease that `Publish` has, so to a publisher it is a lost
lease or a stale record. `SessionLifecycle` has every command and reduces
publish to what the others see of it, a journal that becomes busy and idle.
`SessionLifecycle` takes a Ready template for granted; `TemplateLifecycle`
makes and retires it, and knows of a session only the template its record names.
The action `Fill` of `TemplateLifecycle`, which either completes the tree or
leaves it partial and fails, is what `MaterializePool` is about in detail; the git
child of each of its workers is a batch stream of `GitChild`.

All of them replace records. `RecordTxn` has the handler that they share, one
system call a step, and shows that it is the register `RecordRegister`: what
`ReplaceRecord` in `Publish`, the four phases in `SessionLifecycle` and the
three in `TemplateLifecycle` take for granted of a commit is what it proves of one.
`StateRoot` is what comes before everything else, with `Link` and `Sync` as
`RecordTxn` has them. `LooseGc` is the part of `gc` that `SessionLifecycle` reduces to a
lease.

Operators marked `Mutant:` are wrong on purpose. Each is a plausible bug of the
operator that follows it and is not used by any specification: it exists to be
put in that operator's place, where it makes one of the properties fail.

### Publish

State and code:

| Variable | In the code |
|---|---|
| `target`, `objects`, `config`, `checkedOut` | the authority repository: the branch, its object store, its configuration, whether a worktree has the branch checked out |
| `privateTip` | the same branch in the session's `common.git` |
| `record` | journal, frozen fields and `expected_old` of the `SessionRecord` on disk |
| `lease` | the exclusive `flock` on the session root |
| `child` | the `git update-ref` process; it outlives its parent |
| `pc`, `sess`, `cap`, `obs` | a publisher: where it is, its session, its `RecordCapability`, its local variables |
| `fresh` | the identity (bytes and inode) that `cap` holds is still the one on disk |
| `landed`, `moved` | history: how often the swap of this transaction, or of this call, went through |

Every read of the authority or of the private repository is a step of its own,
in the order of the code, because each is a `git` child during which anything
may happen; so is each record write, with three outcomes (committed; committed
and reported as an error; not committed). `IdlePath`, `PreparedPath`,
`ImportedPath` and `AttemptedPath` are the places inside `publish`,
`publish_prepared` and `publish_objects_imported`.

Abstractions: a commit stands for its closure; the relation of two commits never
changes; `validate_publish_target` and the topology checks of
`load_ready_session` only refuse and are left out; a fingerprint is the
configuration.

`PublishTarget` is the promise without journals, leases or children: each session
has at most one open transaction; it lands at most once and only on the tip it
froze; it may be given up only before it has landed and finished only after.
`Publish` implements it under the mapping at the end of the module
(`Promised`).

`PublishQuiet` remembers which calls were left alone (`quiet`): since p's call began, nothing
failed, nobody else wrote, and no other session's swap went through. What such a call resumes
may still be old: killed publishers, a pruned object store, a ref or a configuration that moved
before it began. `QuietNeverFences` says it finds out before it writes `CasAttempted`, which
nothing takes down. `PublishTarget` does not know of objects and `ResumableSettles` takes them
for restored; this is the property that needs the closure checked again on a resume.

### SessionLifecycle

One session name, several processes. `rec` is the record, `root` and `tomb` the
inodes at the two names a session's directory can have, `content` what is under
an inode, `tmp[p]` the temporary of p's record transaction, which stays when p
dies. `home` is the `flock` on `$HOME` that `create` and `gc` hold from start to
end (`StateRoot` does); `ex` and `sh` are the two kinds of lease on a root. An exec
child inherits its parent's lease. Record transactions are four steps (write the
temporary, compare, exchange, check what was displaced), as in
`RecordTxn::commit_exchange`; `ReplaceRecord` is the handler that all callers
of `replace_record_capability` share.

Abstractions: of `create`, all git and copy steps between the Materializing
record and the last revalidation are one action with the three ways it can end;
the census is one step, taken twice as `gc` does; deleting a tree is two
steps; `unlink_capability` compares and unlinks in one step; an inode number is
not used again while somebody still has it in a record or open; `gc`'s removal of
duplicate loose objects is reduced to its lease. A process identifier is used
again once no temporary and no child bears it.

`SessionPromise` is what a user of the commands may rely on, without records, locks, names
or temporaries. Its state is the trees (`none`, `building`, `whole`, `broken`, `gone`),
which of them a create has delivered and a removal has condemned, where programs run, and
of each process its job, how far that has gone and how the last one ended. There is one
tree at a time. A create makes its own and may take it back until it is delivered; any
other goes only once it is condemned, and none while a program runs in it. Each
answer is worth something: a create that reports success delivers a whole tree, or one
that was condemned meanwhile; a removal that does leaves nothing that was ever delivered; a
refused call has done nothing; a busy one has touched no tree. `SessionLifecycle`
implements it under the mapping at the end of the module (`Promised`), with forced
removals and kills anywhere: a tree is what is under its inode, and how far a call has gone
(`Began`) is read off its place.

### TemplateLifecycle

Several templates, several processes that create or run `gc`, sessions that are
removed beside them. `rec` is the template record with its payload; `at` says which inode is under
each of the three names a template's tree can have; `content` and
`mode` are what is under an inode and its permission bits; `tmp[p]` is the
temporary of p's record transaction. `home` is the lock on `$HOME` that both commands hold from
start to end, so records have one writer at a time; what is hard is being
killed. `cap` is the `TemplateCapability` a process goes by, `todo` what `gc` has yet to
look at.

Every durable step is a step of the model: the three phases of a record
transaction and the unlink of what it displaced, making the root, filling,
sealing, and, on macOS (`Unseals`), making the root writable, renaming and sealing it
again. `Acquire` branches on the record as `acquire` does; a template left Prepared or Publishing is
gone on with under the name its first process chose.
`Census` is `session_census` and `template_census` with all that either
refuses; `RetireReady` and `CompleteTombstone` are `gc_ready_template`,
`transition_template_tombstone` and `complete_template_tombstone` with the lease dropped
and taken again in between.

Abstractions: a key stands for the immutable inputs of `acquire`, which do not
drift; a session is the template its record names; a removal needs neither lock and
is one step; removing a tree is two steps; nobody else writes into the directory. The
session census inside `gc` is reduced to which keys it finds, for under HOME
no session can be added. A process identifier is used again once nothing on disk bears it.

`TemplatePromise` tells the same without records, names, leases and temporaries: a template is
made, offered, going and gone; its tree is a directory that is open or sealed; whoever has the
turn works on templates. Whoever works may stop anywhere and leave the rest to another, but a
template never goes back: it is offered with a sealed tree, and from then until it is given
up nobody touches the tree. A create leaves a session only of an offered template, of that very
tree, and one that reports success leaves a session or has found it; one that fails may leave an
unfinished session of it. A template is given up only while no session
needs it; a `gc` that reports success leaves the templates that sessions needed when it
looked, and no other; and `gc` does nothing while a template is half made. `TemplateLifecycle`
implements it under the mapping at the end of the module (`Promised`): the stage is the
record's, the tree is what is under one of the three names, the turn is HOME.

### MaterializePool

`materialize_entries` and `materialize_worker`. Every place where two threads can
meet is a step: the flag and the clock are read, then the channel is tried; a
failing worker raises the flag before its receiver goes; a panic drops the receiver
and raises nothing until the thread is joined. A channel is the set of what is
in it: entries are sent in the order of their numbers, so the first in is the
least. What a worker does with one entry (ask git for the blob, read it, write
it) is one step that succeeds, fails or panics. The deadline passes at any time.

### RecordTxn and RecordRegister

One record in one directory; `dir` is what the final name and each transaction's
temporary name lead to, `past` the directories a power cut may leave, `whole` the
inodes that are written and synced. A transaction creates, replaces or removes the record
or sweeps a temporary that another left (`op`), with the binding it was given
(`expected`), and every system call is a step: the look before, the exclusive open, write and
sync, the look at its own name, the rename or exchange, the looks after, the unlink of
what was displaced as a `stat` and an `unlink`, the sync of the directory, and rollback
and abort with looks and syncs of their own. An interrupted rename may or may
not have been done. Who may run beside whom is what the callers' locks leave:
create and `gc` hold the lock on HOME to the end (`UnderHome`); remove and publish
drop it before they touch the record (`optional_session_context`).

`RecordRegister` is what callers rely on: creating and replacing are
compare-and-swaps, one that reports success has swapped exactly what it
expected and will outlast a power cut, one that reports anything else promises
nothing, and a removal empties the register whatever has come into it since it was
compared.

Abstractions: a transaction stands for the inode of its temporary; since an inode is
written once, the bytes and the identity of a binding are both said by it. A
record's bytes are the stage it says, and a replacement moves on to a later
stage; the sweep accepts a temporary that directly precedes the record.

### StateRoot

`$HOME/.git-vws` with its records (`fs`), what a power cut may leave of it (`disk`), the
repositories (`live`), which others move, replace or delete, and processes that run
`init` or the beginning of `create`. A repository is a node, the identity of its
directory, at a path; a record is named for a path and says a node. `Preflight`,
`Probe` and `FinalProbe` are the three looks at the repository, `Scan` is
`scan_records`, `Stage` to `Reread` the record transaction, `CommitRecord` the sync of HOME,
`Abort` and `Undo` the ways back. Every look may fail to read.

Abstractions: `RecordTxn` is five steps here; the record's bytes are right or not there;
the lock on the root, taken after the one on HOME, meets nobody and is left out; a
process makes a root at most once. A withdrawal whose unlink is done and not known to last
(`STATE_COMMITTED_RECOVERY_REQUIRED`) leaves even a new root where it is, as `preserve_root` has it.

### GitChild

One owner, one child, its descendants and the clock. A pipe is a number of places in use;
the child and its descendants write, read, close, exit and leave the group as they like, and
never have to. `capture`, the batch stream, the listing of records and the direct
child of `exec` are the four values of `mode`. `observed` is the exit seen with
`WNOWAIT`, `group` whether the owner still has the group's number, `astray` whether
it was signalled when the number was not its own. Times are ticks.

Abstractions: a byte is a request's or an answer's unit; `Between` is all the owner does
between two calls on a stream; a spawn that fails half way, interrupted
reads, and errors of `waitid` other than `ECHILD` are left out.

### LooseGc

One session and its authority, each with loose files and packs. A loose file is a
number, its identity. gc's steps are its looks: both classifications (`Classified`, one
read each), the authority's and the session's object directories, each fanout, each object,
the comparison byte for byte, the last look at both names, the unlink, the sync.
Between any two, git writes, packs, imports, moves a ref, repacks or prunes. `own` is
what the session had itself, `pruned` what the owner pruned when no other copy was
left or gc had looked for the last time.

Abstractions: a lease that is taken or a publish that is unfinished are outcomes of
`Lease`; names and modes that a classification refuses, and files with several links, which
are kept, are left out; the fanout an object's name puts it in is any.

## Runs

| Run | Instance | What it asks | States |
|---|---|---|---|
| `publish` | 2 publishers, 1 session, 3 commits (a fork), 2 configurations, 1 fault, 1 outside step, fair | `SoleActor`, `CasFenced`, `CasOnce`, `DefiniteErrorMovedNothing`, `Promised`, `ResumableSettles`, `QuietNeverFences` | 841 k |
| `publish_lost_race` | 1 publisher, 1 outside step | `LostRaceCanRetry`, **violated** | |
| `session` | 2 processes, 2 roots, all commands but forced removal, 5 calls, 2 faults | `ExecOnLiveRoot`, `DeliveredTreeSurvives`, `DeliveredStaysReady`, `RecordOutlivesRoot`, `SilentIsClean`, `Promised` | 607 k |
| `session_live` | 2 processes, 1 root, all commands, 3 calls, 1 fault, `gc` repeated | `Safe` (type correctness and what holds with forced removal, too), `CallsReturn`, `TombstoneSettles` | 132 k |
| `session_interrupted` | 3 processes, 1 root, create, forced removal, `gc`, 2 calls, 1 fault | `InterruptedRemoveCompleted`, **violated** | |
| `template` | 2 processes, 1 key, 2 roots, 2 sessions, macOS, 2 faults, fair | `SessionTemplateWhole`, `RecordDescribesTree`, `Promised`, `GcOkMeansClean`, `ResumableSettles`, `GcReclaims` | 61 k |
| `pool` | 6 entries, 3 workers, channels of 2, 2 faults, fair | `SuccessIsComplete`, `NoStraggler`, `Accounted`, `Returns` | 206 k |
| `record` | 3 transactions, 3 stages, 1 fault | `FinalWhole`, `AckedDurable`, `RecordKept`, `Implements` | 1.1 M |
| `child` | 1 descendant, pipes of 1, 4 modes, 1 fault, fair | `OutputWhole`, `NeverAstray`, `FailureCleansUp`, `Returns`, `NoPipeStuck` | 500 k |
| `registry` | 3 processes, 2 paths, 2 repositories, 2 moves, 2 faults | `OneRecordPerRepository`, `AckedDurable`, `RefusedAsFound` | 3.9 M |
| `loose` | 2 objects, 2 fanouts, 4 steps of git, 1 fault | `OwnKept`, `ReportedGone` | 2.8 M |
| `loose_safe` | 1 object, 4 steps of git | `OwnSafe`, **violated** | |

Type correctness of every module is a theorem (`TypeCorrect`), whether a run checks it
or not, as is each module's inductive invariant (`Invariant` or `Invariance`).

Bounds. `MaxFaults` counts kills, power cuts, failed system calls and failed git
children; `MaxEnv` counts steps of others on the authority and in the sessions;
`MaxMoves` counts repositories that are moved; `MaxCalls` counts commands started,
except `gc`. They are the only bounds; sizes are constants. Two publishers are the
fewest that race; one outside step moves the target, prunes, edits the configuration or
moves the private tip once the journal has frozen it; one fault already leaves a stray
child that meets a second publisher. The proofs cover every other size. Commits: a base and two children, the fewest
with a fast-forward and a non-fast-forward. Two roots are a name that is removed and created again, which is
what stale identities need. Five calls are create, exec, remove, create and one
more. Processes and roots are interchangeable, so the
safety runs use symmetry; the runs with liveness do not. `gc` is not counted by
`MaxCalls` but cannot be taken when every process is busy or has left a
temporary, and a session that has settled leaves nothing to do: hence
`CHECK_DEADLOCK FALSE` there. The publish runs check deadlock.

In `template`, commands are not counted: the only bound is on faults, and two of
them are a create killed in one place and a `gc` or another create killed in the next.
One key, because two multiply the behaviours beyond what a liveness check can
search, and records of different keys share nothing but the lock on HOME. In `pool`, twice
as many entries as workers and channels of two let a channel be full, empty
and disconnected with something in it; 16, the depth in the code, adds nothing to
that. There the call ends and stutters (`Over`), so deadlock is checked; in the
template run a process whose leftovers stay cannot start again, hence
`CHECK_DEADLOCK FALSE`.

In `record`, three transactions are a replacement, one that displaces it and one that
removes or sweeps what they left; three stages let a sweep tell a direct predecessor
from an older record. In `child`, a pipe of one place is full as soon as something is in
it; one descendant can hold a pipe inside the group or outside it; two idle times make a hard
deadline that progress can reach. In `registry`, two paths and two moves bring a
repository to another path, or two in turn to one; three processes are one that fails, one
that finds what it left, and one that waits. In `loose`, two objects share a fanout or
do not, and four steps of git are an import, a ref that moves, a prune and one more.

Fairness. In `Publish`, weak fairness of a publisher's steps and of the
`update-ref` child: both are programs that run on when they can, under deadlines
that `git.rs` enforces. Repeated publishes (weak fairness of `Start`) are an
assumption about the user. In `SessionLifecycle`, weak fairness of every
process's steps and of exec children's exits; strong fairness only for the two
places where the code waits in `flock`, which the kernel grants in turn. Weak
fairness of `Start(p, "gc")` in `GcSpec` says that somebody keeps running `gc`.
In `TemplateLifecycle`, weak fairness of every process's steps, strong fairness of
taking the lock on HOME, for which the code waits in `flock`; strong
fairness of `Start` says that create and `gc` are run again and again. In
`MaterializePool`, weak fairness of every thread and none of the clock: `Returns`
must not depend on the deadline. The reads and writes of a git child have idle
timeouts of their own (`git.rs`), which is why a worker's step on one entry ends.
In `GitChild`, weak fairness of the owner's thread in steps that do not fail, none of the
child; `Returns` has the clock's fairness as its premise, `NoPipeStuck` needs no clock.

## Where code and documentation part

* **`LostRaceCanRetry`** (`publish_lost_race`). The help text tells a user who lost
  the race to rebase and retry. A writer that comes first after the last check of
  the target and before the child leaves `CasAttempted`, and from then on
  publish, exec and remove refuse the session, though git had said plainly that
  nothing moved. No fault is needed.
* **`InterruptedRemoveCompleted`** (`session_interrupted`). The help text says an
  interrupted cleanup is completed by `gc`. A forced removal of an unfinished
  session that is killed between its exchange and the unlink of the record it
  displaced leaves a Materializing temporary beside a Tombstoned record.
  `session_precedes` does not know that pair, so `gc` stops before it reaches
  the tombstone, every time.
* **`OwnSafe`** (`loose_safe`). The help text says `gc` reclaims loose objects "when
  the complete state census proves it safe". What is proved is that the authority has an
  identical file, not that it will keep it. Publish imports objects before its
  swap; if it then meets a conflict, no ref of the authority reaches them.
  `gc` drops the session's copies all the same, and the next prune of the authority
  takes the last ones. No fault is needed.

Narrower facts the model brought out, which shape the properties:

* `publish_recovery` gives `PUBLISH_RECOVERY_REQUIRED` to every failed journal write: the
  journal may be Idle and no swap have been attempted, although the help text says
  that the code means a swap whose outcome is not safely replayable.
* `unlink_capability` looks and then unlinks by name. Under the lock on HOME nobody
  comes between; a removal that runs without it may delete a record that another
  command has just put there. `RecordKept` and `RecordRegister` make an exception of it.
* The same window is open to a sweep, under a temporary name. A command without HOME (a
  removal or a publish) has exchanged its record over another's and is about to exchange
  back; `gc` has looked at its temporary; a third command replaces the record and is told
  that it succeeded; the exchange back moves that record to the temporary name, and `gc` unlinks it.
  It takes four transactions, one more than the run has, and came to light when the proof of
  `RecordKept` failed; TLC then found it too. `RecordKept` now names it (`Blind`). Without
  forced removals the lease on a root, which `RecordTxn` does not have, keeps two such
  commands of one session apart (`UnforcedInv`).
* A replacement that is itself displaced before it has looked may restore
  nothing: it reports `STATE_COMMITTED_RECOVERY_REQUIRED` and leaves both records on disk.
* `create` opens the state root as `init` does. With no root there it makes one, fails with
  `AUTHORITY_UNREGISTERED` and leaves it; every later `init` finds an empty root that
  is not its own and ends with `STATE_CORRUPT`, until somebody removes the directory.
  `RefusedAsFound` is therefore about `init` only. A new root's removal is not synced, so a
  power cut may bring an empty root back.
* HOME is synced for a root only by the `init` that made it. If that one is killed
  between its record and the sync, another `init` registers in the same root and
  reports success, a power cut can take the root with both records. `AckedDurable`
  speaks of the maker's own.
* A repository that was moved or deleted leaves its record behind; `gc` and `doctor`
  then refuse, and a new repository with the same inode number is refused by `init`.
* The idle deadline of a worker's git child runs on while the worker waits for its queue
  (`template.rs` 1868): a healthy worker may fail behind somebody else's slow entry.
* `gc` syncs the unlink of the session's copy but not the authority's file it was compared
  with, which git may not have synced either.

* `DeliveredStaysReady` holds without forced removal only. A forced
  removal of an unfinished session may compare the record, pause while the session
  is removed and created anew by others, and exchange its old tombstone over the
  new Ready record. It then reports a recovery error (`SilentIsClean`
  still holds) and the new tree is untouched (`DeliveredTreeSurvives` too).
* `RecordOutlivesRoot` fails with forced removal of a Prepared session, which looks
  for a root, finds none and unlinks the record while create makes the root.
* `SESSION_BUSY` from `remove` does not mean that nothing happened: `remove` drops its lease
  when the tombstone is on disk and asks for it again to delete the tree; if an exec
  comes between, the session is condemned and the answer is busy. What
  `SessionPromise` says of a busy call is only that it has touched no tree.
* A removal can displace a create's Ready record before create has unlinked the
  Materializing one it displaced itself. Create then ends with a recovery error
  although the session was delivered and removed in order, and if it leaves its
  temporary `gc` will not pass it.
* A create killed in a record transaction of a template leaves a temporary that
  `gc` recognises only while it is a neighbour of the record. If another create
  carries the template on to Ready first, `gc` reports recovery from then on
  (`tests/m6_maintenance.rs` wants such a temporary kept). `GcReclaims` excuses this case.
* A template left Materializing is refused by every create and only reported by
  `gc`, as `tests/create_m2.rs` wants it; `ResumableSettles` leaves it out. Of a Prepared
  one it says only that another create takes it up, which may leave it Materializing.
* `template_precedes` accepts a pair in both directions, `session_precedes` in one.
* The last check of `materialize_entries` (all entries accounted for) never fires
  (`Accounted`, proved): it is a second line of defence, and `SuccessIsComplete` is
  proved without it.

## Proofs

Of `Publish`, `PublishProofs` proves, from the assumptions `CommitsAssumption`,
`ConfigAssumption`, `AncestryAssumption` and `BoundAssumption` only:

| Theorem | Statement |
|---|---|
| `TypeCorrect` | `Spec => []TypeOK` |
| `Invariant` | `Spec => []IInv` |
| `SoleActorCorrect`, `CasFencedCorrect`, `CasOnceCorrect`, `DefiniteErrorCorrect` | the four safety properties of `publish` |
| `Refinement` | `Spec => Promised`: Publish implements PublishTarget |
| `QuietNeverFencesCorrect` | `QuietSpec => QuietNeverFences`, an action property of `PublishQuiet` |

None of the four safety properties is inductive. `CasOnce` needs to know that
a publisher that still writes the journal holds the record on disk, otherwise a
stale one could write Prepared over CasCommitted; that needs the lease; and
that a child is only ever started by a publisher whose transaction has not
landed. `IInv` adds those facts:

* `LeaseInv`: whoever is past its lease is its one holder;
* `RecordInv`: a fresh capability is the record on disk, and past revalidation it
  is fresh and its journal is one of those its place in the code is written for
  (`JournalsAt`);
* `ChildInv`: `CasFenced`, and no child exists where one is about to be started
  or has just been waited for;
* `LandedInv`: `CasOnce`, and what the child's state and the publisher's place
  say about whether the swap has landed;
* `MovedInv`: `DefiniteErrorMovedNothing`, and a call that is still running has
  moved nothing before its own child has.

The key lemma is `Alone`: two publishers past their lease are on different
sessions, so a step of one cannot disturb what `IInv` says of the other. `WriteInv`
treats all record writes at once; one lemma per action follows, and
`NextIInv` puts them together. For the refinement, `ObsInv` says that what the
Idle path is about to freeze is a fast-forward; then each record write is
`Open`, `GiveUp`, `Finish` or a stutter, the child's swap is `Land`, and every
other step leaves the session alone (`OtherWriter`, or a stutter).
`QuietNeverFences` needs `QuietInv`: a call that is left alone has, from each of its looks at the
authority on, a target that is the frozen one and the commit in the object store, so its child
cannot refuse; the only swap that can go through meanwhile is its own.

Of `SessionLifecycle`, `SessionLifecycleProofs` proves, from `RootAssumption`, `OpsAssumption`
and `BoundAssumption`:

| Theorem | Statement |
|---|---|
| `TypeCorrect`, `Invariance` | `Spec => []TypeOK`, `Spec => []IInv` |
| `ExecLive`, `DeliveredTree` | `Spec => []ExecOnLiveRoot`, `Spec => []DeliveredTreeSurvives` |
| `Silence`, `SilentClean` | `Spec => []SilentInv`, `Spec => []SilentIsClean` |
| `Safety` | `Spec => []Safe`, all of the above, for any set of commands |
| `Serving` | `Spec => []ServedInv` |
| `Refinement` | `Spec => Promised`: SessionLifecycle implements SessionPromise, for any set of commands |
| `Undisturbed` | without forced removal: `Spec => []UnforcedInv` |
| `StaysReady`, `RecordOutlives` | without forced removal: `Spec => []DeliveredStaysReady`, `Spec => []RecordOutlivesRoot` |

`IInv` says what a process knows by its place: which record its capability is for
(`CapInv`), which directory it has opened (`DirInv`), what its temporary holds
(`TmpInv`), which locks it has (`HoldInv`) and what it may rely on at the two
names (`TreeInv`). What ties processes together is `LockInv`, and that a
Tombstoned record names a root that was condemned before it was on disk
(`DiskInv`): a tree is moved and deleted by holders of its exclusive lease only, whose
capability is Tombstoned. `UnusedInv` says that an inode that was never made is known to
nobody, which makes `mkdir` harmless.

`SilentIsClean` is about the end of all commands, so `SilentInv` says what it comes from on the
way: a process is `Doomed` when an error report is all that is left to it (it is aborting, it needs
a record that is no longer the one on disk, or it displaced one it did not expect), and
what is on disk is in order unless somebody has reported an error or is doomed. A doomed
process stays so until it reports; so each action is a matter of the process that takes it
(`SilentByStep`).

`StaysReady` and `RecordOutlives` have the premise `"force" \notin Ops`, as the run `session`
has it, because both are false without (see the narrower facts above). Their
invariant says that a process that is about to replace or drop the record holds the one on disk;
`CurrentAlone` is the key lemma: the HOME lock keeps a second create out and the lease a
second removal or publish, so there is one such process at a time.

The refinement needs more than `IInv`, because an answer speaks of all that was ever
delivered. `ServedInv` adds it: `PlaceInv`, a tree stands if and only if it is
at one of the two names, so what is at neither is gone; `BareInv`, when there is no record
or a process is about to drop it (`Bare`) nothing delivered is at the root name; and `Served`,
which command can be at which place, and that a removal that checks what would be
discarded has the whole tree at the root name before it. `Serving` proves it beside the
refinement (`NextPromise`), one lemma per action: what a handler does to the trees is
`Make`, `Complete`, `Condemn` or `Break`, its return is the answer it gives
(`Returns`), and the rest moves the call on or is a stutter (`GoesOn`). `BreakPromise`
is what every deletion comes down to (the tree is its own create's or condemned, and
the exclusive lease keeps programs out), `NothingLeft` what every removal that reports
success has; `RemoverAlone` says that nobody builds, opens or deletes the tree
that a removal is about to condemn.

Of `TemplateLifecycle`, `TemplateLifecycleProofs` proves, from `NoneAssumption`,
`UnsealAssumption` and `BoundAssumption`, so for platforms that have to unseal a root and others:

| Theorem | Statement |
|---|---|
| `TypeCorrect`, `Invariance` | `Spec => []TypeOK`, `Spec => []IInv` |
| `SessionWhole` | `Spec => []SessionTemplateWhole` |
| `Describes` | `Spec => []RecordDescribesTree` |
| `GcClean` | `Spec => GcOkMeansClean`, an action property |
| `Refinement` | `Spec => Promised`: TemplateLifecycle implements TemplatePromise |

One process works on templates at a time, the holder of HOME (`HomeInv`), and it goes by the
record on disk (`WorkInv`); what it has found or made of the tree is in `PlaceInv`, place by place,
and `RecordDescribesTree` is what is left of that when it is killed there. `NamesInv`
(a directory has one name and belongs to one template) keeps a step on one template
from disturbing another. `GcInv` is the loop invariant of `gc`: every template is still
to do, in hand, or settled, and no session but those of the census reaches one.

The refinement needs of each process only that its place tells its command besides
(`OpInv`). A call that goes on (`CallGoesOn`) or ends (`CallEnds`) leaves the templates alone
unless it is one of seven kinds of step: three commits of a record transaction (`Begin`, `Offer`,
`GiveUp`; the other two are stutters, and `Writes` shows that nothing else in a transaction
says anything), making the root (`Root`), filling, sealing, unsealing (`Build`, `Shaping`), opening
and removing the tree of a tombstone (`Clear`) and dropping its record (`Reclaim`). Both
renames leave the tree what it was. `HalfMade` is where `GcInv` comes in: past its census
`gc` finds no template half made, whatever it has done to the others.

Of `MaterializePool`, `MaterializePoolProofs` proves, from `SizeAssumption` only:

| Theorem | Statement |
|---|---|
| `TypeCorrect` | `Spec => []TypeOK` |
| `Invariant` | `Spec => []IInv` |
| `SuccessCorrect` | `Spec => []SuccessIsComplete` |
| `NoStragglerCorrect` | `Spec => []NoStraggler` |
| `Tally`, `AccountedCorrect` | `Spec => []TallyInv`, `Spec => []Accounted` |

`SuccessIsComplete` speaks of the end only; what makes it true is that no entry
and no failure is ever forgotten on the way. `IInv` says so: an entry that was sent is
written, or in its worker's channel, or in that worker's hands, or lost with a worker that
failed, panicked or was cancelled (`EntryInv`, `ChannelInv`); the flag is up only if a
dispatch failure, a recorded failure or a failed worker accounts for it
(`CancelInv`); a joined worker that was not done has been recorded (`JoinInv`). At success
nothing was recorded and all were joined, so nobody failed, so the flag is down,
so every channel was drained. One lemma per action has one step per conjunct.
`Accounted` compares numbers: `TallyInv` says that a worker's count is the cardinality of
the set of entries it has written, and what main has added up that of the set the
joined workers have; joining one adds a disjoint set.

Of `RecordTxn`, `RecordTxnProofs` proves, from `NameAssumption` and `BoundAssumption`:

| Theorem | Statement |
|---|---|
| `TypeCorrect` | `Spec => []TypeOK` |
| `Invariant` | `Spec => []IInv` |
| `FinalWholeCorrect`, `AckedDurableCorrect` | a record is never torn; what was acknowledged lasts |
| `Keeping`, `RecordKeptCorrect` | `Spec => []KeptInv`, `Spec => []RecordKept` |
| `RefinesRegister` | `Spec => Implements`: RecordTxn implements RecordRegister |

What makes them true is what a transaction may assume at each system call:
`WholeInv` and `ReadyInv` (only a synced inode is renamed), `TmpInv` (what can be at its
temporary name, which nobody else may fill), `WriterInv` (the last one who wrote the final
name and is on its way to success still has it there), `SettledInv` (and, once
it has synced, in every directory a power cut can leave). Each step of it is then one of the
register's or a stutter, one lemma per action (`ExchangeRefines`, `RemoveRefines` and so
on): the rename is `Swap` or, over a record that was not expected, `Overwrite`; an unlink of the
final name is `Remove`; what follows the looks afterwards is `Spoil`, `Flush`, `Ok` or `Fail`.

`RecordKept` follows a record from name to name. Renames and exchanges move names and drop none,
so only the unlinks matter: `UnlinkInv` and `SweepInv` say what each can take, which is what its
transaction has named or wrote itself, or it is `Blind`. `PlacedInv` says that what was
renamed is linked, `OwedInv` that once synced it is linked in every directory a power cut can
leave. `HomeInv` is needed for sweeps: the temporary they look at is exchanged by nobody
else who holds HOME.

Of `StateRoot`, `StateRootProofs` proves, from `NameAssumption` and `BoundAssumption`:

| Theorem | Statement |
|---|---|
| `TypeCorrect`, `Invariant` | `Spec => []TypeOK`, `Spec => []IInv` |
| `OneRecordCorrect` | `Spec => []OneRecordPerRepository` |
| `AckedDurableCorrect` | `Spec => []AckedDurable` |
| `RefusedAsFoundCorrect` | `Spec => RefusedAsFound`, an action property |
| `HeldByRunnerCorrect` | `Spec => []HeldByRunner`: the lock is free, or its holder is at a step made under it |

`OneRecordPerRepository` is not inductive: that a path is free and its repository
recorded nowhere else is looked up by `Scan`, and must still be so at `Link`, several
looks later. `Holder` says it, place by place, and `LockInv` that only the holder of HOME
is at such a place. That a refusal leaves nothing needs the same: what `Abort` and `Undo` take back
is the process's own temporary and its own empty root (`Base`). `AckedDurable` is carried by
`RootInv` (a root is its maker's, on every disk a power cut may leave) and by `reread`, which
follows the sync.

Of `LooseGc`, `LooseGcProofs` proves, from `NameAssumption` and `BoundAssumption`:

| Theorem | Statement |
|---|---|
| `TypeCorrect`, `Invariant` | `Spec => []TypeOK`, `Spec => []IInv` |
| `OwnKeptCorrect`, `ReportedGoneCorrect` | `Spec => []OwnKept`, `Spec => []ReportedGone` |

`GcInv` says what the last look before an unlink is worth: of the object in hand another
copy is in reach, or the owner pruned it after gc had looked. `NumberInv` says that
a file that has come up anew is never taken for the one that was looked at.

Of `GitChild`, `GitChildProofs` proves, from `SizeAssumption`:

| Theorem | Statement |
|---|---|
| `TypeCorrect`, `Invariant` | `Spec => []TypeOK`, `Spec => []IInv` |
| `OutputWholeCorrect`, `NeverAstrayCorrect`, `FailureCleansUpCorrect` | the three safety properties of `child` |

`SeenInv` is what `OutputWhole` rests on: a pipe whose end was seen is empty and nobody can
fill it. `GroupInv` is what `FailureCleansUp` rests on: the owner gives the
group's number up only where both pipes have ended, or where the result says that
cleanup may have left somebody. `EndedInv` carries it from the kill to the wait.

Only model-checked: all liveness
(`ResumableSettles` of both modules that have it, `CallsReturn`, `TombstoneSettles`, `GcReclaims`, `Returns`
of both, `NoPipeStuck`), which is out of the prover's reach. Every other property of a passing run
is a theorem.

## Not modelled, and the plan

Modelled by now: everything that changes state that two processes, two threads, a
parent and its child, or a process and its successor share. Left:

1. Proofs: that the four phases of a record transaction in `SessionLifecycle`
   and the three in `TemplateLifecycle` are the compare-and-swap of `RecordRegister`.
2. `open_existing_state` and the checks `list`, `doctor` and `gc` make of the
   root: they read and refuse, under locks that the models have, and change nothing.
3. Cloning, sealing, hashing and verifying a tree: one process, one tree that nobody
   else writes (`RecordDescribesTree` says what they have to leave behind); what can go wrong
   there is a matter of system calls and platforms.
4. Inside create, the git children that configure the session's repositories: the tree
   they write is not delivered until they have ended, so they are one action with three ends.
5. Pure parts (`sigchld` rules, size-scaled time-outs, worker counts, name
   validation): no state, and tests reach them.

Left out for good: argument parsing, output and help text, checkpoint hooks (a
test device), platform probes, copy-on-write system calls, and the
release scripts: no state of theirs is shared between processes.
