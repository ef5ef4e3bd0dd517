# Formal models of ascend-hal-sharing-probe

The repository is a set of probe programs that share Host memory between
processes through the Ascend HAL and move it by CPU, device copies and Linux
AIO. Almost nothing in them can be tested without the hardware, and what is hard
in them (several processes in lockstep, a completion thread, clean-up after a
failure half-way) is hard to test even with it. This directory models those
parts in TLA+, checks them with TLC and proves the central ones with TLAPS.

## 1. Inventory

| Part | Source | State | Operations | What is hard | What makes it correct |
|---|---|---|---|---|---|
| `multi_share` coordinator | `multi_share.cpp` `main` | sockets, children, tokens, barrier counter | fork/exec, collect and broadcast tokens, gather/release barriers, close, wait, kill, reap | processes that die, closed sockets, orphans | every barrier separates the phases; PASS only if all is well; everything ends |
| `multi_share` worker | `multi_share.cpp` `worker` | VA, handles, mapped slices, HBM, result | init, create, export, import, map, six barriers, rounds of write and read, unmap, clean-up | readers and writers of shared blocks, failure in any phase | a reader sees exactly what the owner wrote in this round |
| word channel | `cli.hpp` | bytes in a socketpair | `send_word`, `receive_word` | end of file, time-outs | FIFO of whole words, no word lost before end of file |
| `AioPhase` | `cache2_hal_aio.cc` | AIO context, eventfd, epoll, requests, three atomics, a thread | set-up, submit window, reap, drain, stop/join, destructor | two threads and the kernel, teardown in any state | nothing is torn down under the kernel or the thread; pass means every request completed |
| `cache2_hal_aio` driver | `cache2_hal_aio.cc` | `HostMemory`, files | allocate with fallback, DUMP, rename, poison, LOAD, verify, psync engine | fallback after a partial failure | each resource released once; only full files are committed |
| `DataStrategy` | `ucm_data_strategy/` | mappings per rank, stride, owner | `Setup`, `Reset`, `DataAt`, `DeviceDataAt`, DESC lines | huge-page fallback, failure at any peer, lines carried and lifetime held by a person, 64-bit sizes | a failed Setup holds nothing; each slot has exactly one address, inside its mapping |
| two-process probes | `host_share.cpp`, `device_share.cpp`, `hal_map_probe.cpp`, `launch` in `cli.hpp` | one channel, one shared buffer, the resources of each process | fork/exec, token, fill, verify, copies, words, explicit release, destructors, wait | ownership of the buffer passed by bare words; either process may die anywhere | one user at a time, the creator releases last, exit code 0 stands for both |
| `aio_operation`, `io_tests` | `common.hpp`, `host_share.cpp` | AIO context, stream, file, shared and control buffer | ACL copies, submit four, reap four, destroy on a short batch, verify, count failures | reuse of the buffer after a failure; old data taken for new | no transfer under the CPU; a case passes only if its data moved |
| `hal_host_io`, `host_uva_share` | same-named files | one process each | acquire, use, release | error paths with `goto` | reverse-order release |
| HAL wrappers, `Status`, logger | `ucm_data_strategy/trans`, `status`, `logger` | none | forward one call | - | - |
| runner | `run_tests.py` | the process group of the case, return codes | start, wait, kill, reap, record | time-out and Ctrl-C against exit; an importer that outlives its parent | no process survives its case unkilled, no two cases run side by side, codes are true |

Interactions: the coordinator and its workers share only sockets, signals and
the memory the workers map from each other. The main thread of `AioPhase`, its
completion thread and the kernel share three atomics, the completion ring and
the eventfd. The ranks of `DataStrategy` are separate programs whose only
channel is a person who copies lines. A case of the runner is a launcher and the
importer it forks; they share a socketpair and one buffer, and the runner sees of
them an exit code and a process group.

`PROJECT.json` lists each part with its status and, under `hazards`, the places
where it can go wrong, each with the properties that watch it.

## 2. Modules

| Module | Models | Extends / uses |
|---|---|---|
| `Lockstep` | the promise of a barrier: nobody returns from the n-th call before everybody entered the n-th; members may drop out | |
| `MultiShare` | coordinator and N workers of `multi_share.cpp` | instance of `Lockstep` |
| `MultiShareInv` | the two halves of the inductive invariant, `IInv` and `DataInv` | `MultiShare` |
| `MultiShareProofs` | type correctness, phase agreement, the promise of `Lockstep` and its refinement; slices, contents, verdict, clean-up | `MultiShareInv` |
| `AioPhase` | class `AioPhase` with its thread and the kernel | |
| `AioPhaseProofs` | its six safety properties | `AioPhase` |
| `Cache2` | `main()` of `cache2_hal_aio` around `AioPhase`: memory, iterations, files | |
| `Cache2Proofs` | what is committed is whole; fields and descriptor tell the truth; so does the verdict | `Cache2` |
| `CasePair` | what one case is to the runner: two processes and how they may end | |
| `SharePair` | the four two-process conversations and their launcher | instance of `CasePair` |
| `SharePairProofs` | its three safety properties; its steps are those of a case | `SharePair` |
| `IoTests` | `io_tests` and `aio_operation`, one process with ACL and the kernel | |
| `IoTestsProofs` | its four safety properties | `IoTests` |
| `RunTests` | the loop of `run_tests.py` over its cases | instance of `CasePair` |
| `RunTestsProofs` | the three safety properties of the runner | `RunTests` |
| `DataStrategy` | the ranks of `ucm_data_strategy`, the HAL's ledger and the person at the terminals | `SlotLayout` |
| `DataStrategyProofs` | its four safety properties | `DataStrategy` |
| `SlotLayout` | the size and address arithmetic of `ucm_data_strategy` as operators | |
| `MCSlotLayout` | argument check and layout for every combination of arguments of a small `size_t` | `SlotLayout` |
| `SlotLayoutProofs` | the three properties of the layout for every width | `MCSlotLayout` |

### MultiShare

One process per rank and one coordinator. `pc[r]` is the position in `worker()`
(or between `fork` and `exec`), `phase`/`round` say which of the six barrier
call sites comes next, `entered`/`returned` count calls of the lambda `barrier`
and the returns from it, `held`, `handle`, `slice` are what the clean-up code of
lines 223-232 looks at (`device_set`, `acl_init`, `base`, `handles[]`,
`mapped[]`). `up[r]`/`down[r]` are the two directions of a socketpair, `mem[o]`
the content of the block of rank o: a seed, or `Torn` while it is written.

* A step is the code between two points where another process could notice a
  difference. A loop over the ranks is one step per turn.
* A failing HAL/ACL call, a mismatch found by `verify`, a socket time-out, a
  failing clean-up call and a `SIGKILL` are faults (`Fault`), at most `MaxFaults`
  in a behaviour. What follows from one (end of file, broken pipe, `SIGTERM`
  from `kill` or from `PR_SET_PDEATHSIG`, an import of a block that is gone) is
  ordinary behaviour and is not bounded.
* `CoordEndOpen` contains the detail that a child between `fork` and the `close`
  loop of lines 308-309 holds the coordinator's ends of earlier sockets, so
  that end of file is not seen while such a child exists.
* The tokens of the HAL are the ranks of the allocations they stand for; nothing
  in the protocol lets a worker tell whose token it has got.
* The CPU test and the AIO test between the first two barriers are one write of
  the own block: they touch nothing else that is shared. The clean-up at the end of
  `buffered_aio` may fail although the block is written (`EndWrite`, `Leak`).
* A non-zero word at a barrier and a zero word as a token do not occur;
  `IInv` implies it and the proof covers it.
* `AclResources`' destructor runs while an exception unwinds; a failure there
  sets `cleanup_failed` when `result` is 1 already, so `Throw` leaves it out.

### AioPhase

`pc` is the main thread in `Run` and in the destructor (steps beginning with
`~`), `tpc` the completion thread. `submitted` is the local variable, `stop`,
`failed`, `completed` are the atomics, `done`, `fds` the fields of `Request`.
`flight`, `ring`, `unsignalled`, `ticks` belong to the kernel: accepted requests,
the completion ring, events not yet announced, and the eventfd counter. An
event enters the ring first and ticks the eventfd later, both external.

* The loads and stores of the atomics are one step each; `failed_` is written in
  `Inspect`, `completed_` in `Tally`, so the main thread may look in between.
* `io_destroy` blocks until the kernel is done with every request; it does not
  fail on a live context.
* Faults: the deadline (`expired`, it may pass between any two steps), a failing
  call, `EAGAIN` from `io_submit`, a failing `close`, a failing call of the
  thread, a request that completes badly, an event delivered twice.
* `EINTR` and `EAGAIN` loops that change nothing are left out.

### DataStrategy

One process per rank. `pc[r]` is the position in `Setup`, `Reset` or `main()`;
`page` is the page type of the attempt, `cur` the loop index, `purpose` why
`Reset` runs: before the attempt with normal pages, after a failed `Setup`, or
from the destructor. `mappings[r][q]` is the entry of `mappings_` with the fields
the code tests before it gives something back; `hal[r][q]` is what the driver
really holds for it (address range, reference to physical memory, and the memory
a mapping leads to), so that the properties compare the program's book-keeping
with a ledger it does not see. `desc[r]` names the allocation of the handle on
the accepted DESC line.

* The HAL is external. It refuses to import or map an allocation that has been
  released. Any of its calls may fail (`CallFails`); only a failure of
  `LocalSetup` with huge pages is tried again. `mappings_.resize` may throw and,
  being an exception, is not retried (`ResizeThrows`). `Reset` logs a failing call
  and carries on; `leaked` remembers that one did.
* The person is external. `Answer` pastes the line a rank waits for once it is
  printed elsewhere, `PressEnter` ends the hold of a rank once every rank has
  printed SETUP PASS or ended, `GiveUp` closes the input of a rank that waits for
  a rank that ended without printing its line. `Stray` types a line nobody asked
  for, of any rank already printed or none at all, before SETUP PASS; at most
  `MaxStray` of them.
* `GetRankDesc` of this `CtrlLayout` returns a descriptor or throws, so the
  polling loop around it, and `timeoutMs` with it, has no second turn
  (`ucm_data_strategy/README.md:76` says as much) and is left out.
* The end of a process gives back what the HAL holds for it; `NothingLeft` looks
  before that, at the end of `Reset`.

### SlotLayout

`size_t` holds the numbers below `limit` (2^64 in the code), and every product
and sum of the code is taken modulo it. `Accepted` is the check of
`main.cpp:42-47`. The address of a slot is a rank and an offset.

### Cache2

`pc` is the position in `main()`, in `HostMemory::Allocate` or in the
destructors (steps beginning with `~`). `flag` is the set of fields of
`HostMemory` that are set, `held` what driver and heap have really granted; `fd`
and `kfd` are the same pair for the descriptor of the file under way. `buffer`,
`temporary` and `archived` give for each block what the memory, `block-N.tmp` and
`block-N` contain: the iteration whose records they hold, or `Absent`,
`Partial`, `Garbage`, `Poison`. `durable[b]` is the set of contents that
`block-N` may have after a power loss, `synced[b]` whether the `.tmp` file is on
stable storage.

* The options (memory, page type, engine, `--sync`, `--keep-files`) are chosen at
  the start, all of them.
* A phase of the aio engine is one step that passes or throws: that is what
  `AioPhase` shows of it. The psync engine is modelled call by call.
* A transfer may report success although some of its blocks did not arrive
  (`lied`): such a block is garbage, holds the records of an earlier iteration or,
  for LOAD, what it held before (`Wrong`). The verification has to notice. The
  records of `TextRecord` are told apart by their iteration only.
* Any call may fail, without a bound: a failure only ever shortens a behaviour,
  or leads once from the huge-page attempt to the one with normal pages.
* A program that is killed leaves a state of `archived` and `durable` that the
  invariant has looked at already.

### SharePair and CasePair

What a worker does is a script, one entry per call in program order (`Script`,
for `host_share`, `device_share` and `hal_map_probe` with a Host or a device
buffer), and what its destructors do is a second one (`Unwind`). The actions run
them: acquire, explicit release, access of the buffer (a begin and an end, so
that two accesses may overlap), send, receive, clean up. `phase`, `at` say where a
process is, `flag`/`held` what its variables say and what the driver has granted,
`wire` the words under way, `ends` who holds each end of the socketpair between
`fork` and `exec` and after.

* The buffer is `content`, the seed of the pattern in it, 0 while it is written.
* A copy may report success and move nothing. Into the mapping it leaves the old
  pattern, for the `copy_out` after it to find; out of the mapping it leaves the
  cleared local buffer, and the comparison throws as if the copy had failed. An
  `io_tests` that moves nothing is counted as a failure (`IoTests`).
* Faults, at most `MaxFaults` together: a call that fails, a receive that times
  out, a process that is killed at any place. End of file and broken pipe follow
  from them and are not bounded.
* `io_tests` is one access that ends with the seed in the buffer and a count, or
  throws; `IoTests!LeavesClean` and `ZeroMeansAllPassed` justify it.
* `CasePair` is the runner's view: parent and child, each running or ended. 0
  needs a child reaped with status 0; 2 is only for a launch that failed.
  `SharePair` implements it, `RunTests` runs cases that follow it: every case that
  `run_tests.py` lists is one of the programs of `SharePair`.

### IoTests

`pc`, `step`, `op`, `direct` are the place in `io_tests` (the ACL steps are the
table `AclSteps`) and in `aio_operation`. `data` is the content of shared buffer,
control buffer, device memory and file. `ctx` is the program's context variable,
`kctx` the kernel's. `pending` and `flight` are the ACL copy and the AIO requests
under way: they complete at any time, and may move the data, leave the target
untouched, garble it or report an error. `passed` are the cases reported PASS,
`real` those whose data did move. Of the ACL case that is the round trip: the
backlog copies the seed onto the seed, and the verify after it would notice
garbage but not copies that moved nothing.

### RunTests

`pc` is the place in the loop body of `run_tests.py`. `group[c]` is the pair of
processes of case c, `doomed` the processes that SIGKILL has been sent to: they
take no step but to die. `process` is the case whose `Popen` object the variable
holds, or `None`: it is what `killpg`, `wait()` and `poll()` act on (`ParentEnded`:
the parent has ended and is reaped by whoever asks), so a `process` left over from
the case before would be signalled in its place. Ctrl-C may come at every place,
`MaxInterrupts` times; `unguarded` remembers that one came where no handler kills
the group (inside `Popen`, inside a handler, inside `finally`). A case's
processes may do nothing for ever. The 127 of a `Popen` that fails, the 124 of a
time-out and a `-9` are the codes that are recorded.

## 3. Runs

| Run | Instance | Shows |
|---|---|---|
| `multi_share_faults` | N=2, 2 rounds, 2 faults | `PhaseAgreement`; `ReadersSeeRoundData` and `SliceHoldsOwner`: readers see this round's data of the right owner; `PassMeansClean`, `NoOrphan`; `MultiShare` implements `Lockstep`; `FullInv`, the invariant that is proved |
| `multi_share_live` | N=2, 2 rounds, 1 fault, fairness | every process ends; without a fault nobody fails (`NoSpuriousFailure`) and everybody unmaps before anyone releases (`OrderlyRelease`) |
| `multi_share_release` | N=2, 1 round, 1 fault | expected violation, see section 5 |
| `aio_phase` | 3 requests, window 2, batch 2, 2 faults, fairness | nothing is torn down under the kernel or the thread, PASS means every request completed, no event is forgotten, the window holds, each descriptor is closed once, the phase ends |
| `cache2` | 2 blocks, 2 shards, 2 iterations, all options, any failures | `CommittedIsWhole`: a final name never shows a file cut short, nor after a power loss with `--sync 1`; `VerdictIsTrue`: PASS only if every block moved, whatever an earlier iteration left; `FieldsAreGrants`: nothing forgotten or given back twice |
| `data_strategy` | 2 ranks, 2 slots each, 2 faults, 1 stray line, fairness | every slot leads to its rank's memory, nothing is left after `Reset`, unmap before release and free, every process ends |
| `data_strategy_pass` | 3 ranks, no fault, no stray line, fairness | memory is held until every rank is set up, every rank passes |
| `data_strategy_stray` | 2 ranks, no fault, 1 stray line | expected violation, see section 5 |
| `slot_layout` | 5-bit `size_t`, alignment 4, granularities 0, 1, 3, 8, up to 4 ranks | the stride is rounded up; every slot lies in its rank's mapping and apart from the others |
| `share_pair` | four programs, 2 faults, fairness | `BufferPassedInTurn`: one accessor, and the creator releases last; `FlagsAreGrants`; `VerdictIsTrue`; the pair implements `CasePair`, its ending included |
| `io_tests` | 4 requests, direct 0 and 1, any failures and outcomes | no buffer is touched under a transfer, PASS means the data moved, 0 means all passed, nothing is left behind |
| `run_tests` | 2 cases, 2 Ctrl-C, fairness | `NothingLeftRunning`, `CodesAreTrue`; `OneCaseAtATime`: also after a Ctrl-C where no handler kills, no second case runs beside one that is left; the runner ends |

Typing is not a run of its own: `TypeOK` is part of every invariant that is
proved (`multi_share_faults` checks `FullInv`, which contains it).

Why the bounds are enough to be worth running. Two workers are the least for a
reader that is not the writer; what a third adds to the barrier, a worker that is
neither first nor last, is covered by the proof for every N. Two rounds (the value of the code) are the least for a stale block.
Two faults allow a failure while another is being cleaned up. Three requests
with a window of two fill and refill the window; a batch of two stands for the
128 of line 255, and an event delivered twice puts a third one behind a full
batch. Two ranks are the least with a peer, and two faults fail both attempts of
`LocalSetup`, or `Setup` and then a call of `Reset`; with three ranks each waits
for two lines, in a different order. Two blocks and two shards have a first that
is not the last; a second iteration finds what the first has left in buffer and
files. Two faults in a pair kill both processes, or make one fail while the
other cleans up. Two cases have an importer of the first alive in the second;
two Ctrl-C interrupt the handler of the first. `io_tests` has the four requests of
the code and is otherwise not bounded. Five bits hold every relation between
sizes, alignment and limit, including the wrap-around; the proofs cover the
other widths.

Fairness. Every process and thread that can run does (weak fairness of each
worker, the coordinator, the two threads, each rank, creator and importer), a
pending `SIGTERM` is delivered, and the file system answers a request. The
socket time-outs (120 s) and the AIO deadline are faults and not fair:
`Termination` does not lean on them, nor does the ending that `CasePair` asks of
`SharePair`. That is on purpose: an end of file must be enough to end
`multi_share` or a pair, and `io_destroy` waits for the file system whatever the
deadline says. The person attends to every terminal: the program cannot do
without, since no time-out reaches the blocking read. In `RunTests` the runner
is scheduled, its time-out expires and SIGKILL takes effect; nothing is assumed
of the cases. `IoTests` and `Cache2` have no liveness property: their loops are
counted, and they state no fairness.

## 4. Proofs

A theorem holds for every value of the constants, under the named assumptions of
its module and no others, and whatever fails: the bound on faults is a constant
too. Each follows from an inductive invariant, which TLC has checked on small
instances before; none of the properties is inductive by itself. The sections
below say what the invariant adds and why it is needed.

### Lockstep and multi_share

`MultiShareProofs`, for every `N >= 1`, `Rounds >= 1` and `MaxFaults`:

* `Invariance`: `Spec => []IInv`, with `TypeCorrect` and `PhasesAgree`;
* `BarrierCorrect`: `Spec => Barrier!Spec`, i.e. every step of the program is a
  step of `Lockstep` or leaves its three variables unchanged;
* `BarrierSafe`: `Barrier!Spec => []Barrier!NoOvertaking`, i.e. what `Lockstep`
  promises follows from its own steps, whoever drops out;
* `NobodyOvertakes`: by these two, no worker returns from a barrier
  that another has not entered;
* `DataInvariance`: `Spec => []FullInv`, and from it `SlicesHoldOwners`,
  `ReadersSee`, `PassIsClean`, `NobodyOrphaned`, `NothingFailsByItself` and
  `ReleasedInOrder`.

`PhaseAgreement` is not inductive: it says nothing about the words in flight.
`IInv` adds (a) `WorkerInv`, which ties `phase` and `round` of a worker to the
number of barriers it has returned from; (b) `SocketInv`/`Exchanged`, which ties
that number to the coordinator's barrier counter and loop index through the
contents of both channels; (c) `ReleaseInv`, which keeps the fact that everybody
had entered when a barrier word was sent, after the coordinator has stopped
serving; (d) `InStep`. From (a) and `InStep`, two working workers have returned
from the same number of barriers, hence are in the same phase. A barrier word
in `down[r]` and (c) give the guard of `Lockstep!Leave`. The proof has one lemma
per kind of step (silent, throwing, working, talking, clean-up, the
coordinator's) and per part of `IInv`.

`FullInv` adds `DataInv`, which rests on the barrier counts of `IInv`. Tokens are
bare, so that slice o is rank o's follows only from their order: `TokenOrder` and
`InTransit` say that the coordinator collects them in rank order and that those
on their way to a worker are the ones it has still to take. `SlotInv` says what
`handles[]` and `mapped[]` contain at each place. `MemInv` is the reason readers
see this round's data: from the moment the owner of a block enters the barrier
after its write in round k until it returns from the barrier after the reads, the
block holds the seed of round k; a reader between these two barriers is, by
`InStep`, inside that span. `CleanInv` and `VerdictInv` carry what exit code 0
means from the worker to the coordinator, and `QuietInv` says what a run without
a fault excludes.

### AioPhase

`AioPhaseProofs`, for every number of requests, every depth and batch:
`RequestsProtected`, `ThreadIsSafe`, `PassIsEarned`, `WindowHolds`,
`NobodySleepsOnEvents`, `EachClosedOnce`. `OpenInv` and `FdsInv` say what is open at
each place of `Run` and of the destructor, with the set of descriptors as an
interval that the closing loop eats from the front. `ThreadInv` says where the
main thread may be while the other one runs. `RequestInv` places every accepted
request: in flight, in the ring, in the thread's batch or done. `CountInv` makes
`completed` the number of requests done, so that the window test (an unsigned
difference) cannot wrap and the last request counted is the last request.
`PassInv` is why a pass is earned: the loop leaves with `completed` = `Count`, all
are done, and a bad one would have set `failed` before it was counted. `WakeInv`
is why no event is forgotten: after a short batch an event in the ring has a tick
there or on its way, and after a full one the thread does not sleep before it
has looked again.

### cache2_hal_aio

`Cache2Proofs`, for any number of blocks, shards and iterations and every option:
`FinalNamesAreWhole`, `FieldsTell` and `VerdictTells`. A `.tmp` file is `Partial` for
most of a DUMP, so `CommittedIsWhole` needs `TemporaryInv`: once the commit loop
runs no `.tmp` file is `Partial`, and at the `rename` of block b with `--sync 1`,
`synced[b]` holds. `FieldsInv` adds to `FieldsAreGrants` where in the program each
resource may be held at all, which is what makes the retry start clean. The
verdict rests on `TruthInv`: a transfer that reports success and does not move a
block (`lied`) leaves a mark, a block that does not hold this iteration's records,
and from there to the verification no step removes the last one. `DumpInv`,
`CommitInv`, `PoisonInv` and `LoadInv` say, for the four stretches of an iteration,
what the blocks that the phase has passed and the rest may hold, and that `lied`
holds exactly if a mark is among them; `OutcomeInv` takes this to
the end of `main()`, `GivenBackInv` says what the destructors have left to give
back, `QuietInv` what a run without trouble excludes. There is one lemma per step
of `main()` and half of the invariant.

### io_tests

`IoTestsProofs`, for every number of requests and every choice of modes:
`TransfersAreAlone`, `PassesAreReal`, `ZeroTells`, `IoTestsLeavesClean`. `HeldInv`
says at which steps a copy or a request may be under way, and what is held there.
`MoveInv` is behind the first two: the code clears or overwrites the target before
every transfer, so if the target has what the check looks for, this transfer moved
it, or an earlier one of the same mode that is reported with it. `CountInv` says
that `failures` is 0 exactly if the cases decided so far are those passed,
`BoundInv` that it cannot wrap to 0, `SmoothInv` where the data is as long as nothing went wrong.

### SharePair and CasePair

`SharePairProofs`, for the four programs and any number of faults: `PassedInTurn`,
`GrantsAreFlagged`, `PassIsTrue`, and `PairIsACase`: every step of the pair is a
step of `CasePair` or shows the runner nothing.

`BufferPassedInTurn` says nothing about the words, and a word is as bare as those of
`multi_share`: a 0 can end a test, hand the buffer over or be the importer's
last word. What it means follows only from where the two scripts are. The proof is
therefore an outline of the scripts, in the sense of a proof outline of a
program. `Plan` repeats every script entry by entry and annotates it with the
number of words exchanged before it (`turn`) and, when the buffer is this process's
to use, the pattern in it (`sown`). Two lemmas per program and role say that the
table is the script (`Transcribes`) and that its annotations follow from each
other (`Outline`): only a send or a receive changes the turn, an access happens in
one's own turn, a word and the pattern it hands over are those of the conversation
(`WordAt`, `PatternAt`), and what of the buffer the importer takes it drops later. The
parity of the turn says whose it is (`MyTurn`, `Alternation`).

The inductive invariant `IInv` then says that the run is where the annotations are:

* `Phases`, `Places`, `Ends`: which parts of the code may be under way together,
  and that whoever still has something to say has its end of the socketpair;
* `Words`: at most one word is under way, it is the one due at its reader's turn, and
  without it the two turns are equal. From this and `Alternation` only one process
  is in its turn (`Alone`), and an access needs that;
* `Buffer`: `content` is what the annotation of the process in its turn says, or what
what the word under way hands over, so that a `verify` fails only after a fault (`Found`);
  a copy into the mapping that moved nothing is found by the `copy_out` behind it;
* `Drops`, `LastWord`: what the importer has of the buffer is still ahead of it as a
  drop, so that with its last word it has given the buffer up; a creator that came
  through has heard that word;
* `Flags`, `Verdicts`: the destructors reach every flag (`Covered`), and a failure that is
  noted stays;
* `Quiet`: without a fault an importer is gone only after its last word, so that end of
  file and broken pipe never surprise anybody (`Deserted`).

There is one lemma per kind of step (`ThrownKeeps`, `PlainKeeps`, `AccessedKeeps`,
`SentKeeps`, `HeardKeeps`, ...), and the actions of the model are shown to be of these
kinds: a comparison that could fail is shown not to, and every other exception has a
fault behind it.

### The runner

`RunTestsProofs`, for any number of cases and of Ctrl-C: `LeavesNobody`,
`CodesTell`, `NeverSideBySide` state the three safety properties of
`run_tests`. `NothingLeftRunning` is not inductive: that `finally` kills the rest
of the group depends on `process` being the case under way whenever the parent has
ended and been waited for. `IInv` ties `process`, the loop index and the
recorded codes to the place in the loop, and says that the groups of later cases
have not started, those behind the runner have no living process that SIGKILL was
not sent to, and a parent that ended with 0 has a child that did.

### DataStrategy and its layout

`DataStrategyProofs`, for any number of ranks and slots, any faults and any stray
lines: `ResetLeavesNothing`, `MappingsAreBacked`, `SlotsReachTheirRanks`; and, without
a fault or a stray line, `HeldTogether` (with a stray line it is false, see
section 5). `Staged` says what the entry of each rank contains at each step of
`Setup`, from the place and the loop index alone: the peers before `cur` are
mapped, those after it untouched. `Owed` says what the driver holds for an entry:
what the entry says, less what the loops of `Reset` have passed. A failing call of
`Reset` breaks `Owed` for good, so that it is stated for `leaked` = FALSE only;
`Backed`, the half that `SlotsReachTheirRanks` needs, survives. A garbled or foreign
DESC line cannot break `Staged`, since `GetRankDesc` compares the rank. For
`HeldTogether` the ranks are looked at together (`TogetherInv`): who has printed
its line, what may be in whose input, and that a rank leaves the hold only when
every rank is ready. By it no import is refused and nobody's input is closed.

`SlotLayoutProofs`, for every width of `size_t`, alignment, set of granularities
and number of ranks, under the assumptions of `MCSlotLayout`:
`StrideIsRoundedUp`, `EveryRankHasMapping`, `SlotsAreInPlace`. The invariant `Inv`
records, for a layout, that its arguments were accepted and that the three results
are those of `SlotLayout`. Four lemmas about the operators do the rest: the least
common multiple exists (a non-empty set of naturals has a least member, from
well-foundedness) and is positive; rounding with room gives the next multiple; for
accepted arguments neither product wraps, and dividing gives back the ranks; a
slot ends inside the data of its rank and later slots of the rank start after it.

### Only model-checked

Every liveness property (`Termination` of `MultiShare`, `AioPhase` and
`DataStrategy`, `EventuallyPass`, `RunnerEnds`, the fairness part of `SharePair`'s
refinement of `CasePair`), which is out of the prover's reach. The two properties that are violated (section 5) have no theorem.

## 5. Disagreements between code and documents

`multi_share.cpp:215` says "Unmap everywhere before any owner releases its
allocation." Without a fault this holds (`OrderlyRelease` in
`multi_share_live`). After a failure the clean-up loop of lines 223-226 releases
the worker's own allocation at once while others have it mapped. In
`multi_share_release` rank 0 has mapped both blocks and sent its word of the
first barrier; its receive of the answer fails or times out, and the clean-up loop
calls `halMemRelease`. The coordinator has both words already and still releases
the barrier, so rank 1 goes on with rank 0's block mapped. `UnmapBeforeRelease`
counts only such releases by the clean-up code, not what the kernel takes back
from an owner that was killed, and looks only at workers past that first barrier,
where all had mapped all. The others learn of the release at the next barrier
at the earliest; the model lets their reads of the block fail from then on, and
`ReadersSeeRoundData` and `PassMeansClean` still hold.

`main.cpp:78` of `ucm_data_strategy` prints "Keep this process alive until all
peers finish Setup; then press Enter to release memory and exit." The `getline` at
line 81 takes any line, also one typed during `Setup`. In `data_strategy_stray` a
DESC line is pasted twice, the second copy ends the hold as soon as it begins, and
the rank releases its memory while the other has still to import it. The other
rank's import is then refused by the HAL.

Read, but without a run:

* `ucm_data_strategy/README.md:14` says that the data of a rank is rounded up to a
  multiple of the alignment. `main.cpp:42-47` refuses sizes whose product does not
  fit in `size_t`, but not those for which the rounding at `data_strategy.cc:186`
  wraps: the stride is then 0 or smaller than the data. In a real `size_t` this
  takes a rank of almost 2^64 bytes. `StrideRoundedUp` and `SlotsInPlace` say so by
  asking for room for the rounding.
* `data_strategy.h:59` says that a failed `Setup` releases what it acquired. Lines
  91-95 of `data_strategy.cc` call `Reset`, and the device stays set until the
  caller's `aclFinalize`.
* `run_tests.py:82` kills the group on Ctrl-C. A second Ctrl-C inside that
  handler, or one inside `Popen`, leaves the group running: the runner returns
  while the case holds the device. `NothingLeftRunning` states the exception
  (`unguarded`); `OneCaseAtATime` says that it is never more than the case under way.
* A clean-up call that fails inside `io_tests` is not in the count it returns; it
  sets `cleanup_failed`, which makes the process fail. The importer may therefore
  send 0 and still end with 1; the creator learns of it from the wait status.

## 6. State of the plan

Done: the barrier, `multi_share`, `AioPhase`, `DataStrategy` and its layout, the
two-process probes and what they run inside, the `cache2_hal_aio` driver and the
runner. Every safety property that a passing run checks has a theorem. What is
left is section 7, and liveness, which stays with TLC.

## 7. Not modelled

* `hal_host_io`: one sequential process with a fixed order of acquisition and
  release, one write and one read. There is no second actor and no retry; its
  clean-up has the shape of `hal_map_probe`'s, its transfer that of `Cache2`'s psync
  engine.
* `host_uva_share`: two programs started by hand and joined by a person who copies
  a number and presses Enter. Every failure after its set-up ends with exit code
  0, and its hold is the one of `DataStrategy`.
* `Status`, the logger, `fmt`, the build files: no behaviour of their own.
* Command-line parsing, text output, timings, NUMA and CPU binding, the contents
  of HAL properties; the argument checks and environment log of `run_tests.py`.
* A failing `waitpid`; a process group number that is used again between the
  reaping of the parent and `killpg`. An importer that SIGKILL was sent to may still
  be dying while the next case starts, which `NothingLeftRunning` allows as the
  code does.
