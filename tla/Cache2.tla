-------------------------------- MODULE Cache2 --------------------------------
(***************************************************************************)
(* main() of cache2_hal_aio.cc around its transfers: HostMemory with its   *)
(* huge-page attempt and normal-page retry, then for every iteration fill, *)
(* DUMP to .tmp files, optional fdatasync, rename, poison, LOAD and verify,*)
(* and the destructor.  The aio engine is one step here, a phase that      *)
(* passes or throws (module AioPhase); psync is modelled call by call.     *)
(* The HAL and the file system are external: any call may fail, and a      *)
(* transfer that reports success may not have moved the right data.        *)
(***************************************************************************)
EXTENDS Integers

CONSTANTS Blocks, Shards, Iterations   \* opt.blocks, opt.shards, opt.iterations

ASSUME BlocksAssumption == Blocks \in Nat \ {0}
ASSUME ShardsAssumption == Shards \in Nat \ {0}
ASSUME IterationsAssumption == Iterations \in Nat \ {0}

Block == 1 .. Blocks
Options == [memory : {"hal", "malloc"}, pages : {"auto", "normal", "huge"},
            engine : {"aio", "psync"}, sync : BOOLEAN, keepFiles : BOOLEAN]

(***************************************************************************)
(* Contents of a file or of a block of the buffer: the iteration whose     *)
(* records it holds, or one of these.                                      *)
(***************************************************************************)
Absent == -3       \* no such file
Partial == -2      \* written in part
Garbage == -1      \* reported complete, but wrong
Poison == 0        \* memset 0xff
Content == -3 .. Iterations
-------------------------------------------------------------------------------
VARIABLES
  opt, pc,
  huge,               \* Allocate's argument
  flag, held,         \* HostMemory's fields that are set; what driver and heap have granted
  iteration, dump,    \* loop variable; the phase under way is DUMP
  block, shard,       \* loop variables of Transfer and of the commit loop
  fd, kfd,            \* fd >= 0; the kernel's file is open
  buffer, temporary, archived,  \* contents per block of the memory, block-N.tmp, block-N
  synced, durable,    \* .tmp is on stable storage; what block-N may be after a power loss
  cleanupFailed, result,
  lied, trouble       \* a transfer moved nothing or the wrong data; that or a failed call

loop == <<iteration, dump, block, shard>>
memory == <<huge, flag, held>>
files == <<fd, kfd>>
contents == <<buffer, temporary, archived, synced, durable>>
verdict == <<cleanupFailed, result>>
vars == <<opt, pc, memory, loop, files, contents, verdict, lied, trouble>>

Memory == {"heap", "va", "handle", "mapped"}
Setup == {"mkdtemp", "malloc", "init", "set", "granularity", "va", "handle", "mapped", "retry"}
Transferring == {"aio", "open", "io", "close", "caught"}
Committing == {"commit", "fdatasync", "fdatasync_failed", "close_synced", "rename"}

TypeOK ==
  /\ opt \in Options
  /\ pc \in Setup \cup Transferring \cup Committing
              \cup {"fill", "poison", "verify", "~memory", "~device", "~acl", "files", "over"}
  /\ huge \in BOOLEAN /\ iteration \in 1 .. Iterations /\ dump \in BOOLEAN
  /\ flag \subseteq Memory \cup {"device", "acl"} /\ held \subseteq Memory \cup {"device", "acl"}
  /\ block \in Block /\ shard \in 1 .. Shards /\ fd \in BOOLEAN /\ kfd \in BOOLEAN
  /\ \A f \in {buffer, temporary, archived} : f \in [Block -> Content]
  /\ synced \in [Block -> BOOLEAN] /\ durable \in [Block -> SUBSET Content]
  /\ cleanupFailed \in BOOLEAN /\ result \in {"none", "pass", "fail"}
  /\ lied \in BOOLEAN /\ trouble \in BOOLEAN

All(x) == [b \in Block |-> x]

Init ==
  /\ opt \in Options /\ pc = "mkdtemp"
  /\ huge = (opt.pages # "normal") /\ flag = {} /\ held = {}
  /\ iteration = 1 /\ dump = TRUE /\ block = 1 /\ shard = 1
  /\ fd = FALSE /\ kfd = FALSE
  /\ buffer = All(Garbage) /\ temporary = All(Absent) /\ archived = All(Absent)
  /\ synced = All(FALSE) /\ durable = All({Absent})
  /\ cleanupFailed = FALSE /\ result = "none" /\ lied = FALSE /\ trouble = FALSE

(***************************************************************************)
(* An exception outside any inner catch: the destructor runs if the        *)
(* HostMemory exists, then main returns 1.                                 *)
(***************************************************************************)
Throw ==
  /\ result' = "fail" /\ pc' = IF pc = "mkdtemp" THEN "over" ELSE "~memory"
  /\ UNCHANGED cleanupFailed

Fails == trouble' = TRUE /\ UNCHANGED lied
Works == UNCHANGED <<trouble, lied, verdict>>
-------------------------------------------------------------------------------
MakeDirectory ==
  /\ pc = "mkdtemp"
  /\ \/ pc' = (IF opt.memory = "malloc" THEN "malloc" ELSE "init") /\ Works
     \/ Throw /\ Fails
  /\ UNCHANGED <<opt, memory, loop, files, contents>>

Granted(x) == flag' = flag \cup {x} /\ held' = held \cup {x} /\ UNCHANGED huge

AllocateHeap ==
  /\ pc = "malloc"
  /\ \/ Granted("heap") /\ pc' = "fill" /\ Works
     \/ Throw /\ Fails /\ UNCHANGED memory
  /\ UNCHANGED <<opt, loop, files, contents>>

InitDevice ==
  /\ pc \in {"init", "set"}
  /\ \/ /\ Granted(IF pc = "init" THEN "acl" ELSE "device")
        /\ pc' = (IF pc = "init" THEN "set" ELSE "granularity") /\ Works
     \/ Throw /\ Fails /\ UNCHANGED memory
  /\ UNCHANGED <<opt, loop, files, contents>>

(***************************************************************************)
(* HostMemory::Allocate; the catch of main retries once, with --pages auto.*)
(* A second failure is outside that catch.                                 *)
(***************************************************************************)
MayRetry == huge /\ opt.pages = "auto"

AllocateFails ==
  /\ IF MayRetry THEN pc' = "retry" /\ UNCHANGED verdict ELSE Throw
  /\ Fails /\ UNCHANGED memory

Allocate ==
  /\ pc \in {"granularity", "va", "handle", "mapped"}
  /\ \/ /\ pc' = (CASE pc = "granularity" -> "va" [] pc = "va" -> "handle"
                    [] pc = "handle" -> "mapped" [] pc = "mapped" -> "fill")
        /\ IF pc = "granularity" THEN UNCHANGED memory ELSE Granted(pc)
        /\ Works
     \/ AllocateFails
  /\ UNCHANGED <<opt, loop, files, contents>>

(***************************************************************************)
(* HostMemory::Release: what is set, in order, up to the first call that   *)
(* fails; n is the number of calls that succeed.                           *)
(***************************************************************************)
ReleaseOrder == <<"mapped", "handle", "va">>
Pending == {i \in 1 .. 3 : ReleaseOrder[i] \in flag}
Released(i) == {ReleaseOrder[j] : j \in {k \in Pending : k < i}}

ReleaseUpTo(i) == flag' = flag \ Released(i) /\ held' = held \ Released(i)

(***************************************************************************)
(* The first call to fail: one the driver refuses, which one for memory it *)
(* does not have is sure to be.                                            *)
(***************************************************************************)
Refused(i) == i \in Pending /\ \A j \in Pending : j < i => ReleaseOrder[j] \in held
Unrefused == \A i \in Pending : ReleaseOrder[i] \in held

RetryKeeps == UNCHANGED <<flag, held>>   \* mutant: no Release() before the retry
RetryReleases == flag' = flag \ Memory /\ held' = held \ Memory

Retry ==
  /\ pc = "retry"
  /\ \/ Unrefused /\ RetryReleases /\ huge' = FALSE /\ pc' = "granularity" /\ Works
     \/ /\ \E i \in Pending : Refused(i) /\ ReleaseUpTo(i)
        /\ Throw /\ Fails /\ UNCHANGED huge
  /\ UNCHANGED <<opt, loop, files, contents>>
-------------------------------------------------------------------------------
Engine == IF opt.engine = "aio" THEN "aio" ELSE "open"

(***************************************************************************)
(* Every record names its iteration, block and offset: where it differs    *)
(* from iteration to iteration is what this model tells apart.             *)
(***************************************************************************)
AnyRecord(i) == 1   \* mutant: the iteration is left out of the record
TextRecord(i) == i

Fill ==
  /\ pc = "fill" /\ buffer' = All(TextRecord(iteration))
  /\ pc' = Engine /\ dump' = TRUE /\ block' = 1 /\ shard' = 1
  /\ UNCHANGED <<opt, memory, iteration, files, temporary, archived, synced, durable>> /\ Works

(***************************************************************************)
(* What a transfer of blocks bs that reports success may make of its       *)
(* target: every block that moved holds what its source holds, one of lies *)
(* is wrong: garbage, the records of an earlier iteration or, for LOAD,    *)
(* what it held before.                                                    *)
(***************************************************************************)
Wrong(to, b) == {Garbage} \cup 1 .. iteration - 1 \cup (IF dump THEN {} ELSE {to[b]})

Moved(to, from, bs, lies) ==
  {f \in [Block -> Content] :
     \A b \in Block : f[b] \in IF b \notin bs THEN {to[b]}
                               ELSE IF b \in lies THEN Wrong(to, b) ELSE {from[b]}}

Transferred(bs, lies) ==
  /\ IF dump THEN temporary' \in Moved(temporary, buffer, bs, lies) /\ UNCHANGED buffer
     ELSE buffer' \in Moved(buffer, archived, bs, lies) /\ UNCHANGED temporary
  /\ lied' = (lied \/ lies # {})

AfterTransfer == IF dump THEN "commit" ELSE "verify"

(***************************************************************************)
(* AioPhase::Run: it passes, or throws with its requests quiesced and any  *)
(* part of the data moved.  Its destructor may fail either way.            *)
(***************************************************************************)
AioTransfer ==
  /\ pc = "aio"
  /\ \/ \E lies \in SUBSET Block :
          /\ Transferred(Block, lies) /\ pc' = AfterTransfer /\ block' = 1
          /\ cleanupFailed' \in {cleanupFailed, TRUE} /\ UNCHANGED result
          /\ trouble' = (trouble \/ lies # {} \/ cleanupFailed')
     \/ /\ IF dump THEN temporary' = All(Partial) /\ UNCHANGED buffer
           ELSE buffer' = All(Garbage) /\ UNCHANGED temporary
        /\ result' = "fail" /\ pc' = "~memory" /\ cleanupFailed' \in {cleanupFailed, TRUE}
        /\ Fails /\ UNCHANGED block
  /\ UNCHANGED <<opt, memory, iteration, dump, shard, files, archived, synced, durable>>

(***************************************************************************)
(* The psync engine opens a block's file for every shard of a DUMP and     *)
(* once for a LOAD.  What fails while the file is open goes through the    *)
(* catch that closes it.                                                   *)
(***************************************************************************)
PsyncOpen ==
  /\ pc = "open"
  /\ \/ /\ fd' = TRUE /\ kfd' = TRUE /\ pc' = "io" /\ Works
        /\ temporary' = IF dump THEN [temporary EXCEPT ![block] = Partial] ELSE temporary
     \/ Throw /\ Fails /\ UNCHANGED <<files, temporary>>
  /\ UNCHANGED <<opt, memory, loop, buffer, archived, synced, durable>>

LastShard == shard = Shards

PsyncIo ==
  /\ pc = "io" /\ UNCHANGED <<opt, memory, iteration, dump, block, files, archived, synced, durable>>
  /\ \/ /\ ~LastShard /\ Works /\ UNCHANGED <<buffer, temporary>>
        /\ IF dump THEN pc' = "close" /\ UNCHANGED shard ELSE pc' = "io" /\ shard' = shard + 1
     \/ /\ LastShard /\ pc' = "close" /\ UNCHANGED <<shard, verdict>>
        /\ \E lies \in SUBSET {block} :
             Transferred({block}, lies) /\ trouble' = (trouble \/ lies # {})
     \/ pc' = "caught" /\ Fails /\ UNCHANGED <<verdict, shard, buffer, temporary>>

(***************************************************************************)
(* fd is -1 before close is called: a close that fails still closes, and   *)
(* the catch must not close again.                                         *)
(***************************************************************************)
CloseFails == fd' = FALSE /\ kfd' = FALSE

PsyncClose ==
  /\ pc = "close" /\ UNCHANGED <<opt, memory, iteration, dump, contents>>
  /\ \/ /\ fd' = FALSE /\ kfd' = FALSE /\ Works
        /\ IF ~LastShard THEN pc' = "open" /\ shard' = shard + 1 /\ UNCHANGED block
           ELSE /\ shard' = 1
                /\ IF block < Blocks THEN pc' = "open" /\ block' = block + 1
                   ELSE pc' = AfterTransfer /\ block' = 1
     \/ CloseFails /\ pc' = "caught" /\ Fails /\ UNCHANGED <<verdict, block, shard>>

(***************************************************************************)
(* catch (...): close what is still open, and rethrow; also the catch      *)
(* around fdatasync, whose close only notes a failure too.                 *)
(***************************************************************************)
Caught ==
  /\ pc \in {"caught", "fdatasync_failed"}
  /\ IF fd THEN /\ fd' = FALSE /\ kfd' = FALSE
                /\ cleanupFailed' \in {cleanupFailed, TRUE}
     ELSE UNCHANGED <<files, cleanupFailed>>
  /\ result' = "fail" /\ pc' = "~memory" /\ UNCHANGED <<lied, trouble>>
  /\ UNCHANGED <<opt, memory, loop, contents>>
-------------------------------------------------------------------------------
(***************************************************************************)
(* The commit of one block: with --sync open, fdatasync and close, then    *)
(* rename and the check of the size.                                       *)
(***************************************************************************)
CommitUnsynced ==   \* mutant: --sync is ignored
  /\ pc = "commit" /\ pc' = "rename" /\ Works /\ UNCHANGED <<opt, memory, loop, contents, files>>

Commit ==
  /\ pc = "commit" /\ UNCHANGED <<opt, memory, loop, contents>>
  /\ \/ ~opt.sync /\ pc' = "rename" /\ Works /\ UNCHANGED files
     \/ opt.sync /\ pc' = "fdatasync" /\ fd' = TRUE /\ kfd' = TRUE /\ Works
     \/ opt.sync /\ Throw /\ Fails /\ UNCHANGED files

Fdatasync ==
  /\ pc = "fdatasync" /\ UNCHANGED <<opt, memory, loop, files, buffer, temporary, archived, durable>>
  /\ \/ synced' = [synced EXCEPT ![block] = TRUE] /\ pc' = "close_synced" /\ Works
     \/ pc' = "fdatasync_failed" /\ Fails /\ UNCHANGED <<verdict, synced>>

CloseSynced ==
  /\ pc = "close_synced" /\ UNCHANGED <<opt, memory, loop, contents>>
  /\ fd' = FALSE /\ kfd' = FALSE
  /\ \/ pc' = "rename" /\ Works
     \/ Throw /\ Fails

(***************************************************************************)
(* rename replaces block-N at once for everyone who opens it; whether old  *)
(* or new survives a power loss is open, and data that was not synced may  *)
(* be lost under its new name.                                             *)
(***************************************************************************)
Renamed ==
  /\ archived' = [archived EXCEPT ![block] = temporary[block]]
  /\ temporary' = [temporary EXCEPT ![block] = Absent]
  /\ durable' = [durable EXCEPT ![block] =
                   @ \cup {temporary[block]} \cup (IF synced[block] THEN {} ELSE {Partial})]
  /\ synced' = [synced EXCEPT ![block] = FALSE]

Rename ==
  /\ pc = "rename" /\ UNCHANGED <<opt, memory, iteration, dump, shard, files, buffer>>
  /\ \/ /\ Renamed /\ Works
        /\ IF block < Blocks THEN pc' = "commit" /\ block' = block + 1
           ELSE pc' = "poison" /\ block' = 1
     \/ /\ Renamed \/ UNCHANGED <<archived, temporary, durable, synced>>
        /\ Throw /\ Fails /\ UNCHANGED block

KeepBuffer ==   \* mutant: no memset
  /\ pc = "poison" /\ pc' = Engine /\ dump' = FALSE
  /\ UNCHANGED <<opt, memory, iteration, block, shard, files, contents>> /\ Works

PoisonBuffer ==
  /\ pc = "poison" /\ buffer' = All(Poison) /\ pc' = Engine /\ dump' = FALSE
  /\ UNCHANGED <<opt, memory, iteration, block, shard, files, temporary, archived, synced, durable>>
  /\ Works

Verify ==
  /\ pc = "verify" /\ UNCHANGED <<opt, memory, dump, block, shard, files, contents, lied, trouble>>
  /\ IF buffer # All(TextRecord(iteration)) THEN Throw /\ UNCHANGED iteration
     ELSE /\ UNCHANGED verdict
          /\ IF iteration < Iterations THEN iteration' = iteration + 1 /\ pc' = "fill"
             ELSE pc' = "~memory" /\ UNCHANGED iteration
-------------------------------------------------------------------------------
(***************************************************************************)
(* ~HostMemory: a failure ends Release and is noted, and the device and    *)
(* the runtime are still given back.                                       *)
(***************************************************************************)
CleanupOk == UNCHANGED <<cleanupFailed, trouble>>
CleanupFails == cleanupFailed' = TRUE /\ trouble' = TRUE

DestroyMemory ==
  /\ pc = "~memory" /\ pc' = "~device" /\ UNCHANGED <<opt, huge, loop, files, contents, result, lied>>
  /\ \/ Unrefused /\ flag' = flag \ Memory /\ held' = held \ Memory /\ CleanupOk
     \/ \E i \in Pending : Refused(i) /\ ReleaseUpTo(i) /\ CleanupFails

DestroyDevice ==
  /\ pc \in {"~device", "~acl"} /\ UNCHANGED <<opt, huge, loop, files, contents, result, lied>>
  /\ LET x == IF pc = "~device" THEN "device" ELSE "acl" IN
       /\ flag' = flag \ {x}
       /\ \/ held' = held \ {x} /\ CleanupOk
          \/ x \in flag /\ UNCHANGED held /\ CleanupFails
  /\ pc' = IF pc = "~device" THEN "~acl" ELSE IF result = "fail" THEN "over" ELSE "files"

(***************************************************************************)
(* RESULT PASS, after the files are removed with --keep-files 0.           *)
(***************************************************************************)
Passes == ~cleanupFailed

RemoveFiles ==
  /\ pc = "files" /\ pc' = "over"
  /\ UNCHANGED <<opt, memory, loop, files, buffer, temporary, synced, cleanupFailed, lied>>
  /\ IF ~Passes THEN result' = "fail" /\ UNCHANGED <<archived, durable, trouble>>
     ELSE \/ opt.keepFiles /\ result' = "pass" /\ UNCHANGED <<archived, durable, trouble>>
          \/ /\ ~opt.keepFiles /\ result' = "pass" /\ archived' = All(Absent)
             /\ durable' = [b \in Block |-> durable[b] \cup {Absent}] /\ UNCHANGED trouble
          \/ /\ ~opt.keepFiles /\ result' = "fail" /\ trouble' = TRUE
             /\ \E bs \in SUBSET Block :
                  archived' = [b \in Block |-> IF b \in bs THEN Absent ELSE archived[b]]
             /\ UNCHANGED durable

Step ==
  \/ MakeDirectory \/ AllocateHeap \/ InitDevice \/ Allocate \/ Retry
  \/ Fill \/ AioTransfer \/ PsyncOpen \/ PsyncIo \/ PsyncClose \/ Caught
  \/ Commit \/ Fdatasync \/ CloseSynced \/ Rename \/ PoisonBuffer \/ Verify
  \/ DestroyMemory \/ DestroyDevice \/ RemoveFiles

Finished == pc = "over" /\ UNCHANGED vars

Next == Step \/ Finished

Spec == Init /\ [][Next]_vars
-------------------------------------------------------------------------------
(***************************************************************************)
(* Whoever opens block-N finds what a DUMP reported complete, never one    *)
(* that was cut short, however the program ends; with --sync 1 that        *)
(* survives a power loss too (lines 571-586).                              *)
(***************************************************************************)
CommittedIsWhole ==
  \A b \in Block : archived[b] # Partial /\ (opt.sync => Partial \notin durable[b])

(***************************************************************************)
(* RESULT PASS: no transfer of any iteration lied, and nothing is left     *)
(* held.  What a DUMP left in the buffer, or an earlier iteration in the   *)
(* file, is never taken for what LOAD brought (lines 595-625), and a       *)
(* clean-up that failed is not passed over (line 628).  A run in which     *)
(* nothing fails passes.                                                   *)
(***************************************************************************)
VerdictIsTrue ==
  /\ result = "pass" =>
       /\ ~lied /\ ~cleanupFailed /\ held = {} /\ iteration = Iterations
       /\ archived = IF opt.keepFiles THEN All(Iterations) ELSE All(Absent)
  /\ ~trouble => result # "fail"

(***************************************************************************)
(* What HostMemory's fields and fd say is held is what driver, heap and    *)
(* kernel have granted: nothing is forgotten or given back twice, also     *)
(* when the giving back fails (lines 387-395, 575-582), and the            *)
(* normal-page attempt starts with nothing left of the huge-page one       *)
(* (lines 546-553).                                                        *)
(***************************************************************************)
FieldsAreGrants ==
  /\ pc \notin {"~device", "~acl", "files", "over"} => flag = held
  /\ fd = kfd /\ (pc \in {"~memory", "over"} => ~kfd)
  /\ pc = "granularity" => held \cap Memory = {}
===============================================================================
