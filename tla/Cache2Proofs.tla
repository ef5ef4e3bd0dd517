----------------------------- MODULE Cache2Proofs -----------------------------
(***************************************************************************)
(* For any number of blocks, shards and iterations: what Cache2's fields   *)
(* say is held is held, and a block under its final name is whole.  The    *)
(* invariant adds where a descriptor can be open, which .tmp files are     *)
(* complete at each step of a DUMP, and that what is about to be renamed   *)
(* with --sync has been synced.                                            *)
(***************************************************************************)
EXTENDS Cache2, TLAPS

Open == {"io", "close", "caught", "fdatasync", "fdatasync_failed", "close_synced"}

FieldsInv ==
  /\ pc \notin {"~device", "~acl", "files", "over"} => flag = held
  /\ fd = kfd /\ (kfd => pc \in Open)
  /\ pc \in {"mkdtemp", "malloc", "init", "set", "granularity"} => held \cap Memory = {}

BlocksInv ==
  \A b \in Block : /\ buffer[b] # Partial /\ archived[b] # Partial
                   /\ opt.sync => Partial \notin durable[b]

TemporaryInv ==
  /\ pc \in Committing => \A b \in Block : temporary[b] # Partial
  /\ pc \in {"open", "io", "close"} /\ dump => \A b \in Block : b < block => temporary[b] # Partial
  /\ pc = "close" /\ dump /\ LastShard => temporary[block] # Partial
  /\ pc \in {"close_synced", "rename"} /\ opt.sync => synced[block]

WholeInv == BlocksInv /\ TemporaryInv

IInv == TypeOK /\ FieldsInv /\ WholeInv
-------------------------------------------------------------------------------
\* The steps that acquire, retry and give back touch no file.
LEMMA FilesUntouched ==
  ASSUME WholeInv, UNCHANGED <<opt, contents, dump, block, shard>>,
         pc' \notin Committing \cup {"open", "io", "close"}
  PROVE  WholeInv'
BY DEF WholeInv, BlocksInv, TemporaryInv, contents, Committing, LastShard

LEMMA SetupKeeps ==
  ASSUME IInv, MakeDirectory \/ AllocateHeap \/ InitDevice
  PROVE  IInv'
<1> USE DEF IInv
<1>1. CASE MakeDirectory
  <2>1. TypeOK'
    BY <1>1 DEF MakeDirectory, TypeOK, Setup, Throw, Fails, Works, memory, loop, files, contents, verdict
  <2>2. FieldsInv'
    BY <1>1 DEF MakeDirectory, FieldsInv, Throw, memory, files, Open
  <2>3. WholeInv'
    BY <1>1, FilesUntouched DEF MakeDirectory, Throw, loop, Committing
  <2> QED BY <2>1, <2>2, <2>3
<1>2. CASE AllocateHeap
  <2>1. TypeOK'
    BY <1>2 DEF AllocateHeap, Granted, TypeOK, Memory, Setup, Throw, Fails, Works, memory, loop, files, contents, verdict
  <2>2. FieldsInv'
    BY <1>2 DEF AllocateHeap, Granted, FieldsInv, Throw, memory, files, Open
  <2>3. WholeInv'
    BY <1>2, FilesUntouched DEF AllocateHeap, Throw, loop, Committing
  <2> QED BY <2>1, <2>2, <2>3
<1>3. CASE InitDevice
  <2>1. TypeOK'
    BY <1>3 DEF InitDevice, Granted, TypeOK, Memory, Setup, Throw, Fails, Works, memory, loop, files, contents, verdict
  <2>2. FieldsInv'
    BY <1>3 DEF InitDevice, Granted, FieldsInv, Memory, Throw, memory, files, Open
  <2>3. WholeInv'
    BY <1>3, FilesUntouched DEF InitDevice, Throw, loop, Committing
  <2> QED BY <2>1, <2>2, <2>3
<1> QED BY <1>1, <1>2, <1>3

LEMMA AllocateKeeps ==
  ASSUME IInv, Allocate
  PROVE  IInv'
<1> USE DEF IInv, Allocate
<1>1. /\ UNCHANGED <<opt, loop, files, contents>>
      /\ pc' \in {"va", "handle", "mapped", "fill", "retry", "~memory"}
  BY DEF AllocateFails, Throw
<1>2. TypeOK'
  <2>1. /\ huge' = huge /\ flag' \subseteq Memory \cup {"device", "acl"}
        /\ held' \subseteq Memory \cup {"device", "acl"}
    BY DEF AllocateFails, Granted, memory, Memory, TypeOK
  <2>2. /\ cleanupFailed' \in BOOLEAN /\ result' \in {"none", "pass", "fail"}
        /\ lied' \in BOOLEAN /\ trouble' \in BOOLEAN
    BY DEF AllocateFails, Throw, Fails, Works, verdict, TypeOK
  <2> QED BY <1>1, <2>1, <2>2 DEF TypeOK, Setup, loop, files, contents
<1>3. FieldsInv'
  BY <1>1 DEF AllocateFails, Granted, FieldsInv, memory, files, Open
<1>4. WholeInv'
  BY <1>1, FilesUntouched DEF loop, Committing
<1> QED BY <1>2, <1>3, <1>4

\* Whatever Release gives back, it gives back in the fields and in the driver.
LEMMA RetryStepKeeps ==
  ASSUME IInv, Retry
  PROVE  IInv'
<1> USE DEF IInv, Retry
<1>1. /\ UNCHANGED <<opt, loop, files, contents>> /\ pc' \in {"granularity", "~memory"}
  BY DEF Throw
<1>2. TypeOK'
  <2>1. /\ huge' \in BOOLEAN /\ flag' \subseteq flag /\ held' \subseteq held
    BY DEF RetryReleases, ReleaseUpTo, TypeOK
  <2>2. /\ cleanupFailed' \in BOOLEAN /\ result' \in {"none", "pass", "fail"}
        /\ lied' \in BOOLEAN /\ trouble' \in BOOLEAN
    BY DEF Throw, Fails, Works, verdict, TypeOK
  <2> QED BY <1>1, <2>1, <2>2 DEF TypeOK, Setup, loop, files, contents
<1>3. FieldsInv'
  BY <1>1 DEF RetryReleases, ReleaseUpTo, Throw, FieldsInv, files, Open
<1>4. WholeInv'
  BY <1>1, FilesUntouched DEF loop, Committing
<1> QED BY <1>2, <1>3, <1>4

LEMMA DestroyKeeps ==
  ASSUME IInv, DestroyMemory \/ DestroyDevice
  PROVE  IInv'
<1> USE DEF IInv, DestroyMemory, DestroyDevice
<1>1. /\ UNCHANGED <<opt, huge, loop, files, contents, result, lied>>
      /\ pc \in {"~memory", "~device", "~acl"} /\ pc' \in {"~device", "~acl", "over", "files"}
  OBVIOUS
<1>2. TypeOK'
  <2>1. flag' \subseteq flag /\ held' \subseteq held
    BY DEF ReleaseUpTo
  <2>2. cleanupFailed' \in BOOLEAN /\ trouble' \in BOOLEAN
    BY DEF CleanupOk, CleanupFails, TypeOK
  <2> QED BY <1>1, <2>1, <2>2 DEF TypeOK, loop, files, contents
<1>3. FieldsInv'
  BY <1>1 DEF FieldsInv, files, Open
<1>4. WholeInv'
  BY <1>1, FilesUntouched DEF loop, Committing
<1> QED BY <1>2, <1>3, <1>4

LEMMA RemoveKeeps ==
  ASSUME IInv, RemoveFiles
  PROVE  IInv'
<1> USE DEF IInv, RemoveFiles
<1>1. /\ UNCHANGED <<opt, memory, loop, files, buffer, temporary, synced, cleanupFailed, lied>>
      /\ pc = "files" /\ pc' = "over"
  OBVIOUS
<1>2. \A b \in Block :
        /\ archived'[b] \in {archived[b], Absent} /\ durable'[b] \subseteq durable[b] \cup {Absent}
  BY DEF TypeOK, All
<1>3. TypeOK'
  <2>1. archived' \in [Block -> Content] /\ durable' \in [Block -> SUBSET Content]
    BY IterationsAssumption DEF TypeOK, All, Content, Absent
  <2>2. result' \in {"pass", "fail"} /\ trouble' \in BOOLEAN
    BY DEF TypeOK
  <2> QED BY <1>1, <2>1, <2>2 DEF TypeOK, memory, loop, files
<1>4. FieldsInv'
  BY <1>1 DEF FieldsInv, memory, files, Open
<1>5. WholeInv'
  BY <1>1, <1>2 DEF WholeInv, BlocksInv, TemporaryInv, Absent, Partial, Committing, loop
<1> QED BY <1>3, <1>4, <1>5
-------------------------------------------------------------------------------
\* A block that is moved gets what its source holds, or what a lie leaves.
LEMMA MovedBlocks ==
  ASSUME NEW to, NEW from, NEW bs, NEW lies, NEW f \in Moved(to, from, bs, lies)
  PROVE  /\ f \in [Block -> Content]
         /\ \A b \in Block :
              /\ b \notin bs => f[b] = to[b]
              /\ b \in bs \ lies => f[b] = from[b]
              /\ b \in bs \cap lies => f[b] \in Wrong(to, b)
BY DEF Moved

\* What a lie leaves is not what a file cut short holds.
LEMMA WrongIsWhole ==
  ASSUME NEW to, NEW b, iteration \in Nat, dump \/ to[b] # Partial
  PROVE  Partial \notin Wrong(to, b)
BY DEF Wrong, Partial, Garbage

LEMMA TransferredWhole ==
  ASSUME IInv, NEW bs, NEW lies, Transferred(bs, lies)
  PROVE  /\ temporary' \in [Block -> Content] /\ buffer' \in [Block -> Content]
         /\ \A b \in Block : /\ buffer'[b] # Partial
                             /\ temporary[b] # Partial => temporary'[b] # Partial
                             /\ dump /\ b \in bs => temporary'[b] # Partial
         /\ lied' \in BOOLEAN
<1>1. /\ temporary \in [Block -> Content] /\ buffer \in [Block -> Content] /\ lied \in BOOLEAN
      /\ \A b \in Block : buffer[b] # Partial /\ archived[b] # Partial
      /\ iteration \in Nat
  BY DEF IInv, TypeOK, WholeInv, BlocksInv
<1>2. lied' \in BOOLEAN
  BY DEF Transferred
<1>3. CASE dump
  <2>1. temporary' \in Moved(temporary, buffer, bs, lies) /\ buffer' = buffer
    BY <1>3 DEF Transferred
  <2>2. \A b \in Block : Partial \notin Wrong(temporary, b)
    BY <1>1, <1>3, WrongIsWhole
  <2> QED BY <1>1, <1>2, <2>1, <2>2, MovedBlocks
<1>4. CASE ~dump
  <2>1. buffer' \in Moved(buffer, archived, bs, lies) /\ temporary' = temporary
    BY <1>4 DEF Transferred
  <2>2. \A b \in Block : Partial \notin Wrong(buffer, b)
    BY <1>1, <1>4, WrongIsWhole
  <2> QED BY <1>1, <1>2, <1>4, <2>1, <2>2, MovedBlocks
<1> QED BY <1>3, <1>4

LEMMA Contents ==
  ASSUME TypeOK
  PROVE  /\ {Absent, Partial, Garbage, Poison, iteration} \subseteq Content
         /\ Partial \notin {Absent, Garbage, Poison, iteration}
BY IterationsAssumption DEF TypeOK, Content, Absent, Partial, Garbage, Poison

LEMMA BufferKeeps ==
  ASSUME IInv, Fill \/ PoisonBuffer \/ Verify
  PROVE  IInv'
<1> USE DEF IInv
<1>1. /\ UNCHANGED <<opt, memory, files, temporary, archived, synced, durable, lied, trouble>>
      /\ pc \in {"fill", "poison", "verify"} /\ pc' \in {"aio", "open", "~memory", "fill"}
  BY DEF Fill, PoisonBuffer, Verify, Throw, Engine, contents, Works
<1>2. /\ buffer' \in [Block -> Content] /\ \A b \in Block : buffer'[b] # Partial
  <2>1. buffer' \in {buffer, All(iteration), All(Poison)}
    BY DEF Fill, TextRecord, PoisonBuffer, Verify, contents
  <2> QED BY <2>1, Contents DEF TypeOK, All, WholeInv, BlocksInv
<1>3. /\ iteration' \in 1 .. Iterations /\ dump' \in BOOLEAN /\ block' \in Block /\ shard' \in 1 .. Shards
      /\ cleanupFailed' = cleanupFailed /\ result' \in {"none", "pass", "fail"}
  <2>1. iteration' \in 1 .. Iterations
    BY IterationsAssumption DEF Fill, PoisonBuffer, Verify, TypeOK
  <2>2. block' \in Block /\ shard' \in 1 .. Shards
    BY BlocksAssumption, ShardsAssumption DEF Fill, PoisonBuffer, Verify, TypeOK, Block
  <2>3. dump' \in BOOLEAN
    BY DEF Fill, PoisonBuffer, Verify, TypeOK
  <2>4. cleanupFailed' = cleanupFailed /\ result' \in {"none", "pass", "fail"}
    BY DEF Fill, PoisonBuffer, Verify, Throw, Works, verdict, TypeOK
  <2> QED BY <2>1, <2>2, <2>3, <2>4
<1>4. TypeOK'
  BY <1>1, <1>2, <1>3 DEF TypeOK, Transferring, memory, files
<1>5. FieldsInv'
  BY <1>1 DEF FieldsInv, memory, files, Open
<1>6. WholeInv'
  <2>1. pc' = "open" /\ dump' => block' = 1
    BY DEF Fill, PoisonBuffer, Verify, Throw
  <2> QED BY <1>1, <1>2, <2>1 DEF WholeInv, BlocksInv, TemporaryInv, Committing, Block
<1> QED BY <1>4, <1>5, <1>6

LEMMA AioKeeps ==
  ASSUME IInv, AioTransfer
  PROVE  IInv'
<1> USE DEF IInv
<1>1. /\ UNCHANGED <<opt, memory, iteration, dump, shard, files, archived, synced, durable>>
      /\ pc = "aio"
  BY DEF AioTransfer
<1>2. ASSUME NEW lies \in SUBSET Block,
             /\ Transferred(Block, lies) /\ pc' = AfterTransfer /\ block' = 1
             /\ cleanupFailed' \in {cleanupFailed, TRUE} /\ UNCHANGED result
             /\ trouble' = (trouble \/ lies # {} \/ cleanupFailed')
      PROVE  IInv'
  <2>1. pc' = AfterTransfer /\ block' = 1 /\ cleanupFailed' \in {cleanupFailed, TRUE}
        /\ UNCHANGED result /\ trouble' = (trouble \/ lies # {} \/ cleanupFailed')
    BY <1>2
  <2>2. /\ temporary' \in [Block -> Content] /\ buffer' \in [Block -> Content]
        /\ \A b \in Block : buffer'[b] # Partial /\ (dump => temporary'[b] # Partial)
        /\ lied' \in BOOLEAN
    BY <1>2, TransferredWhole
  <2>3. /\ block' \in Block /\ pc' = (IF dump THEN "commit" ELSE "verify")
        /\ lied' \in BOOLEAN /\ trouble' \in BOOLEAN /\ cleanupFailed' \in BOOLEAN
    <3>1. block' \in Block
      BY <2>1, BlocksAssumption DEF Block
    <3>2. pc' = IF dump THEN "commit" ELSE "verify"
      BY <2>1 DEF AfterTransfer
    <3>3. lied' \in BOOLEAN
      BY <2>2
    <3>4. trouble' \in BOOLEAN
      BY <2>1
    <3>5. cleanupFailed' \in BOOLEAN
      BY <2>1 DEF TypeOK
    <3> QED BY <3>1, <3>2, <3>3, <3>4, <3>5
  <2>4. TypeOK'
    BY <1>1, <2>1, <2>2, <2>3 DEF TypeOK, Committing, memory, files
  <2>5. FieldsInv'
    BY <1>1, <2>3 DEF FieldsInv, memory, files, Open
  <2>6. WholeInv'
    BY <1>1, <2>2, <2>3 DEF WholeInv, BlocksInv, TemporaryInv, Committing
  <2> QED BY <2>4, <2>5, <2>6
<1>3. CASE /\ IF dump THEN temporary' = All(Partial) /\ UNCHANGED buffer
              ELSE buffer' = All(Garbage) /\ UNCHANGED temporary
           /\ result' = "fail" /\ pc' = "~memory" /\ cleanupFailed' \in {cleanupFailed, TRUE}
           /\ Fails /\ UNCHANGED block
  <2>1. /\ temporary' \in [Block -> Content] /\ buffer' \in [Block -> Content]
        /\ \A b \in Block : buffer'[b] # Partial
    BY <1>3, Contents DEF TypeOK, All, WholeInv, BlocksInv
  <2>2. TypeOK'
    BY <1>1, <1>3, <2>1 DEF TypeOK, Fails, memory, files
  <2>3. FieldsInv'
    BY <1>1, <1>3 DEF FieldsInv, memory, files, Open
  <2>4. WholeInv'
    BY <1>1, <1>3, <2>1 DEF WholeInv, BlocksInv, TemporaryInv, Committing
  <2> QED BY <2>2, <2>3, <2>4
<1> QED BY <1>2, <1>3 DEF AioTransfer

\* Opening a block's .tmp file makes it partial until its last shard is in.
LEMMA OpenKeeps ==
  ASSUME IInv, PsyncOpen
  PROVE  IInv'
<1> USE DEF IInv, PsyncOpen
<1>1. /\ UNCHANGED <<opt, memory, loop, buffer, archived, synced, durable>>
      /\ pc = "open" /\ pc' \in {"io", "~memory"}
  BY DEF Throw
<1>2. /\ temporary' \in [Block -> Content]
      /\ \A b \in Block : b # block => temporary'[b] = temporary[b]
  BY Contents DEF TypeOK
<1>3. /\ fd' \in BOOLEAN /\ fd' = kfd' /\ (pc' = "~memory" => ~kfd')
  <2>1. fd = FALSE /\ kfd = FALSE
    BY <1>1 DEF FieldsInv, Open, TypeOK
  <2>2. (fd' = TRUE /\ kfd' = TRUE /\ pc' = "io") \/ (fd' = FALSE /\ kfd' = FALSE)
    BY <2>1 DEF files
  <2>3. CASE fd' = TRUE /\ kfd' = TRUE /\ pc' = "io"
    BY <2>3
  <2>4. CASE fd' = FALSE /\ kfd' = FALSE
    BY <2>4
  <2> QED BY <2>2, <2>3, <2>4
<1>4. TypeOK'
  <2>1. /\ cleanupFailed' \in BOOLEAN /\ result' \in {"none", "pass", "fail"}
        /\ lied' \in BOOLEAN /\ trouble' \in BOOLEAN
    BY DEF Throw, Fails, Works, verdict, TypeOK
  <2> QED BY <1>1, <1>2, <1>3, <2>1 DEF TypeOK, Transferring, memory, loop
<1>5. FieldsInv'
  BY <1>1, <1>3 DEF FieldsInv, memory, Open
<1>6. WholeInv'
  <2>1. block \in Block /\ block' = block /\ dump' = dump /\ shard' = shard
    BY <1>1 DEF TypeOK, loop
  <2>2. BlocksInv'
    BY <1>1 DEF WholeInv, BlocksInv
  <2>3. dump => \A b \in Block : b < block => temporary'[b] # Partial
    BY <1>1, <1>2, <2>1 DEF WholeInv, TemporaryInv, Block
  <2> QED BY <1>1, <2>1, <2>2, <2>3 DEF WholeInv, TemporaryInv, Committing
<1> QED BY <1>4, <1>5, <1>6

\* Only the last shard of a block is followed by a close of a whole file.
LEMMA IoKeeps ==
  ASSUME IInv, PsyncIo
  PROVE  IInv'
<1> USE DEF IInv
<1>1. /\ UNCHANGED <<opt, memory, iteration, dump, block, files, archived, synced, durable>>
      /\ pc = "io" /\ pc' \in {"io", "close", "caught"}
      /\ shard \in 1 .. Shards /\ block \in Block
  BY DEF PsyncIo, TypeOK
<1>2. /\ shard' \in 1 .. Shards
      /\ pc' = "close" => UNCHANGED shard
  BY ShardsAssumption DEF PsyncIo, LastShard, TypeOK
<1>3. /\ temporary' \in [Block -> Content] /\ buffer' \in [Block -> Content]
      /\ \A b \in Block : /\ buffer'[b] # Partial
                          /\ temporary[b] # Partial => temporary'[b] # Partial
      /\ pc' = "close" /\ dump /\ LastShard => temporary'[block] # Partial
      /\ lied' \in BOOLEAN /\ trouble' \in BOOLEAN
  <2>1. CASE UNCHANGED <<buffer, temporary>> /\ ~(pc' = "close" /\ LastShard)
             /\ ((UNCHANGED <<lied, trouble>>) \/ Fails)
    BY <2>1 DEF TypeOK, WholeInv, BlocksInv, Fails
  <2>2. ASSUME NEW lies \in SUBSET {block}, Transferred({block}, lies),
               trouble' = (trouble \/ lies # {})
        PROVE  /\ temporary' \in [Block -> Content] /\ buffer' \in [Block -> Content]
               /\ \A b \in Block : /\ buffer'[b] # Partial
                                   /\ temporary[b] # Partial => temporary'[b] # Partial
               /\ dump => temporary'[block] # Partial
               /\ lied' \in BOOLEAN /\ trouble' \in BOOLEAN
    <3>1. trouble' \in BOOLEAN
      BY <2>2
    <3> QED BY <1>1, <2>2, <3>1, TransferredWhole
  <2> QED BY <2>1, <2>2 DEF PsyncIo, Works
<1>4. TypeOK'
  <2>1. cleanupFailed' = cleanupFailed /\ result' = result
    BY DEF PsyncIo, Works, verdict
  <2> QED BY <1>1, <1>2, <1>3, <2>1 DEF TypeOK, Transferring, memory, files
<1>5. FieldsInv'
  BY <1>1 DEF FieldsInv, memory, files, Open
<1>6. WholeInv'
  BY <1>1, <1>2, <1>3 DEF WholeInv, BlocksInv, TemporaryInv, Committing, LastShard
<1> QED BY <1>4, <1>5, <1>6

LEMMA CloseKeeps ==
  ASSUME IInv, PsyncClose
  PROVE  IInv'
<1> USE DEF IInv
<1>1. /\ UNCHANGED <<opt, memory, iteration, dump, contents>> /\ fd' = FALSE /\ kfd' = FALSE
      /\ pc = "close" /\ block \in Block /\ shard \in 1 .. Shards
  BY DEF PsyncClose, CloseFails, TypeOK
<1>2. CASE ~LastShard /\ pc' = "open" /\ shard' = shard + 1 /\ UNCHANGED <<block, verdict, lied, trouble>>
  <2>1. shard' \in 1 .. Shards
    BY <1>1, <1>2, ShardsAssumption DEF LastShard
  <2>2. TypeOK'
    BY <1>1, <1>2, <2>1 DEF TypeOK, Transferring, memory, contents, verdict
  <2>3. FieldsInv'
    BY <1>1, <1>2 DEF FieldsInv, memory, Open
  <2>4. WholeInv'
    BY <1>1, <1>2 DEF WholeInv, BlocksInv, TemporaryInv, contents, Committing
  <2> QED BY <2>2, <2>3, <2>4
<1>3. CASE /\ LastShard /\ shard' = 1 /\ UNCHANGED <<verdict, lied, trouble>>
           /\ IF block < Blocks THEN pc' = "open" /\ block' = block + 1
              ELSE pc' = AfterTransfer /\ block' = 1
  <2>1. shard' \in 1 .. Shards /\ block' \in Block
    BY <1>1, <1>3, ShardsAssumption, BlocksAssumption DEF Block
  <2>2. pc' \in {"open", "commit", "verify"} /\ (pc' = "commit" => dump /\ block = Blocks)
    BY <1>1, <1>3, BlocksAssumption DEF AfterTransfer, Block
  <2>3. TypeOK'
    BY <1>1, <1>3, <2>1, <2>2 DEF TypeOK, Transferring, Committing, memory, contents, verdict
  <2>4. FieldsInv'
    BY <1>1, <2>2 DEF FieldsInv, memory, Open
  <2>5. dump => \A b \in Block : b <= block => temporary[b] # Partial
    BY <1>1, <1>3 DEF WholeInv, TemporaryInv, Block
  <2>6. WholeInv'
    <3>1. pc' = "commit" => \A b \in Block : temporary[b] # Partial
      BY <1>1, <2>2, <2>5, BlocksAssumption DEF Block
    <3>2. pc' = "open" => block' = block + 1
      BY <1>3, <2>2 DEF AfterTransfer
    <3>3. pc' = "open" /\ dump => \A b \in Block : b < block' => temporary[b] # Partial
      BY <1>1, <2>5, <3>2 DEF Block
    <3> QED BY <1>1, <2>2, <3>1, <3>3 DEF WholeInv, BlocksInv, TemporaryInv, contents, Committing
  <2> QED BY <2>3, <2>4, <2>6
<1>4. CASE CloseFails /\ pc' = "caught" /\ Fails /\ UNCHANGED <<verdict, block, shard>>
  <2>1. TypeOK'
    BY <1>1, <1>4 DEF TypeOK, Transferring, Fails, memory, contents, verdict
  <2>2. FieldsInv'
    BY <1>1, <1>4 DEF FieldsInv, memory, Open
  <2>3. WholeInv'
    BY <1>1, <1>4 DEF WholeInv, BlocksInv, TemporaryInv, contents, Committing
  <2> QED BY <2>1, <2>2, <2>3
<1> QED BY <1>2, <1>3, <1>4 DEF PsyncClose, Works, verdict

LEMMA CaughtKeeps ==
  ASSUME IInv, Caught
  PROVE  IInv'
<1> USE DEF IInv, Caught
<1>1. /\ UNCHANGED <<opt, memory, loop, contents, lied, trouble>>
      /\ pc \in {"caught", "fdatasync_failed"} /\ pc' = "~memory" /\ result' = "fail"
  OBVIOUS
<1>2. fd' = FALSE /\ kfd' = FALSE /\ cleanupFailed' \in BOOLEAN
  <2>1. CASE fd
    BY <2>1 DEF TypeOK
  <2>2. CASE ~fd
    BY <2>2 DEF TypeOK, FieldsInv, files
  <2> QED BY <2>1, <2>2
<1>3. TypeOK'
  BY <1>1, <1>2 DEF TypeOK, memory, loop, contents
<1>4. FieldsInv'
  BY <1>1, <1>2 DEF FieldsInv, memory
<1>5. WholeInv'
  BY <1>1, FilesUntouched DEF loop, Committing
<1> QED BY <1>3, <1>4, <1>5

LEMMA CommitKeeps ==
  ASSUME IInv, Commit
  PROVE  IInv'
<1> USE DEF IInv, Commit
<1>1. /\ UNCHANGED <<opt, memory, loop, contents>>
      /\ pc = "commit" /\ pc' \in {"rename", "fdatasync", "~memory"}
      /\ pc' = "rename" => ~opt.sync
  BY DEF Throw
<1>2. fd = FALSE /\ kfd = FALSE
  BY <1>1 DEF FieldsInv, Open, TypeOK
<1>3. \/ fd' = FALSE /\ kfd' = FALSE
      \/ fd' = TRUE /\ kfd' = TRUE /\ pc' = "fdatasync"
  BY <1>2 DEF files
<1>4. TypeOK'
  <2>1. /\ cleanupFailed' \in BOOLEAN /\ result' \in {"none", "pass", "fail"}
        /\ lied' \in BOOLEAN /\ trouble' \in BOOLEAN
    BY DEF Throw, Fails, Works, verdict, TypeOK
  <2>2. fd' \in BOOLEAN /\ kfd' \in BOOLEAN
    BY <1>3
  <2> QED BY <1>1, <2>1, <2>2 DEF TypeOK, Committing, memory, loop, contents
<1>5. FieldsInv'
  <2>1. CASE fd' = FALSE /\ kfd' = FALSE
    BY <1>1, <2>1 DEF FieldsInv, memory
  <2>2. CASE fd' = TRUE /\ kfd' = TRUE /\ pc' = "fdatasync"
    BY <1>1, <2>2 DEF FieldsInv, memory, Open
  <2> QED BY <1>3, <2>1, <2>2
<1>6. WholeInv'
  BY <1>1 DEF WholeInv, BlocksInv, TemporaryInv, Committing, contents, loop
<1> QED BY <1>4, <1>5, <1>6

LEMMA FdatasyncKeeps ==
  ASSUME IInv, Fdatasync
  PROVE  IInv'
<1> USE DEF IInv, Fdatasync
<1>1. /\ UNCHANGED <<opt, memory, loop, files, buffer, temporary, archived, durable, verdict>>
      /\ pc = "fdatasync" /\ block \in Block
      /\ \/ synced' = [synced EXCEPT ![block] = TRUE] /\ pc' = "close_synced"
         \/ synced' = synced /\ pc' = "fdatasync_failed"
  BY DEF Works, TypeOK
<1>2. lied' \in BOOLEAN /\ trouble' \in BOOLEAN
  BY DEF Works, Fails, TypeOK
<1>3. /\ synced' \in [Block -> BOOLEAN]
      /\ pc' = "close_synced" => synced'[block]
  BY <1>1 DEF TypeOK
<1>4. TypeOK'
  BY <1>1, <1>2, <1>3 DEF TypeOK, Committing, memory, loop, files, verdict
<1>5. FieldsInv'
  BY <1>1 DEF FieldsInv, memory, files, Open
<1>6. WholeInv'
  BY <1>1, <1>3 DEF WholeInv, BlocksInv, TemporaryInv, Committing, loop
<1> QED BY <1>4, <1>5, <1>6

LEMMA CloseSyncedKeeps ==
  ASSUME IInv, CloseSynced
  PROVE  IInv'
<1> USE DEF IInv, CloseSynced
<1>1. /\ UNCHANGED <<opt, memory, loop, contents>> /\ fd' = FALSE /\ kfd' = FALSE
      /\ pc = "close_synced" /\ pc' \in {"rename", "~memory"}
  BY DEF Throw
<1>2. TypeOK'
  <2>1. /\ cleanupFailed' \in BOOLEAN /\ result' \in {"none", "pass", "fail"}
        /\ lied' \in BOOLEAN /\ trouble' \in BOOLEAN
    BY DEF Throw, Fails, Works, verdict, TypeOK
  <2> QED BY <1>1, <2>1 DEF TypeOK, Committing, memory, loop, contents
<1>3. FieldsInv'
  BY <1>1 DEF FieldsInv, memory
<1>4. WholeInv'
  BY <1>1 DEF WholeInv, BlocksInv, TemporaryInv, Committing, contents, loop
<1> QED BY <1>2, <1>3, <1>4

\* What gets its final name is whole, and synced where that is asked for.
LEMMA RenameKeeps ==
  ASSUME IInv, Rename
  PROVE  IInv'
<1> USE DEF IInv
<1>1. /\ UNCHANGED <<opt, memory, iteration, dump, shard, files, buffer>>
      /\ pc = "rename" /\ block \in Block
      /\ pc' \in {"commit", "poison", "~memory"}
  BY DEF Rename, Throw, TypeOK
<1>2. temporary[block] # Partial /\ temporary[block] \in Content /\ (opt.sync => synced[block])
  BY <1>1 DEF WholeInv, TemporaryInv, Committing, TypeOK
<1>3. ASSUME Renamed
      PROVE  /\ archived' \in [Block -> Content] /\ temporary' \in [Block -> Content]
             /\ durable' \in [Block -> SUBSET Content] /\ synced' \in [Block -> BOOLEAN]
             /\ \A b \in Block :
                 /\ archived'[b] # Partial /\ temporary'[b] # Partial
                 /\ opt.sync => Partial \notin durable'[b]
  <2>1. /\ archived' \in [Block -> Content] /\ temporary' \in [Block -> Content]
        /\ durable' \in [Block -> SUBSET Content] /\ synced' \in [Block -> BOOLEAN]
    BY <1>1, <1>2, <1>3, Contents DEF Renamed, TypeOK
  <2>2. \A b \in Block :
          /\ archived'[b] # Partial /\ temporary'[b] # Partial
          /\ opt.sync => Partial \notin durable'[b]
    BY <1>1, <1>2, <1>3, Contents DEF Renamed, TypeOK, WholeInv, BlocksInv, TemporaryInv, Committing
  <2> QED BY <2>1, <2>2
<1>4. ASSUME UNCHANGED <<archived, temporary, durable, synced>>
      PROVE  /\ archived' \in [Block -> Content] /\ temporary' \in [Block -> Content]
             /\ durable' \in [Block -> SUBSET Content] /\ synced' \in [Block -> BOOLEAN]
             /\ \A b \in Block :
                 /\ archived'[b] # Partial /\ temporary'[b] # Partial
                 /\ opt.sync => Partial \notin durable'[b]
  BY <1>1, <1>4 DEF TypeOK, WholeInv, BlocksInv, TemporaryInv, Committing
<1>5. /\ archived' \in [Block -> Content] /\ temporary' \in [Block -> Content]
      /\ durable' \in [Block -> SUBSET Content] /\ synced' \in [Block -> BOOLEAN]
      /\ \A b \in Block :
          /\ archived'[b] # Partial /\ temporary'[b] # Partial
          /\ opt.sync => Partial \notin durable'[b]
  BY <1>3, <1>4 DEF Rename
<1>6. block' \in Block
  BY <1>1, BlocksAssumption DEF Rename, Block
<1>7. TypeOK'
  <2>1. /\ cleanupFailed' \in BOOLEAN /\ result' \in {"none", "pass", "fail"}
        /\ lied' \in BOOLEAN /\ trouble' \in BOOLEAN
    BY DEF Rename, Throw, Fails, Works, verdict, TypeOK
  <2> QED BY <1>1, <1>5, <1>6, <2>1 DEF TypeOK, Committing, memory, files
<1>8. FieldsInv'
  BY <1>1 DEF FieldsInv, memory, files, Open
<1>9. WholeInv'
  BY <1>1, <1>5 DEF WholeInv, BlocksInv, TemporaryInv, Committing
<1> QED BY <1>7, <1>8, <1>9
-------------------------------------------------------------------------------
LEMMA InvInit == Init => IInv
<1> SUFFICES ASSUME Init PROVE IInv
  OBVIOUS
<1> USE DEF Init
<1>1. /\ 1 \in Block /\ 1 \in 1 .. Shards /\ 1 \in 1 .. Iterations
      /\ {Absent, Garbage} \subseteq Content /\ Partial \notin {Absent, Garbage}
  BY BlocksAssumption, ShardsAssumption, IterationsAssumption
     DEF Block, Content, Absent, Garbage, Partial
<1>2. /\ All(Garbage) \in [Block -> Content] /\ All(Absent) \in [Block -> Content]
      /\ All(FALSE) \in [Block -> BOOLEAN] /\ All({Absent}) \in [Block -> SUBSET Content]
  BY <1>1 DEF All
<1>3. TypeOK
  BY <1>1, <1>2 DEF TypeOK, Setup
<1>4. FieldsInv
  BY DEF FieldsInv
<1>5. WholeInv
  BY <1>1 DEF WholeInv, BlocksInv, TemporaryInv, Committing, All
<1> QED BY <1>3, <1>4, <1>5 DEF IInv

LEMMA InvNext == IInv /\ [Next]_vars => IInv'
<1> SUFFICES ASSUME IInv, [Next]_vars PROVE IInv'
  OBVIOUS
<1>1. CASE Step
  BY <1>1, SetupKeeps, AllocateKeeps, RetryStepKeeps, BufferKeeps, AioKeeps, OpenKeeps, IoKeeps,
     CloseKeeps, CaughtKeeps, CommitKeeps, FdatasyncKeeps, CloseSyncedKeeps, RenameKeeps,
     DestroyKeeps, RemoveKeeps DEF Step
<1>2. CASE UNCHANGED vars
  BY <1>2 DEF IInv, TypeOK, FieldsInv, WholeInv, BlocksInv, TemporaryInv, LastShard,
     vars, memory, loop, files, contents, verdict
<1> QED BY <1>1, <1>2 DEF Next, Finished

\* main() of cache2_hal_aio.cc keeps the invariant, whatever call fails and
\* whatever a transfer reports.
THEOREM Invariance == Spec => []IInv
BY InvInit, InvNext, PTL DEF Spec

\* cache2_hal_aio.cc 571-586: a file under its final name is one that a DUMP
\* completed, and with --sync 1 one that a power loss leaves so.
THEOREM FinalNamesAreWhole == Spec => []CommittedIsWhole
<1>1. IInv => CommittedIsWhole
  BY DEF IInv, WholeInv, BlocksInv, CommittedIsWhole
<1> QED BY <1>1, Invariance, PTL

\* cache2_hal_aio.cc 387-395, 546-553, 575-582: nothing is given back twice or
\* forgotten, and the retry starts clean.
THEOREM FieldsTell == Spec => []FieldsAreGrants
<1>1. IInv => FieldsAreGrants
  BY DEF IInv, FieldsInv, FieldsAreGrants, Open
<1> QED BY <1>1, Invariance, PTL
-------------------------------------------------------------------------------
(***************************************************************************)
(* Why a PASS can be believed.  A block that a lying transfer got wrong    *)
(* does not hold this iteration's records, and no step between the         *)
(* transfer and the verification of the same iteration puts them there:    *)
(* lied holds exactly if such a block is left among those done.            *)
(***************************************************************************)
Engaged == {"aio", "open", "io", "close"}

\* The blocks whose transfer in the phase under way has reported success.
Done(b) ==
  \/ pc \in {"open", "io", "close"} /\ b < block
  \/ pc = "close" /\ LastShard /\ b = block
  \/ pc = "verify"

DumpInv ==
  pc \in Engaged /\ dump =>
    /\ \A b \in Block : buffer[b] = iteration
    /\ lied <=> \E b \in Block : Done(b) /\ temporary[b] # iteration

\* What the commit loop has renamed, or will.
Stored(b) == IF b < block THEN archived[b] ELSE temporary[b]

CommitInv ==
  pc \in Committing \ {"fdatasync_failed"} =>
    (lied <=> \E b \in Block : Stored(b) # iteration)

PoisonInv ==
  pc = "poison" => block = 1 /\ (lied <=> \E b \in Block : archived[b] # iteration)

Loading == (pc \in Engaged /\ ~dump) \/ pc = "verify"

LoadInv ==
  Loading =>
    /\ \A b \in Block : ~Done(b) \/ archived[b] # iteration => buffer[b] # iteration
    /\ lied <=> \E b \in Block : archived[b] # iteration \/ (Done(b) /\ buffer[b] # iteration)

Leaving == {"~memory", "~device", "~acl", "files"}

OutcomeInv ==
  /\ pc \in Setup \cup {"fill"} => ~lied
  /\ result = "pass" => pc = "over"
  /\ pc = "files" => result = "none"
  /\ pc \in Leaving /\ result # "fail" =>
       ~lied /\ iteration = Iterations /\ \A b \in Block : archived[b] = Iterations
  /\ pc = "over" => VerdictIsTrue

QuietInv ==
  ~trouble => /\ ~lied /\ ~cleanupFailed /\ result # "fail"
              /\ pc \notin {"caught", "retry", "fdatasync_failed"}

GivenBackInv ==
  ~cleanupFailed =>
    /\ pc = "~device" => held \cap Memory = {}
    /\ pc = "~acl" => held \subseteq {"acl"}
    /\ pc = "files" => held = {}

DataInv == DumpInv /\ CommitInv /\ PoisonInv /\ LoadInv
TruthInv == DataInv /\ OutcomeInv /\ QuietInv /\ GivenBackInv
FullInv == IInv /\ TruthInv
-------------------------------------------------------------------------------
LEMMA NoDataElsewhere ==
  ASSUME pc' \notin Engaged \cup (Committing \ {"fdatasync_failed"}) \cup {"poison", "verify"}
  PROVE  DataInv'
BY DEF DataInv, DumpInv, CommitInv, PoisonInv, LoadInv, Loading, Engaged, Committing

\* What an exception, or the catch around an open file, makes of the verdict.
LEMMA ThrowTells ==
  ASSUME IInv, TruthInv, result' = "fail", pc' \in {"~memory", "over"},
         UNCHANGED lied, trouble'
  PROVE  TruthInv'
<1>1. DataInv'
  BY NoDataElsewhere DEF Engaged, Committing
<1>2. OutcomeInv'
  BY DEF OutcomeInv, Setup, VerdictIsTrue
<1>3. QuietInv' /\ GivenBackInv'
  BY DEF QuietInv, GivenBackInv
<1> QED BY <1>1, <1>2, <1>3 DEF TruthInv

LEMMA SetupTells ==
  ASSUME IInv, TruthInv, MakeDirectory \/ AllocateHeap \/ InitDevice \/ Allocate \/ Retry
  PROVE  TruthInv'
<1>1. pc \in Setup /\ UNCHANGED lied
  BY DEF MakeDirectory, AllocateHeap, InitDevice, Allocate, Retry, AllocateFails, Throw, Works, Fails, Setup
<1>2. CASE result' = "fail" /\ pc' \in {"~memory", "over"} /\ trouble'
  BY <1>1, <1>2, ThrowTells
<1>3. CASE pc' \in Setup \cup {"fill"} /\ UNCHANGED verdict
           /\ (UNCHANGED trouble \/ trouble') /\ (pc' = "retry" => trouble')
  <2>1. DataInv'
    BY <1>3, NoDataElsewhere DEF Engaged, Committing, Setup
  <2>2. result # "pass"
    BY <1>1 DEF TruthInv, OutcomeInv, Setup
  <2>3. OutcomeInv'
    BY <1>1, <1>3, <2>2 DEF TruthInv, OutcomeInv, Setup, Leaving, verdict
  <2>4. QuietInv'
    BY <1>1, <1>3 DEF TruthInv, QuietInv, Setup, verdict
  <2>5. GivenBackInv'
    BY <1>3 DEF GivenBackInv, Setup
  <2> QED BY <2>1, <2>3, <2>4, <2>5 DEF TruthInv
<1>4. (result' = "fail" /\ pc' \in {"~memory", "over"} /\ trouble')
      \/ (pc' \in Setup \cup {"fill"} /\ UNCHANGED verdict
           /\ (UNCHANGED trouble \/ trouble') /\ (pc' = "retry" => trouble'))
  <2>1. CASE MakeDirectory
    BY <2>1 DEF MakeDirectory, Throw, Works, Fails, Setup
  <2>2. CASE AllocateHeap
    BY <2>2 DEF AllocateHeap, Throw, Works, Fails, Setup
  <2>3. CASE InitDevice
    BY <2>3 DEF InitDevice, Throw, Works, Fails, Setup
  <2>4. CASE Allocate
    BY <2>4 DEF Allocate, AllocateFails, Throw, Works, Fails, Setup, verdict
  <2>5. CASE Retry
    BY <2>5 DEF Retry, Throw, Works, Fails, Setup, verdict
  <2> QED BY <2>1, <2>2, <2>3, <2>4, <2>5
<1> QED BY <1>2, <1>3, <1>4

LEMMA CaughtTells ==
  ASSUME IInv, TruthInv, Caught
  PROVE  TruthInv'
<1>1. trouble /\ UNCHANGED trouble
  BY DEF Caught, TruthInv, QuietInv
<1> QED BY <1>1, ThrowTells DEF Caught

-------------------------------------------------------------------------------
LEMMA DestroyTells ==
  ASSUME IInv, TruthInv, DestroyMemory \/ DestroyDevice
  PROVE  TruthInv'
<1>1. /\ UNCHANGED <<loop, contents, result, lied>> /\ pc \in {"~memory", "~device", "~acl"}
      /\ pc' \in {"~device", "~acl", "over", "files"} /\ (pc' = "over" => result = "fail")
      /\ ((UNCHANGED <<cleanupFailed, trouble>>) \/ (cleanupFailed' /\ trouble'))
  BY DEF DestroyMemory, DestroyDevice, CleanupOk, CleanupFails
<1>2. result # "pass"
  BY <1>1 DEF TruthInv, OutcomeInv
<1>3. DataInv'
  BY <1>1, NoDataElsewhere DEF Engaged, Committing
<1>4. QuietInv'
  BY <1>1 DEF TruthInv, QuietInv
<1>5. OutcomeInv'
  <2>1. pc' = "files" => result' = "none"
    BY <1>1, <1>2 DEF DestroyMemory, DestroyDevice, IInv, TypeOK
  <2>2. result' # "fail" =>
          ~lied' /\ iteration' = Iterations /\ \A b \in Block : archived'[b] = Iterations
    BY <1>1 DEF TruthInv, OutcomeInv, Leaving, loop, contents
  <2>3. pc' = "over" => VerdictIsTrue'
    BY <1>1, <1>4 DEF QuietInv, VerdictIsTrue
  <2> QED BY <1>1, <1>2, <2>1, <2>2, <2>3 DEF OutcomeInv, Setup
<1>6. GivenBackInv'
  <2>0. ~cleanupFailed' => ~cleanupFailed
    BY <1>1
  <2>1. CASE DestroyMemory
    <3>1. ~cleanupFailed' => held' = held \ Memory
      BY <2>1 DEF DestroyMemory, CleanupFails
    <3> QED BY <2>1, <3>1 DEF DestroyMemory, GivenBackInv
  <2>2. CASE pc = "~device" /\ DestroyDevice
    <3>1. held \subseteq Memory \cup {"device", "acl"}
      BY DEF IInv, TypeOK
    <3>2. ~cleanupFailed' => held' = held \ {"device"}
      BY <2>2 DEF DestroyDevice, CleanupFails
    <3>3. pc' = "~acl"
      BY <2>2 DEF DestroyDevice
    <3>4. ~cleanupFailed' => held' \subseteq {"acl"}
      BY <2>0, <2>2, <3>1, <3>2 DEF TruthInv, GivenBackInv
    <3> QED BY <3>3, <3>4 DEF GivenBackInv
  <2>3. CASE pc = "~acl" /\ DestroyDevice
    <3>1. ~cleanupFailed' => held' = held \ {"acl"}
      BY <2>3 DEF DestroyDevice, CleanupFails
    <3>2. pc' \in {"over", "files"}
      BY <2>3 DEF DestroyDevice
    <3> QED BY <2>0, <2>3, <3>1, <3>2 DEF TruthInv, GivenBackInv
  <2> QED BY <2>1, <2>2, <2>3 DEF DestroyDevice
<1> QED BY <1>3, <1>4, <1>5, <1>6 DEF TruthInv

LEMMA RemoveTells ==
  ASSUME IInv, TruthInv, RemoveFiles
  PROVE  TruthInv'
<1>1. /\ UNCHANGED <<opt, memory, loop, cleanupFailed, lied>> /\ pc = "files" /\ pc' = "over"
      /\ (UNCHANGED trouble \/ trouble')
  BY DEF RemoveFiles
<1>2. DataInv'
  BY <1>1, NoDataElsewhere DEF Engaged, Committing
<1>3. result = "none" /\ ~lied /\ iteration = Iterations /\ \A b \in Block : archived[b] = Iterations
  BY <1>1 DEF TruthInv, OutcomeInv, Leaving
<1>4. archived = All(Iterations)
  BY <1>3 DEF IInv, TypeOK, All
<1>5. ~cleanupFailed => held = {}
  BY <1>1 DEF TruthInv, GivenBackInv
<1>6. cleanupFailed => trouble
  BY DEF TruthInv, QuietInv
<1>7. /\ result' = "pass" => /\ ~cleanupFailed
                            /\ archived' = IF opt.keepFiles THEN archived ELSE All(Absent)
      /\ result' = "fail" => trouble'
  BY <1>6 DEF RemoveFiles, Passes
<1>8. VerdictIsTrue'
  <2>1. ~trouble' => result' # "fail"
    BY <1>7
  <2>2. result' = "pass" =>
          /\ ~lied' /\ ~cleanupFailed' /\ held' = {} /\ iteration' = Iterations
          /\ archived' = IF opt'.keepFiles THEN All(Iterations) ELSE All(Absent)
    BY <1>1, <1>3, <1>4, <1>5, <1>7 DEF memory, loop
  <2> QED BY <2>1, <2>2 DEF VerdictIsTrue, All
<1>9. OutcomeInv'
  BY <1>1, <1>8 DEF OutcomeInv, Leaving, Setup
<1>10. QuietInv' /\ GivenBackInv'
  BY <1>1, <1>7 DEF TruthInv, QuietInv, GivenBackInv
<1> QED BY <1>2, <1>9, <1>10 DEF TruthInv
-------------------------------------------------------------------------------
\* A step of the main loop that neither fails nor lies, and what it leaves to show.
LEMMA WorkTells ==
  ASSUME IInv, TruthInv, UNCHANGED <<iteration, verdict>>,
         pc \notin Leaving \cup {"over"}, pc' \notin Setup \cup Leaving \cup {"fill", "over"},
         ~trouble' => ~trouble /\ ~lied' /\ pc' \notin {"caught", "fdatasync_failed"},
         DataInv'
  PROVE  TruthInv'
<1>1. result # "pass"
  BY DEF TruthInv, OutcomeInv
<1>2. OutcomeInv'
  BY <1>1 DEF OutcomeInv, Leaving, verdict
<1>3. QuietInv'
  BY DEF TruthInv, QuietInv, Setup, verdict
<1>4. GivenBackInv'
  BY DEF GivenBackInv, Leaving
<1> QED BY <1>2, <1>3, <1>4 DEF TruthInv

\* Neither the poison nor garbage are records.
LEMMA Marks ==
  ASSUME TypeOK
  PROVE  iteration # Garbage /\ iteration # Poison
BY IterationsAssumption DEF TypeOK, Garbage, Poison

LEMMA FillTells ==
  ASSUME IInv, TruthInv, Fill
  PROVE  TruthInv'
<1>1. /\ UNCHANGED <<iteration, verdict, lied, trouble, temporary, archived>>
      /\ pc = "fill" /\ pc' \in {"aio", "open"} /\ dump' = TRUE /\ block' = 1
      /\ \A b \in Block : buffer'[b] = iteration
  BY DEF Fill, TextRecord, Engine, Works, All
<1>2. ~lied
  BY <1>1 DEF TruthInv, OutcomeInv
<1>3. \A b \in Block : ~Done(b)'
  BY <1>1 DEF Done, Block
<1>4. DumpInv'
  BY <1>1, <1>2, <1>3 DEF DumpInv
<1>5. DataInv'
  BY <1>1, <1>4 DEF DataInv, CommitInv, PoisonInv, LoadInv, Loading, Committing
<1> QED BY <1>1, <1>2, <1>5, WorkTells DEF TruthInv, QuietInv, Leaving, Setup

LEMMA PoisonTells ==
  ASSUME IInv, TruthInv, PoisonBuffer
  PROVE  TruthInv'
<1>1. /\ UNCHANGED <<iteration, verdict, lied, trouble, temporary, archived, block>>
      /\ pc = "poison" /\ pc' \in {"aio", "open"} /\ dump' = FALSE
      /\ \A b \in Block : buffer'[b] = Poison
  BY DEF PoisonBuffer, Engine, Works, All
<1>2. block = 1 /\ (lied <=> \E b \in Block : archived[b] # iteration)
  BY <1>1 DEF TruthInv, DataInv, PoisonInv
<1>3. \A b \in Block : ~Done(b)'
  BY <1>1, <1>2 DEF Done, Block
<1>4. Poison # iteration
  BY Marks DEF IInv
<1>5. LoadInv'
  BY <1>1, <1>2, <1>3, <1>4 DEF LoadInv
<1>6. DataInv'
  BY <1>1, <1>5 DEF DataInv, DumpInv, CommitInv, PoisonInv, Loading, Committing
<1> QED BY <1>1, <1>6, WorkTells DEF TruthInv, QuietInv, Leaving, Setup

LEMMA VerifyTells ==
  ASSUME IInv, TruthInv, Verify
  PROVE  TruthInv'
<1>1. /\ UNCHANGED <<archived, lied, trouble>> /\ pc = "verify"
      /\ iteration \in 1 .. Iterations /\ result # "pass" /\ buffer \in [Block -> Content]
  BY DEF Verify, contents, IInv, TypeOK, TruthInv, OutcomeInv
<1>2. /\ \A b \in Block : archived[b] # iteration => buffer[b] # iteration
      /\ lied <=> \E b \in Block : archived[b] # iteration \/ buffer[b] # iteration
  BY <1>1 DEF TruthInv, DataInv, LoadInv, Loading, Done
<1>3. ~lied => \A b \in Block : archived[b] = iteration
  BY <1>2
<1>4. lied <=> buffer # All(iteration)
  BY <1>1, <1>2 DEF All
<1>5. CASE lied
  <2>1. result' = "fail" /\ pc' = "~memory"
    BY <1>1, <1>4, <1>5 DEF Verify, TextRecord, Throw
  <2>2. trouble'
    BY <1>1, <1>5 DEF TruthInv, QuietInv
  <2> QED BY <1>1, <2>1, <2>2, ThrowTells
<1>6. CASE ~lied
  <2>1. /\ UNCHANGED verdict
        /\ \/ pc' = "fill"
           \/ pc' = "~memory" /\ iteration' = iteration /\ iteration = Iterations
    BY <1>1, <1>4, <1>6, IterationsAssumption DEF Verify, TextRecord
  <2>2. DataInv'
    BY <2>1, NoDataElsewhere DEF Engaged, Committing
  <2>3. \A b \in Block : archived[b] = iteration
    BY <1>3, <1>6
  <2>4. OutcomeInv'
    BY <1>1, <1>6, <2>1, <2>3 DEF OutcomeInv, Setup, Leaving, verdict
  <2>5. QuietInv' /\ GivenBackInv'
    BY <1>1, <2>1 DEF TruthInv, QuietInv, GivenBackInv, verdict
  <2> QED BY <2>2, <2>4, <2>5 DEF TruthInv
<1> QED BY <1>5, <1>6
-------------------------------------------------------------------------------
\* What a transfer that reports success does to a block, and the mark of a lie.
LEMMA MovedTells ==
  ASSUME TypeOK, NEW to, NEW from, NEW bs, NEW lies, NEW f \in Moved(to, from, bs, lies),
         NEW b \in Block, dump \/ to[b] # iteration
  PROVE  /\ b \notin bs => f[b] = to[b]
         /\ b \in bs \ lies => f[b] = from[b]
         /\ b \in bs \cap lies => f[b] # iteration
<1>1. iteration \in Nat /\ iteration # Garbage
  BY IterationsAssumption, Marks DEF TypeOK
<1>2. iteration \notin Wrong(to, b)
  BY <1>1 DEF Wrong
<1> QED BY <1>2, MovedBlocks

LEMMA DumpComplete ==
  ASSUME pc' = "commit", block' = 1,
         lied' <=> \E b \in Block : temporary'[b] # iteration'
  PROVE  DataInv'
<1>1. \A b \in Block : ~(b < block')
  BY DEF Block
<1>2. CommitInv'
  BY <1>1 DEF CommitInv, Stored
<1> QED BY <1>2 DEF DataInv, DumpInv, PoisonInv, LoadInv, Loading, Engaged

LEMMA LoadComplete ==
  ASSUME pc' = "verify",
         \A b \in Block : archived'[b] # iteration' => buffer'[b] # iteration',
         lied' <=> \E b \in Block : archived'[b] # iteration' \/ buffer'[b] # iteration'
  PROVE  DataInv'
<1>1. \A b \in Block : Done(b)'
  BY DEF Done
<1>2. LoadInv'
  BY <1>1 DEF LoadInv
<1> QED BY <1>2 DEF DataInv, DumpInv, CommitInv, PoisonInv, Committing, Engaged

LEMMA AioTells ==
  ASSUME IInv, TruthInv, AioTransfer
  PROVE  TruthInv'
<1>1. /\ UNCHANGED <<iteration, dump, archived>> /\ pc = "aio" /\ TypeOK
      /\ \A b \in Block : ~Done(b)
  BY DEF AioTransfer, Done, IInv
<1>2. ASSUME NEW lies \in SUBSET Block,
             /\ Transferred(Block, lies) /\ pc' = AfterTransfer /\ block' = 1
             /\ cleanupFailed' \in {cleanupFailed, TRUE} /\ UNCHANGED result
             /\ trouble' = (trouble \/ lies # {} \/ cleanupFailed')
      PROVE  TruthInv'
  <2>0. lied' = (lied \/ lies # {})
    BY <1>2 DEF Transferred
  <2>1. DataInv'
    <3>1. CASE dump
      <4>1. ~lied /\ \A b \in Block : buffer[b] = iteration
        BY <1>1, <3>1 DEF TruthInv, DataInv, DumpInv, Engaged
      <4>2. temporary' \in Moved(temporary, buffer, Block, lies)
        BY <1>2, <3>1 DEF Transferred
      <4>3. \A b \in Block : temporary'[b] # iteration <=> b \in lies
        BY <1>1, <3>1, <4>1, <4>2, MovedTells
      <4>4. lied' <=> \E b \in Block : temporary'[b] # iteration'
        BY <1>1, <2>0, <4>1, <4>3
      <4> QED BY <1>2, <3>1, <4>4, DumpComplete DEF AfterTransfer
    <3>2. CASE ~dump
      <4>1. /\ \A b \in Block : buffer[b] # iteration
            /\ lied <=> \E b \in Block : archived[b] # iteration
        BY <1>1, <3>2 DEF TruthInv, DataInv, LoadInv, Loading, Engaged
      <4>2. buffer' \in Moved(buffer, archived, Block, lies)
        BY <1>2, <3>2 DEF Transferred
      <4>3. \A b \in Block : buffer'[b] # iteration <=> b \in lies \/ archived[b] # iteration
        BY <1>1, <4>1, <4>2, MovedTells
      <4>4. lied' <=> \E b \in Block : archived'[b] # iteration' \/ buffer'[b] # iteration'
        BY <1>1, <2>0, <4>1, <4>3
      <4>5. \A b \in Block : archived'[b] # iteration' => buffer'[b] # iteration'
        BY <1>1, <4>3
      <4> QED BY <1>2, <3>2, <4>4, <4>5, LoadComplete DEF AfterTransfer
    <3> QED BY <3>1, <3>2
  <2>2. pc' \in {"commit", "verify"} /\ result # "pass"
    BY <1>1, <1>2 DEF AfterTransfer, TruthInv, OutcomeInv
  <2>3. OutcomeInv'
    BY <1>2, <2>2 DEF OutcomeInv, Setup, Leaving
  <2>4. QuietInv'
    BY <1>2, <2>0, <2>2 DEF TruthInv, QuietInv
  <2>5. GivenBackInv'
    BY <2>2 DEF GivenBackInv
  <2> QED BY <2>1, <2>3, <2>4, <2>5 DEF TruthInv
<1>3. CASE result' = "fail" /\ pc' = "~memory" /\ Fails
  BY <1>3, ThrowTells DEF Fails
<1> QED BY <1>2, <1>3 DEF AioTransfer

LEMMA OpenTells ==
  ASSUME IInv, TruthInv, PsyncOpen
  PROVE  TruthInv'
<1>1. CASE Throw /\ Fails
  BY <1>1, ThrowTells DEF PsyncOpen, Throw, Fails
<1>2. CASE pc' = "io" /\ Works
           /\ temporary' = IF dump THEN [temporary EXCEPT ![block] = Partial] ELSE temporary
  <2>1. /\ UNCHANGED <<iteration, dump, block, shard, buffer, archived, verdict, lied, trouble>>
        /\ pc = "open" /\ block \in Block
    BY <1>2 DEF PsyncOpen, Works, loop, IInv, TypeOK
  <2>2. \A b \in Block : /\ Done(b) <=> b < block
                         /\ Done(b)' <=> b < block
                         /\ b < block => temporary'[b] = temporary[b]
    BY <1>2, <2>1 DEF Done, Block
  <2>3. DumpInv'
    BY <1>2, <2>1, <2>2 DEF TruthInv, DataInv, DumpInv, Engaged
  <2>4. LoadInv'
    BY <1>2, <2>1, <2>2 DEF TruthInv, DataInv, LoadInv, Loading, Engaged
  <2>5. DataInv'
    BY <1>2, <2>3, <2>4 DEF DataInv, CommitInv, PoisonInv, Committing
  <2> QED BY <1>2, <2>1, <2>5, WorkTells DEF TruthInv, QuietInv, Leaving, Setup
<1> QED BY <1>1, <1>2 DEF PsyncOpen
LEMMA IoTells ==
  ASSUME IInv, TruthInv, PsyncIo
  PROVE  TruthInv'
<1>1. /\ UNCHANGED <<iteration, dump, block, archived, verdict>>
      /\ pc = "io" /\ block \in Block /\ TypeOK
      /\ \A b \in Block : Done(b) <=> b < block
      /\ ~trouble => ~lied
  <2>1. UNCHANGED verdict
    BY DEF PsyncIo, Works
  <2>2. pc = "io" /\ UNCHANGED <<iteration, dump, block, archived>>
    BY DEF PsyncIo
  <2> QED BY <2>1, <2>2 DEF IInv, TypeOK, Done, TruthInv, QuietInv
<1>2. CASE /\ ~LastShard /\ Works /\ UNCHANGED <<buffer, temporary>>
           /\ IF dump THEN pc' = "close" /\ UNCHANGED shard ELSE pc' = "io"
  <2>1. \A b \in Block : Done(b)' <=> b < block
    BY <1>1, <1>2 DEF Done, LastShard
  <2>2. pc' \in {"io", "close"} /\ UNCHANGED <<lied, trouble>>
    BY <1>2 DEF Works
  <2>3. DumpInv'
    BY <1>1, <1>2, <2>1, <2>2 DEF TruthInv, DataInv, DumpInv, Engaged
  <2>4. LoadInv'
    BY <1>1, <1>2, <2>1, <2>2 DEF TruthInv, DataInv, LoadInv, Loading, Engaged
  <2>5. DataInv'
    BY <2>2, <2>3, <2>4 DEF DataInv, CommitInv, PoisonInv, Committing
  <2> QED BY <1>1, <2>2, <2>5, WorkTells DEF Leaving, Setup
<1>3. ASSUME LastShard, pc' = "close", UNCHANGED shard, NEW lies \in SUBSET {block},
             Transferred({block}, lies), trouble' = (trouble \/ lies # {})
      PROVE  TruthInv'
  <2>0. lied' = (lied \/ lies # {})
    BY <1>3 DEF Transferred
  <2>1. \A b \in Block : Done(b)' <=> (b < block \/ b = block)
    BY <1>1, <1>3 DEF Done, LastShard
  <2>2. ~(block < block)
    BY <1>1 DEF Block
  <2>3. DumpInv'
    <3>1. SUFFICES ASSUME dump PROVE DumpInv'
      BY <1>1 DEF DumpInv
    <3>2. /\ \A b \in Block : buffer[b] = iteration
          /\ lied <=> \E b \in Block : b < block /\ temporary[b] # iteration
      BY <1>1, <3>1 DEF TruthInv, DataInv, DumpInv, Engaged
    <3>3. temporary' \in Moved(temporary, buffer, {block}, lies) /\ buffer' = buffer
      BY <1>3, <3>1 DEF Transferred
    <3>4. \A b \in Block : IF b # block THEN temporary'[b] = temporary[b]
                           ELSE temporary'[b] # iteration <=> b \in lies
      BY <1>1, <3>1, <3>2, <3>3, MovedTells
    <3>5. lied' <=> \E b \in Block : Done(b)' /\ temporary'[b] # iteration
      BY <1>1, <1>3, <2>0, <2>1, <2>2, <3>2, <3>4
    <3> QED BY <1>1, <3>2, <3>3, <3>5 DEF DumpInv
  <2>4. LoadInv'
    <3>1. SUFFICES ASSUME ~dump PROVE LoadInv'
      BY <1>1, <1>3 DEF LoadInv, Loading
    <3>2. /\ \A b \in Block : ~(b < block) \/ archived[b] # iteration => buffer[b] # iteration
          /\ lied <=> \E b \in Block : archived[b] # iteration \/ (b < block /\ buffer[b] # iteration)
      BY <1>1, <3>1 DEF TruthInv, DataInv, LoadInv, Loading, Engaged
    <3>3. buffer' \in Moved(buffer, archived, {block}, lies)
      BY <1>3, <3>1 DEF Transferred
    <3>4. /\ \A b \in Block : b # block => buffer'[b] = buffer[b]
          /\ buffer'[block] # iteration <=> block \in lies \/ archived[block] # iteration
      <4>1. buffer[block] # iteration
        BY <1>1, <2>2, <3>2
      <4>2. \A b \in Block : b # block => buffer'[b] = buffer[b]
        BY <3>3, MovedBlocks
      <4> QED BY <1>1, <3>3, <4>1, <4>2, MovedTells
    <3>5. \A b \in Block : ~Done(b)' \/ archived[b] # iteration => buffer'[b] # iteration
      BY <1>1, <2>1, <3>2, <3>4
    <3>6. lied' <=> \E b \in Block : archived[b] # iteration \/ (Done(b)' /\ buffer'[b] # iteration)
      BY <1>1, <1>3, <2>0, <2>1, <2>2, <3>2, <3>4
    <3> QED BY <1>1, <3>5, <3>6 DEF LoadInv
  <2>5. DataInv'
    BY <1>3, <2>3, <2>4 DEF DataInv, CommitInv, PoisonInv, Committing
  <2> QED BY <1>1, <1>3, <2>0, <2>5, WorkTells DEF Leaving, Setup, Fails
<1>4. CASE pc' = "caught" /\ Fails
  BY <1>1, <1>4, NoDataElsewhere, WorkTells DEF Engaged, Committing, Leaving, Setup, Fails
<1> QED BY <1>2, <1>3, <1>4 DEF PsyncIo

LEMMA CloseTells ==
  ASSUME IInv, TruthInv, PsyncClose
  PROVE  TruthInv'
<1>1. /\ UNCHANGED <<iteration, dump, buffer, temporary, archived, verdict, lied>>
      /\ pc = "close" /\ block \in Block /\ TypeOK
      /\ ~trouble => ~lied
  <2>1. UNCHANGED <<verdict, lied>>
    BY DEF PsyncClose, Works, Fails
  <2>2. pc = "close" /\ UNCHANGED <<iteration, dump, contents>>
    BY DEF PsyncClose
  <2> QED BY <2>1, <2>2 DEF IInv, TypeOK, TruthInv, QuietInv, contents
<1>2. CASE /\ UNCHANGED trouble /\ pc' = "open"
           /\ \/ ~LastShard /\ UNCHANGED block
              \/ LastShard /\ block' = block + 1
  <2>1. \A b \in Block : Done(b)' <=> Done(b)
    BY <1>1, <1>2 DEF Done, Block
  <2>2. DumpInv'
    BY <1>1, <1>2, <2>1 DEF TruthInv, DataInv, DumpInv, Engaged
  <2>3. LoadInv'
    BY <1>1, <1>2, <2>1 DEF TruthInv, DataInv, LoadInv, Loading, Engaged
  <2>4. DataInv'
    BY <1>2, <2>2, <2>3 DEF DataInv, CommitInv, PoisonInv, Committing
  <2> QED BY <1>1, <1>2, <2>4, WorkTells DEF Leaving, Setup
<1>3. CASE UNCHANGED trouble /\ LastShard /\ ~(block < Blocks) /\ pc' = AfterTransfer /\ block' = 1
  <2>1. \A b \in Block : Done(b)
    BY <1>1, <1>3, BlocksAssumption DEF Done, Block
  <2>2. DataInv'
    <3>1. CASE dump
      <4>1. lied <=> \E b \in Block : temporary[b] # iteration
        BY <1>1, <2>1, <3>1 DEF TruthInv, DataInv, DumpInv, Engaged
      <4> QED BY <1>1, <1>3, <3>1, <4>1, DumpComplete DEF AfterTransfer
    <3>2. CASE ~dump
      <4>1. /\ \A b \in Block : archived[b] # iteration => buffer[b] # iteration
            /\ lied <=> \E b \in Block : archived[b] # iteration \/ buffer[b] # iteration
        BY <1>1, <2>1, <3>2 DEF TruthInv, DataInv, LoadInv, Loading, Engaged
      <4> QED BY <1>1, <1>3, <3>2, <4>1, LoadComplete DEF AfterTransfer
    <3> QED BY <3>1, <3>2
  <2> QED BY <1>1, <1>3, <2>2, WorkTells DEF Leaving, Setup, AfterTransfer
<1>4. CASE pc' = "caught" /\ Fails
  BY <1>1, <1>4, NoDataElsewhere, WorkTells DEF Engaged, Committing, Leaving, Setup, Fails
<1> QED BY <1>2, <1>3, <1>4 DEF PsyncClose, Works
-------------------------------------------------------------------------------
LEMMA SyncTells ==
  ASSUME IInv, TruthInv, Commit \/ Fdatasync \/ CloseSynced
  PROVE  TruthInv'
<1>1. /\ UNCHANGED <<iteration, block, temporary, archived, lied>>
      /\ pc \in {"commit", "fdatasync", "close_synced"}
  BY DEF Commit, Fdatasync, CloseSynced, Works, Fails, loop, contents
<1>2. CASE Throw /\ Fails
  BY <1>1, <1>2, ThrowTells DEF Throw, Fails, Commit, Fdatasync, CloseSynced
<1>3. CASE pc' \in {"rename", "fdatasync", "close_synced"} /\ Works
  <2>1. \A b \in Block : Stored(b)' = Stored(b)
    BY <1>1 DEF Stored
  <2>2. CommitInv'
    BY <1>1, <1>3, <2>1 DEF TruthInv, DataInv, CommitInv, Committing
  <2>3. DataInv'
    BY <1>3, <2>2 DEF DataInv, DumpInv, PoisonInv, LoadInv, Loading, Engaged
  <2> QED BY <1>1, <1>3, <2>3, WorkTells DEF TruthInv, QuietInv, Works, Leaving, Setup
<1>4. CASE pc' = "fdatasync_failed" /\ Fails /\ UNCHANGED verdict
  BY <1>1, <1>4, NoDataElsewhere, WorkTells DEF Engaged, Leaving, Setup, Fails
<1> QED BY <1>2, <1>3, <1>4 DEF Commit, Fdatasync, CloseSynced

LEMMA RenameTells ==
  ASSUME IInv, TruthInv, Rename
  PROVE  TruthInv'
<1>1. UNCHANGED <<iteration, lied>> /\ pc = "rename" /\ block \in Block /\ TypeOK
  BY DEF Rename, Works, Fails, IInv, TypeOK
<1>2. CASE Throw /\ Fails
  BY <1>1, <1>2, ThrowTells DEF Throw, Fails
<1>3. CASE /\ Renamed /\ Works
           /\ IF block < Blocks THEN pc' = "commit" /\ block' = block + 1
              ELSE pc' = "poison" /\ block' = 1
  <2>1. lied <=> \E b \in Block : Stored(b) # iteration
    BY <1>1 DEF TruthInv, DataInv, CommitInv, Committing
  <2>2. \A b \in Block : /\ archived'[b] = IF b = block THEN temporary[b] ELSE archived[b]
                         /\ b # block => temporary'[b] = temporary[b]
    BY <1>1, <1>3 DEF Renamed, TypeOK
  <2>3. CASE block < Blocks
    <3>1. \A b \in Block : Stored(b)' = Stored(b)
      BY <1>1, <1>3, <2>2, <2>3 DEF Stored, Block
    <3>2. CommitInv'
      BY <1>1, <2>1, <3>1 DEF CommitInv
    <3>3. DataInv'
      BY <1>3, <2>3, <3>2 DEF DataInv, DumpInv, PoisonInv, LoadInv, Loading, Engaged
    <3> QED BY <1>1, <1>3, <2>3, <3>3, WorkTells DEF TruthInv, QuietInv, Works, Leaving, Setup
  <2>4. CASE ~(block < Blocks)
    <3>1. \A b \in Block : archived'[b] = Stored(b)
      BY <1>1, <2>2, <2>4, BlocksAssumption DEF Stored, Block
    <3>2. PoisonInv'
      BY <1>1, <1>3, <2>1, <2>4, <3>1 DEF PoisonInv
    <3>3. DataInv'
      BY <1>3, <2>4, <3>2 DEF DataInv, DumpInv, CommitInv, LoadInv, Loading, Engaged, Committing
    <3> QED BY <1>1, <1>3, <2>4, <3>3, WorkTells DEF TruthInv, QuietInv, Works, Leaving, Setup
  <2> QED BY <2>3, <2>4
<1> QED BY <1>2, <1>3 DEF Rename
-------------------------------------------------------------------------------
LEMMA TruthInit == Init => TruthInv
<1> SUFFICES ASSUME Init PROVE TruthInv
  OBVIOUS
<1> USE DEF Init
<1>1. DataInv
  BY DEF DataInv, DumpInv, CommitInv, PoisonInv, LoadInv, Loading, Engaged, Committing
<1>2. OutcomeInv /\ QuietInv /\ GivenBackInv
  BY DEF OutcomeInv, QuietInv, GivenBackInv, Leaving
<1> QED BY <1>1, <1>2 DEF TruthInv

LEMMA TruthNext == FullInv /\ [Next]_vars => FullInv'
<1> SUFFICES ASSUME IInv, TruthInv, [Next]_vars PROVE TruthInv'
  BY InvNext DEF FullInv
<1>1. CASE Step
  BY <1>1, SetupTells, FillTells, AioTells, OpenTells, IoTells, CloseTells, CaughtTells,
     SyncTells, RenameTells, PoisonTells, VerifyTells, DestroyTells, RemoveTells DEF Step
<1>2. CASE UNCHANGED vars
  BY <1>2 DEF TruthInv, DataInv, DumpInv, CommitInv, PoisonInv, LoadInv, Loading, Engaged, Done,
     Stored, LastShard, OutcomeInv, QuietInv, GivenBackInv, VerdictIsTrue, All,
     vars, memory, loop, files, contents, verdict
<1> QED BY <1>1, <1>2 DEF Next, Finished

\* The iterations of main() keep the marks a wrong transfer leaves, however
\* the calls fail and whatever the transfers report.
THEOREM TruthInvariance == Spec => []FullInv
BY InvInit, TruthInit, TruthNext, PTL DEF Spec, FullInv

\* cache2_hal_aio.cc 595-633: RESULT PASS means that every transfer of every
\* iteration moved its data and that everything was given back; without a
\* failed call and a wrong transfer the program passes.
THEOREM VerdictTells == Spec => []VerdictIsTrue
<1>1. FullInv => VerdictIsTrue
  BY DEF FullInv, TruthInv, OutcomeInv, QuietInv, VerdictIsTrue
<1> QED BY <1>1, TruthInvariance, PTL
===============================================================================
