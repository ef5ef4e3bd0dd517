------------------------------ MODULE MultiShare ------------------------------
(***************************************************************************)
(* multi_share.cpp: a coordinator forks one worker per device.  Every      *)
(* worker exports one Host allocation, imports everybody else's, and the   *)
(* workers then run in phases separated by barriers that the coordinator   *)
(* implements with one-word messages over a socketpair per worker.         *)
(*                                                                         *)
(* Faults (a HAL/ACL call that fails, a socket timeout, a verification     *)
(* that mismatches, a killed process) are actions of their own, at most    *)
(* MaxFaults in a behaviour; everything that follows from a fault (end of  *)
(* file on a socket, SIGTERM, clean-up) is ordinary behaviour.             *)
(***************************************************************************)
EXTENDS Integers, Sequences

CONSTANTS
  N,          \* number of devices, hence of workers (count, line 275)
  Rounds,     \* read_rounds (line 11)
  MaxFaults   \* bound on injected faults

ASSUME NAssumption == N \in Nat \ {0}
ASSUME RoundsAssumption == Rounds \in Nat \ {0}
ASSUME MaxFaultsAssumption == MaxFaults \in Nat

Rank == 0 .. N-1
Barriers == 2 * Rounds + 4

\* A word on a socket is the token of a rank's allocation, or the barrier word 0.
Sync == N
Word == Rank \cup {Sync}
NoAlloc == N + 1

\* Content of an allocation: the seed it was filled with, or a mixture.
Torn == 0
OwnSeed(r) == 200 + r
Seed(k, owner) == 300 + k * N + owner

VARIABLES
  \* per worker: the step it is at, the phase and round it is in, its loop index
  pc, phase, round, idx,
  entered, returned,          \* barrier() calls entered and returned
  held, handle, slice,   \* resources of the process: see Resource, handles[], mapped[]
  result, cleanupFailed, \* what worker() returns is result || cleanup_failed
  sig,                   \* SIGTERM issued to the worker and not yet delivered
  up, down,              \* words in flight worker -> coordinator and back
  mem,                   \* content of the allocation each rank owns
  \* coordinator: step, loop indices, barrier loop counter, tokens, sockets, exit code
  cpc, cidx, cword, cphase, tokens, open, cresult,
  faults

prog == <<phase, round, entered, returned>>
res  == <<held, handle, slice>>
outcome == <<result, cleanupFailed>>
loops == <<cidx, cword, cphase, tokens>>
coord == <<cpc, loops, open, cresult>>
workers == <<pc, idx, prog, res, outcome, mem>>
rest == <<sig, up, down, coord>>   \* what a local step of a worker leaves alone
vars == <<workers, sig, up, down, coord, faults>>

Resource == {"acl", "device", "va", "hbm"}
Phase == {"import", "cpu", "write", "read", "free", "unmap", "final"}
Forking == {"forked", "armed", "execing"}
Trying == {"init", "device", "reserve", "create", "export", "receive", "map",
           "cpu", "aio", "hbm", "fill", "filling", "read", "freehbm", "unmap",
           "arrive", "wait"}
Leaving == {"cleanup", "cleanlocal", "close", "return"}
Gone == {"exited", "killed"}
Live == Forking \cup Trying \cup Leaving
Step == {"absent"} \cup Live \cup Gone

ProgramType ==
  /\ pc \in [Rank -> Step]
  /\ phase \in [Rank -> Phase]
  /\ round \in [Rank -> 0 .. Rounds]
  /\ idx \in [Rank -> Rank]
  /\ entered \in [Rank -> 0 .. Barriers]
  /\ returned \in [Rank -> 0 .. Barriers]
  /\ result \in [Rank -> {0, 1, 125, 127}]
  /\ cleanupFailed \in [Rank -> BOOLEAN]
  /\ sig \in [Rank -> BOOLEAN]

ResourceType ==
  /\ held \in [Rank -> SUBSET Resource]
  /\ handle \in [Rank -> [Rank -> Word \cup {NoAlloc}]]
  /\ slice \in [Rank -> [Rank -> Word \cup {NoAlloc}]]
  /\ mem \in [Rank -> Int]

ChannelType ==
  /\ up \in [Rank -> Seq(Word)]
  /\ down \in [Rank -> Seq(Word)]

CoordType ==
  /\ cpc \in {"fork", "tokens", "bcast", "gather", "release", "close", "wait",
              "error", "kill", "reap", "done", "dead"}
  /\ cidx \in 0 .. N
  /\ cword \in 0 .. N
  /\ cphase \in 0 .. Barriers
  /\ tokens \in Seq(Word)
  /\ open \in BOOLEAN
  /\ cresult \in {0, 1, 2}
  /\ faults \in 0 .. MaxFaults

TypeOK == ProgramType /\ ResourceType /\ ChannelType /\ CoordType

Init ==
  /\ pc = [r \in Rank |-> "absent"]
  /\ phase = [r \in Rank |-> "import"]
  /\ round = [r \in Rank |-> 0]
  /\ idx = [r \in Rank |-> 0]
  /\ entered = [r \in Rank |-> 0]
  /\ returned = [r \in Rank |-> 0]
  /\ held = [r \in Rank |-> {}]
  /\ handle = [r \in Rank |-> [o \in Rank |-> NoAlloc]]
  /\ slice = [r \in Rank |-> [o \in Rank |-> NoAlloc]]
  /\ result = [r \in Rank |-> 0]
  /\ cleanupFailed = [r \in Rank |-> FALSE]
  /\ sig = [r \in Rank |-> FALSE]
  /\ up = [r \in Rank |-> <<>>]
  /\ down = [r \in Rank |-> <<>>]
  /\ mem = [r \in Rank |-> Torn]
  /\ cpc = "fork" /\ cidx = 0 /\ cword = 0 /\ cphase = 0
  /\ tokens = <<>> /\ open = TRUE /\ cresult = 0
  /\ faults = 0

-----------------------------------------------------------------------------
\* The ends of the socketpairs.  A child that has not closed the descriptors
\* it inherited keeps the coordinator's ends of its predecessors open.
CoordEndOpen(r) == open \/ \E q \in r .. N-1 : pc[q] \in Forking
WorkerEndOpen(r) == pc[r] \in Live \ {"return"}

\* The allocation of rank o exists; its owner has not released it, but may have
\* been killed; rank r has it mapped.
Allocated(o) == pc[o] \in Live /\ handle[o][o] = o
NotReleased(o) == handle[o][o] = o
Maps(r, o) == pc[r] \in Live /\ \E i \in Rank : slice[r][i] = o

Goto(r, step) == pc' = [pc EXCEPT ![r] = step]

\* An exception leaves the try block: the HBM scope is left, the catch block
\* sets result and the clean-up loop begins.
Throw(r) ==
  /\ Goto(r, "cleanup")
  /\ idx' = [idx EXCEPT ![r] = 0]
  /\ result' = [result EXCEPT ![r] = 1]
  /\ held' = [held EXCEPT ![r] = @ \ {"hbm"}]

-----------------------------------------------------------------------------
\* A worker between fork and exec.
ArmParentDeathSignal(r) ==
  /\ pc[r] = "forked"
  /\ Goto(r, "armed")
  /\ UNCHANGED <<idx, prog, res, outcome, mem, rest, faults>>

ParentUnchecked == FALSE   \* mutant: getppid is not compared
ParentGone == cpc = "dead"

CheckParent(r) ==
  /\ pc[r] = "armed"
  /\ IF ParentGone
       THEN /\ Goto(r, "exited")
            /\ result' = [result EXCEPT ![r] = 125]
       ELSE Goto(r, "execing") /\ UNCHANGED result
  /\ UNCHANGED <<idx, prog, res, cleanupFailed, mem, rest, faults>>

Exec(r) ==
  /\ pc[r] = "execing"
  /\ Goto(r, "init")
  /\ UNCHANGED <<idx, prog, res, outcome, mem, rest, faults>>

\* Steps that acquire a resource of the process.
Acquire(r, step, what, next) ==
  /\ pc[r] = step
  /\ held' = [held EXCEPT ![r] = @ \cup {what}]
  /\ Goto(r, next)
  /\ UNCHANGED <<idx, prog, handle, slice, outcome, mem, rest, faults>>

AclInit(r) == Acquire(r, "init", "acl", "device")
SetDevice(r) == Acquire(r, "device", "device", "reserve")
Reserve(r) == Acquire(r, "reserve", "va", "create")

Create(r) ==
  /\ pc[r] = "create"
  /\ handle' = [handle EXCEPT ![r][r] = r]
  /\ Goto(r, "export")
  /\ UNCHANGED <<idx, prog, held, slice, outcome, mem, rest, faults>>

\* send_word on the worker's socket: throws when the other end is closed.
SendUp(r, word) == up' = [up EXCEPT ![r] = Append(@, word)]

SendThrows(r) ==
  /\ pc[r] \in {"export", "arrive"}
  /\ ~CoordEndOpen(r)
  /\ Throw(r)
  /\ UNCHANGED <<prog, handle, slice, cleanupFailed, mem, rest, faults>>

\* receive_word: buffered words first, then end of file.
ReceiveThrows(r) ==
  /\ pc[r] \in {"receive", "wait"}
  /\ down[r] = <<>>
  /\ ~CoordEndOpen(r)
  /\ Throw(r)
  /\ UNCHANGED <<prog, handle, slice, cleanupFailed, mem, rest, faults>>

Export(r) ==
  /\ pc[r] = "export"
  /\ CoordEndOpen(r)
  /\ SendUp(r, handle[r][r])
  /\ idx' = [idx EXCEPT ![r] = 0]
  /\ Goto(r, "receive")
  /\ UNCHANGED <<prog, res, outcome, sig, down, mem, coord, faults>>

-----------------------------------------------------------------------------
\* The import loop: receive the token of owner idx, import it unless it is the
\* worker's own allocation, map the handle into slice idx.
ReceiveToken(r) ==
  /\ pc[r] = "receive"
  /\ down[r] # <<>> /\ Head(down[r]) \in Rank
  /\ idx[r] = r \/ Allocated(Head(down[r]))
  /\ down' = [down EXCEPT ![r] = Tail(@)]
  /\ handle' = IF idx[r] = r THEN handle
                 ELSE [handle EXCEPT ![r][idx[r]] = Head(down[r])]
  /\ Goto(r, "map")
  /\ UNCHANGED <<idx, prog, held, slice, outcome, sig, up, mem, coord, faults>>

ImportThrows(r) ==
  /\ pc[r] = "receive"
  /\ down[r] # <<>> /\ idx[r] # r /\ ~Allocated(Head(down[r]))
  /\ down' = [down EXCEPT ![r] = Tail(@)]
  /\ Throw(r)
  /\ UNCHANGED <<prog, handle, slice, cleanupFailed, sig, up, mem, coord, faults>>

\* Advance the loop index of r, leaving the loop for the given step after the
\* last rank.
Loop(r, again, after) ==
  IF idx[r] + 1 < N
    THEN idx' = [idx EXCEPT ![r] = @ + 1] /\ Goto(r, again)
    ELSE idx' = [idx EXCEPT ![r] = 0] /\ Goto(r, after)

Map(r) ==
  /\ pc[r] = "map"
  /\ slice' = [slice EXCEPT ![r][idx[r]] = handle[r][idx[r]]]
  /\ Loop(r, "receive", "arrive")
  /\ UNCHANGED <<prog, held, handle, outcome, mem, rest, faults>>

\* barrier(): send the word 0, wait for the word 0.
Arrive(r) ==
  /\ pc[r] = "arrive"
  /\ CoordEndOpen(r)
  /\ SendUp(r, Sync)
  /\ entered' = [entered EXCEPT ![r] = @ + 1]
  /\ Goto(r, "wait")
  /\ UNCHANGED <<idx, phase, round, returned, res, outcome, sig, down, mem, coord, faults>>

\* What follows each of the six barrier() call sites.
AfterBarrier(r, nextPhase, step) ==
  /\ phase' = [phase EXCEPT ![r] = nextPhase]
  /\ Goto(r, step)

MoreRounds(r) == round[r] + 1 < Rounds

Pass(r) ==
  /\ pc[r] = "wait"
  /\ down[r] # <<>> /\ Head(down[r]) = Sync
  /\ down' = [down EXCEPT ![r] = Tail(@)]
  /\ returned' = [returned EXCEPT ![r] = @ + 1]
  /\ \/ phase[r] = "import" /\ AfterBarrier(r, "cpu", "cpu") /\ UNCHANGED round
     \/ phase[r] = "cpu" /\ AfterBarrier(r, "write", "hbm") /\ UNCHANGED round
     \/ phase[r] = "write" /\ AfterBarrier(r, "read", "read") /\ UNCHANGED round
     \/ /\ phase[r] = "read"
        /\ round' = [round EXCEPT ![r] = @ + 1]
        /\ IF MoreRounds(r) THEN AfterBarrier(r, "write", "fill")
                            ELSE AfterBarrier(r, "free", "freehbm")
     \/ phase[r] = "free" /\ AfterBarrier(r, "unmap", "unmap") /\ UNCHANGED round
     \/ phase[r] = "unmap" /\ AfterBarrier(r, "final", "cleanup") /\ UNCHANGED round
  /\ UNCHANGED <<idx, entered, res, outcome, sig, up, mem, coord, faults>>

-----------------------------------------------------------------------------
\* The work between the barriers.

\* A write to the worker's own allocation: from one step to the other its
\* content is neither the old nor the new pattern.
BeginWrite(r) ==
  /\ \/ pc[r] = "cpu" /\ Goto(r, "aio")
     \/ pc[r] = "fill" /\ Goto(r, "filling")
  /\ mem' = [mem EXCEPT ![slice[r][r]] = Torn]
  /\ UNCHANGED <<idx, prog, res, outcome, rest, faults>>

\* What the owner writes in its current round.
SameSeedEveryRound(r) == Seed(0, r)   \* mutant: the round is left out
WrittenSeed(r) == Seed(round[r], r)

\* Give back a set of resources; the calls for those in leak fail, which sets
\* cleanup_failed and counts as one fault.
Leak(r, leak) ==
  IF leak = {} THEN UNCHANGED <<cleanupFailed, faults>>
  ELSE /\ faults < MaxFaults
       /\ faults' = faults + 1
       /\ cleanupFailed' = [cleanupFailed EXCEPT ![r] = TRUE]

\* buffered_aio() ends with a clean-up of its context and file, which may fail
\* although the block is written.
EndWrite(r, leak) ==
  /\ \/ /\ pc[r] = "aio"
        /\ mem' = [mem EXCEPT ![slice[r][r]] = OwnSeed(r)]
     \/ /\ pc[r] = "filling" /\ leak = {}
        /\ mem' = [mem EXCEPT ![slice[r][r]] = WrittenSeed(r)]
  /\ Leak(r, leak)
  /\ Goto(r, "arrive")
  /\ UNCHANGED <<idx, prog, res, result, rest>>

SetupHbm(r) == Acquire(r, "hbm", "hbm", "fill")

\* The block of owner idx, seen through slice idx, carries this round's seed
\* (and, after the last block, so does the worker's own).
BlockVerified(r) ==
  /\ mem[slice[r][idx[r]]] = Seed(round[r], idx[r])
  /\ idx[r] = N-1 => mem[slice[r][r]] = Seed(round[r], r)

Read(r) ==
  /\ pc[r] = "read"
  /\ BlockVerified(r)
  /\ Loop(r, "read", "arrive")
  /\ UNCHANGED <<prog, res, outcome, mem, rest, faults>>

\* The copy may fail, or return anything, once the owner has released the block.
UseThrows(r) ==
  /\ \/ pc[r] = "read" /\ ~(BlockVerified(r) /\ Allocated(slice[r][idx[r]]))
     \/ pc[r] = "map" /\ ~Allocated(handle[r][idx[r]])
  /\ Throw(r)
  /\ UNCHANGED <<prog, handle, slice, cleanupFailed, mem, rest, faults>>

FreeHbm(r, leak) ==
  /\ pc[r] = "freehbm"
  /\ held' = [held EXCEPT ![r] = (@ \ {"hbm"}) \cup leak]
  /\ Leak(r, leak)
  /\ Goto(r, "arrive")
  /\ UNCHANGED <<idx, prog, handle, slice, result, mem, rest>>

NoBarrierAfterUnmap == "cleanup"   \* mutant: line 219 is missing
AfterUnmap == "arrive"

Unmap(r) ==
  /\ pc[r] = "unmap"
  /\ slice' = [slice EXCEPT ![r][idx[r]] = NoAlloc]
  /\ Loop(r, "unmap", AfterUnmap)
  /\ UNCHANGED <<prog, held, handle, outcome, mem, rest, faults>>

-----------------------------------------------------------------------------
\* Clean-up: reached at the end of the try block and from the catch block.
CleanupSlot(r, leak) ==
  /\ pc[r] = "cleanup"
  /\ slice' = IF "slice" \in leak THEN slice
                ELSE [slice EXCEPT ![r][idx[r]] = NoAlloc]
  /\ handle' = IF "handle" \in leak THEN handle
                 ELSE [handle EXCEPT ![r][idx[r]] = NoAlloc]
  /\ Leak(r, leak)
  /\ Loop(r, "cleanup", "cleanlocal")
  /\ UNCHANGED <<prog, held, result, mem, rest>>

\* The calls of one turn of the clean-up loop that are made, hence can fail.
SlotCalls(r) ==
  {what \in {"slice", "handle"} :
     (IF what = "slice" THEN slice ELSE handle)[r][idx[r]] # NoAlloc}

CleanupLocal(r, leak) ==
  /\ pc[r] = "cleanlocal"
  /\ held' = [held EXCEPT ![r] = leak]
  /\ Leak(r, leak)
  /\ Goto(r, "close")
  /\ UNCHANGED <<idx, prog, handle, slice, result, mem, rest>>

CloseFd(r) ==
  /\ pc[r] = "close"
  /\ Goto(r, "return")
  /\ UNCHANGED <<idx, prog, res, outcome, mem, rest, faults>>

Return(r) ==
  /\ pc[r] = "return"
  /\ result' = [result EXCEPT ![r] = IF cleanupFailed[r] THEN 1 ELSE @]
  /\ Goto(r, "exited")
  /\ UNCHANGED <<idx, prog, res, cleanupFailed, mem, rest, faults>>

\* Delivery of SIGTERM, whose disposition is the default one.
Die(r) ==
  /\ pc[r] \in Live /\ sig[r]
  /\ Goto(r, "killed")
  /\ UNCHANGED <<idx, prog, res, outcome, mem, rest, faults>>

-----------------------------------------------------------------------------
\* The coordinator.
Fork ==
  /\ cpc = "fork"
  /\ IF cidx < N
       THEN /\ Goto(cidx, "forked")
            /\ cidx' = cidx + 1
            /\ UNCHANGED cpc
       ELSE cpc' = "tokens" /\ cidx' = 0 /\ UNCHANGED pc
  /\ UNCHANGED <<idx, prog, res, outcome, sig, up, down, mem,
                 cword, cphase, tokens, open, cresult, faults>>

\* Move on to the next worker's socket, or to the next loop after the last one.
NextSocket(last, after) ==
  IF cidx < last THEN cidx' = cidx + 1 /\ UNCHANGED cpc
                 ELSE cidx' = 0 /\ cpc' = after

PutInFront(token) == <<token>> \o tokens   \* mutant: wrong end of the list
PushBack(token) == Append(tokens, token)

CollectToken ==
  /\ cpc = "tokens"
  /\ up[cidx] # <<>>
  /\ tokens' = PushBack(Head(up[cidx]))
  /\ up' = [up EXCEPT ![cidx] = Tail(@)]
  /\ NextSocket(N-1, "bcast")
  /\ UNCHANGED <<workers, sig, down, cword, cphase, open, cresult, faults>>

SendToken ==
  /\ cpc = "bcast"
  /\ WorkerEndOpen(cidx)
  /\ down' = [down EXCEPT ![cidx] = Append(@, tokens[cword + 1])]
  /\ IF cword + 1 < N
       THEN cword' = cword + 1 /\ UNCHANGED <<cidx, cpc>>
       ELSE cword' = 0 /\ NextSocket(N-1, "gather")
  /\ UNCHANGED <<workers, sig, up, cphase, tokens, open, cresult, faults>>

AllButOne == N-2   \* mutant: the last worker is not waited for
LastGathered == N-1

Gather ==
  /\ cpc = "gather"
  /\ up[cidx] # <<>> /\ Head(up[cidx]) = Sync
  /\ up' = [up EXCEPT ![cidx] = Tail(@)]
  /\ NextSocket(LastGathered, "release")
  /\ UNCHANGED <<workers, sig, down, cword, cphase, tokens, open, cresult, faults>>

StopOneEarly == cphase + 2 < Barriers   \* mutant: one barrier too few
MoreBarriers == cphase + 1 < Barriers

Release ==
  /\ cpc = "release"
  /\ WorkerEndOpen(cidx)
  /\ down' = [down EXCEPT ![cidx] = Append(@, Sync)]
  /\ NextSocket(N-1, IF MoreBarriers THEN "gather" ELSE "close")
  /\ cphase' = IF cidx + 1 < N THEN cphase ELSE cphase + 1
  /\ UNCHANGED <<workers, sig, up, cword, tokens, open, cresult, faults>>

\* End of file or a broken pipe on the socket of worker cidx.
SocketThrows ==
  /\ \/ cpc \in {"tokens", "gather"} /\ up[cidx] = <<>>
     \/ cpc \in {"bcast", "release"}
  /\ ~WorkerEndOpen(cidx)

\* Mutant: a barrier goes on without the worker that is gone.
CoordSkips ==
  /\ SocketThrows
  /\ IF cpc = "gather" THEN NextSocket(N-1, "release") ELSE cpc' = "error" /\ UNCHANGED cidx
  /\ UNCHANGED <<workers, sig, up, down, cword, cphase, tokens, open, cresult, faults>>

CoordRetries == SocketThrows /\ UNCHANGED vars   \* mutant: an end of file is retried

CoordThrows ==
  /\ SocketThrows
  /\ cpc' = "error"
  /\ UNCHANGED <<workers, sig, up, down, loops, open, cresult, faults>>

CloseSockets ==
  /\ \/ cpc = "close" /\ cpc' = "wait"
     \/ cpc = "error" /\ cpc' = "kill"
  /\ open' = FALSE
  /\ UNCHANGED <<workers, sig, up, down, loops, cresult, faults>>

KillChildren ==
  /\ cpc = "kill"
  /\ cpc' = "reap"
  /\ sig' = [r \in Rank |-> sig[r] \/ pc[r] \in Live]
  /\ UNCHANGED <<workers, up, down, loops, open, cresult, faults>>

\* Both waitpid loops return once every child forked so far is gone.
NoChildLeft == \A r \in Rank : pc[r] \in {"absent"} \cup Gone
SucceededOrKilled(r) == result[r] = 0   \* mutant: WIFEXITED is not consulted
Succeeded(r) == pc[r] = "exited" /\ result[r] = 0

WaitChildren ==
  /\ cpc \in {"wait", "reap"}
  /\ NoChildLeft
  /\ cresult' = IF cpc = "wait" THEN IF \A r \in Rank : Succeeded(r) THEN 0 ELSE 1
                ELSE IF pc[0] = "absent" THEN 2 ELSE 1
  /\ cpc' = "done"
  /\ UNCHANGED <<workers, sig, up, down, loops, open, faults>>

-----------------------------------------------------------------------------
\* Injected faults.
Inject == faults < MaxFaults /\ faults' = faults + 1

\* A checked call fails, a verification mismatches, or a socket times out.
WorkerFails(r) ==
  /\ pc[r] \in Trying \ {"freehbm"}
  /\ Inject
  /\ Throw(r)
  /\ UNCHANGED <<prog, handle, slice, cleanupFailed, mem, rest>>

ExecFails(r) ==
  /\ pc[r] = "execing"
  /\ Inject
  /\ Goto(r, "exited")
  /\ result' = [result EXCEPT ![r] = 127]
  /\ UNCHANGED <<idx, prog, res, cleanupFailed, mem, rest>>

WorkerKilled(r) ==
  /\ pc[r] \in Live
  /\ Inject
  /\ Goto(r, "killed")
  /\ UNCHANGED <<idx, prog, res, outcome, mem, rest>>

\* socketpair, setsockopt or fork fails, or a socket operation times out.
CoordFails ==
  /\ cpc \in {"fork", "tokens", "bcast", "gather", "release"}
  /\ Inject
  /\ cpc' = "error"
  /\ UNCHANGED <<workers, sig, up, down, loops, open, cresult>>

\* The coordinator is killed: its descriptors are closed, and the kernel sends
\* SIGTERM to the children that asked for it.
CoordKilled ==
  /\ cpc \notin {"done", "dead"}
  /\ Inject
  /\ cpc' = "dead"
  /\ open' = FALSE
  /\ sig' = [r \in Rank |-> sig[r] \/ pc[r] \in Live \ {"forked"}]
  /\ UNCHANGED <<workers, up, down, loops, cresult>>

-----------------------------------------------------------------------------
WorkerStep(r) ==
  \/ ArmParentDeathSignal(r) \/ CheckParent(r) \/ Exec(r)
  \/ AclInit(r) \/ SetDevice(r) \/ Reserve(r) \/ Create(r) \/ Export(r)
  \/ SendThrows(r) \/ ReceiveThrows(r)
  \/ ReceiveToken(r) \/ ImportThrows(r) \/ Map(r)
  \/ Arrive(r) \/ Pass(r)
  \/ BeginWrite(r) \/ EndWrite(r, {}) \/ SetupHbm(r) \/ Read(r) \/ UseThrows(r)
  \/ FreeHbm(r, {}) \/ Unmap(r)
  \/ CleanupSlot(r, {}) \/ CleanupLocal(r, {}) \/ CloseFd(r) \/ Return(r)

CoordStep ==
  \/ Fork \/ CollectToken \/ SendToken \/ Gather \/ Release
  \/ CoordThrows \/ CloseSockets \/ KillChildren \/ WaitChildren

\* A clean-up call that fails.
CleanupFails(r) ==
  \/ EndWrite(r, {"aio"})
  \/ FreeHbm(r, {"hbm"})
  \/ \E leak \in SUBSET SlotCalls(r) \ {{}} : CleanupSlot(r, leak)
  \/ \E leak \in SUBSET held[r] \ {{}} : CleanupLocal(r, leak)

Fault ==
  \/ \E r \in Rank : WorkerFails(r) \/ ExecFails(r) \/ WorkerKilled(r) \/ CleanupFails(r)
  \/ CoordFails \/ CoordKilled

\* Nothing is left of the program.
Terminated == cpc \in {"done", "dead"} /\ NoChildLeft

Next ==
  \/ \E r \in Rank : WorkerStep(r) \/ Die(r)
  \/ CoordStep
  \/ Fault
  \/ Terminated /\ UNCHANGED vars

Spec == Init /\ [][Next]_vars

\* The scheduler runs every process, calls return, signals are delivered.
Fairness ==
  /\ \A r \in Rank : WF_vars(WorkerStep(r)) /\ WF_vars(Die(r))
  /\ WF_vars(CoordStep)

FairSpec == Spec /\ Fairness

-----------------------------------------------------------------------------
(***************************************************************************)
(* Properties.                                                             *)
(***************************************************************************)

\* The barrier calls of the workers implement Lockstep: a worker returns from
\* its n-th barrier() only after every worker has entered its own n-th, whatever
\* fails, and a worker that failed keeps the others out of the next phase.
Barrier ==
  INSTANCE Lockstep WITH
    Member <- Rank,
    dropped <- {r \in Rank : pc[r] \in Leaving \cup Gone /\ returned[r] < Barriers}

ImplementsLockstep == Barrier!Spec

\* No worker returns from a barrier that another has not entered: what Lockstep
\* promises, of the words the workers and the coordinator exchange.
NoOvertaking == Barrier!NoOvertaking

\* Workers that are not blocked in a barrier are in the same phase of the same
\* round: the six call sites and the round loop of every worker line up with
\* each other although only a bare word 0 is exchanged.
Working(r) == pc[r] \in Trying \ {"wait"}
PhaseAgreement ==
  \A r, s \in Rank :
    Working(r) /\ Working(s) => phase[r] = phase[s] /\ round[r] = round[s]

\* "All owners finish writing before any reader starts; no next-round writes
\* until all readers finish" (line 192): every block a reader has still to copy
\* holds what its owner wrote in this round, even while workers fail.
ReadersSeeRoundData ==
  \A r \in Rank : pc[r] = "read" =>
    \A o \in idx[r] .. N-1 : mem[slice[r][o]] = Seed(round[r], o)

\* Tokens are collected and broadcast in rank order and nothing else tells a
\* worker whose allocation it maps: slice o of every worker is the allocation
\* of rank o (lines 141-155 and 315-320).
SliceHoldsOwner ==
  \A r, o \in Rank : handle[r][o] \in {o, NoAlloc} /\ slice[r][o] \in {o, NoAlloc}

\* MULTI_RESULT PASS means that every worker went through every barrier, was not
\* killed, and gave back everything it had acquired (lines 223-236 and 329-336).
PassMeansClean ==
  cpc = "done" /\ cresult = 0 =>
    \A r \in Rank :
      /\ pc[r] = "exited" /\ returned[r] = Barriers
      /\ held[r] = {}
      /\ \A o \in Rank : handle[r][o] = NoAlloc /\ slice[r][o] = NoAlloc

\* Without a fault the protocol never defeats itself: no worker fails, in
\* particular by an end of file that overtakes the last barrier word, and the
\* coordinator never takes its error path.
NoSpuriousFailure ==
  faults = 0 =>
    /\ cpc \notin {"error", "kill", "reap", "dead"}
    /\ \A r \in Rank : result[r] = 0 /\ pc[r] # "killed"

\* "Unmap everywhere before any owner releases its allocation" (line 215): no
\* owner has called halMemRelease while somebody who is past the import barrier,
\* where all had mapped all, still has its allocation mapped.  What the kernel
\* takes back from a killed owner is not counted.
UnmapBeforeRelease ==
  \A r, o \in Rank : returned[r] > 0 /\ Maps(r, o) => NotReleased(o)

\* With no fault that order holds throughout, the import included: the last
\* barrier stands between the two.
OrderlyRelease == faults = 0 => \A r, o \in Rank : Maps(r, o) => Allocated(o)

\* No worker outlives a killed coordinator unnoticed: prctl comes before the
\* comparison of getppid, so whoever got past that comparison is sent SIGTERM.
NoOrphan ==
  cpc = "dead" =>
    \A r \in Rank : pc[r] \in Live \ {"forked", "armed"} => sig[r]

\* Whatever fails, every process of the program ends.
Termination == <>Terminated
=============================================================================
