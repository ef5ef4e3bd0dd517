--------------------------- MODULE MultiShareProofs ---------------------------
(***************************************************************************)
(* IInv is an invariant of MultiShare for every number of workers, every   *)
(* number of rounds and any number of faults; ImplementsLockstep and       *)
(* PhaseAgreement follow from it.  DataInv is another on top of it; what   *)
(* the workers read, hold, give back and report follows from the two.      *)
(***************************************************************************)
EXTENDS MultiShareInv, TLAPS

USE NAssumption, RoundsAssumption, MaxFaultsAssumption

\* The disjuncts of Next, grouped by what they do to the sockets.
Throws(r) == SendThrows(r) \/ ReceiveThrows(r) \/ UseThrows(r) \/ WorkerFails(r)
CleanupAct(r) ==
  \/ \E leak \in SUBSET Resource : FreeHbm(r, leak)
  \/ \E leak : CleanupSlot(r, leak)
  \/ \E leak \in SUBSET Resource : CleanupLocal(r, leak)
Silent(r) ==
  \/ ArmParentDeathSignal(r) \/ CheckParent(r) \/ Exec(r) \/ ExecFails(r)
  \/ CloseFd(r) \/ Return(r) \/ Die(r) \/ WorkerKilled(r)
Ends(r) == \E leak \in SUBSET {"aio"} : EndWrite(r, leak)
Acquires(r) == AclInit(r) \/ SetDevice(r) \/ Reserve(r) \/ SetupHbm(r)
Works(r) == Create(r) \/ Map(r) \/ BeginWrite(r) \/ Ends(r) \/ Read(r) \/ Unmap(r)
Talks(r) == Export(r) \/ ReceiveToken(r) \/ ImportThrows(r) \/ Arrive(r) \/ Pass(r)
Serves == CollectToken \/ SendToken \/ Gather \/ Release
Stops == CoordThrows \/ CloseSockets \/ KillChildren \/ WaitChildren \/ CoordFails \/ CoordKilled

\* Every step is of one of these kinds.
LEMMA Kinds ==
  ASSUME TypeOK, Next
  PROVE  \/ \E r \in Rank : \/ Throws(r) \/ CleanupAct(r) \/ Silent(r)
                            \/ Acquires(r) \/ Works(r) \/ Talks(r)
         \/ Fork \/ Serves \/ Stops
         \/ UNCHANGED vars
<1>1. CASE \E r \in Rank : WorkerStep(r) \/ Die(r)
  BY <1>1 DEF WorkerStep, Throws, CleanupAct, Silent, Acquires, Works, Ends, Talks
<1>2. CASE CoordStep
  BY <1>2 DEF CoordStep, Serves, Stops
<1>3. CASE \E r \in Rank : CleanupFails(r)
  BY <1>3 DEF CleanupFails, CleanupAct, Works, Ends, TypeOK, ResourceType, Resource
<1>4. CASE Fault /\ ~\E r \in Rank : CleanupFails(r)
  BY <1>4 DEF Fault, Throws, Silent, Stops
<1> QED
  BY <1>1, <1>2, <1>3, <1>4 DEF Next

-----------------------------------------------------------------------------
LEMMA RankFacts ==
  /\ 0 \in Rank /\ N-1 \in Rank
  /\ \A i \in Rank : i \in Int /\ 0 <= i /\ i < N
  /\ \A i \in Rank : i + 1 < N => i + 1 \in Rank
BY DEF Rank

LEMMA RankOrder ==
  /\ N \in Int /\ N > 0
  /\ \A i \in Rank : i \in Int /\ (i < N-1 \/ i = N-1) /\ ~(i < 0)
  /\ \A i, j \in Rank : (i < j + 1 => i < j \/ i = j) /\ (i < j \/ i = j => i < j + 1)
BY NAssumption DEF Rank

LEMMA SeedType == \A k, o \in Int : Seed(k, o) \in Int
  BY DEF Seed

\* Handles, slices, other resources and contents stay in their types.
LEMMA ResourceTypeStep == IInv /\ Next => ResourceType'
<1> SUFFICES ASSUME IInv, Next PROVE ResourceType'
  OBVIOUS
<1> USE DEF IInv, TypeOK, ResourceType
<1>1. ASSUME NEW r \in Rank, Throws(r) PROVE ResourceType'
  BY <1>1 DEF Throws, SendThrows, ReceiveThrows, UseThrows, WorkerFails, Throw, rest
<1>2. ASSUME NEW r \in Rank, CleanupAct(r) PROVE ResourceType'
  <2>1. ASSUME NEW leak \in SUBSET Resource, FreeHbm(r, leak) PROVE ResourceType'
    BY <2>1 DEF FreeHbm
  <2>2. ASSUME NEW leak, CleanupSlot(r, leak) PROVE ResourceType'
    BY <2>2 DEF CleanupSlot
  <2>3. ASSUME NEW leak \in SUBSET Resource, CleanupLocal(r, leak) PROVE ResourceType'
    BY <2>3 DEF CleanupLocal
  <2>4. QED
    BY <1>2, <2>1, <2>2, <2>3 DEF CleanupAct
<1>3. ASSUME NEW r \in Rank, Silent(r) PROVE ResourceType'
  BY <1>3 DEF Silent, ArmParentDeathSignal, CheckParent, Exec, ExecFails, CloseFd,
              Return, Die, WorkerKilled, res
<1>4. ASSUME NEW r \in Rank, Acquires(r) PROVE ResourceType'
  <2>1. ASSUME NEW p, NEW what \in Resource, NEW q, Acquire(r, p, what, q)
        PROVE  ResourceType'
    BY <2>1 DEF Acquire
  <2>2. {"acl", "device", "va", "hbm"} \subseteq Resource
    BY DEF Resource
  <2>3. QED
    BY <1>4, <2>1, <2>2 DEF Acquires, AclInit, SetDevice, Reserve, SetupHbm
<1>5. ASSUME NEW r \in Rank, Works(r) PROVE ResourceType'
  <2>1. CASE Create(r)
    BY <2>1 DEF Create, Word, Rank
  <2>2. CASE Map(r)
    <3>1. idx[r] \in Rank
      BY DEF ProgramType
    <3>2. QED
      BY <2>2, <3>1 DEF Map
  <2>3. CASE BeginWrite(r)
    <3>1. Torn \in Int
      BY DEF Torn
    <3>2. QED
      BY <2>3, <3>1 DEF BeginWrite, res
  <2>4. CASE Ends(r)
    <3>1. r \in Int /\ round[r] \in Int
      BY DEF ProgramType, Rank
    <3>2. OwnSeed(r) \in Int
      BY <3>1 DEF OwnSeed
    <3>3. WrittenSeed(r) \in Int
      BY <3>1, SeedType DEF WrittenSeed
    <3>4. QED
      BY <2>4, <3>2, <3>3 DEF Ends, EndWrite, res
  <2>5. CASE Read(r)
    BY <2>5 DEF Read, res
  <2>6. CASE Unmap(r)
    BY <2>6 DEF Unmap
  <2>7. QED
    BY <1>5, <2>1, <2>2, <2>3, <2>4, <2>5, <2>6 DEF Works
<1>6. ASSUME NEW r \in Rank, Talks(r) PROVE ResourceType'
  <2>1. CASE ReceiveToken(r)
    <3>1. idx[r] \in Rank
      BY DEF ProgramType
    <3>2. QED
      BY <2>1, <3>1 DEF ReceiveToken, Word
  <2>2. CASE ImportThrows(r)
    BY <2>2 DEF ImportThrows, Throw
  <2>3. CASE Export(r) \/ Arrive(r) \/ Pass(r)
    BY <2>3 DEF Export, Arrive, Pass, res
  <2>4. QED
    BY <1>6, <2>1, <2>2, <2>3 DEF Talks
<1>7. CASE Fork \/ Serves \/ Stops \/ UNCHANGED vars
  BY <1>7 DEF Fork, Serves, CollectToken, SendToken, Gather, Release, Stops, CoordThrows,
              CloseSockets, KillChildren, WaitChildren, CoordFails, CoordKilled,
              workers, res, vars
<1> QED
  BY <1>1, <1>2, <1>3, <1>4, <1>5, <1>6, <1>7, Kinds

-----------------------------------------------------------------------------
\* What a step of worker r leaves alone in the program of every other worker.
OthersKept(r) ==
  \A s \in Rank \ {r} :
    /\ pc'[s] = pc[s] /\ idx'[s] = idx[s]
    /\ phase'[s] = phase[s] /\ round'[s] = round[s]
    /\ entered'[s] = entered[s] /\ returned'[s] = returned[s]

LEMMA WorkerInvKept ==
  ASSUME NEW r \in Rank, OthersKept(r), \A s \in Rank : WorkerInv(s), WorkerInv(r)'
  PROVE  \A s \in Rank : WorkerInv(s)'
BY DEF OthersKept, WorkerInv

\* A step to another control point within the same phase.
LEMMA SilentProgram ==
  ASSUME IInv, NEW r \in Rank, Silent(r)
  PROVE  ProgramType' /\ WorkerInv(r)' /\ OthersKept(r)
<1> USE DEF IInv, TypeOK, ProgramType, prog, res, outcome, rest
<1>1. CASE ArmParentDeathSignal(r)
  BY <1>1 DEF ArmParentDeathSignal, Goto, OthersKept, WorkerInv, BeforeToken, Importing,
              Step, Live, Forking, Trying
<1>2. CASE CheckParent(r)
  BY <1>2 DEF CheckParent, Goto, OthersKept, WorkerInv, BeforeToken, Importing,
              Step, Live, Forking, Trying, Gone
<1>3. CASE Exec(r)
  BY <1>3 DEF Exec, Goto, OthersKept, WorkerInv, BeforeToken, Importing,
              Step, Live, Forking, Trying
<1>4. CASE ExecFails(r)
  BY <1>4 DEF ExecFails, Goto, OthersKept, WorkerInv, BeforeToken, Importing,
              Step, Live, Forking, Trying, Gone
<1>5. CASE CloseFd(r) \/ Return(r)
  BY <1>5, SMTT(20) DEF CloseFd, Return, Goto, OthersKept, WorkerInv, BeforeToken, Importing,
              Step, Live, Forking, Trying, Leaving, Gone
<1>6. CASE Die(r) \/ WorkerKilled(r)
  BY <1>6 DEF Die, WorkerKilled, Goto, OthersKept, WorkerInv, BeforeToken, Importing,
              Step, Live, Forking, Trying, Leaving, Gone
<1> QED
  BY <1>1, <1>2, <1>3, <1>4, <1>5, <1>6 DEF Silent

LEMMA ThrowProgram ==
  ASSUME IInv, NEW r \in Rank, Throw(r), UNCHANGED <<prog, cleanupFailed, sig>>
  PROVE  ProgramType' /\ WorkerInv(r)' /\ OthersKept(r)
<1> USE DEF IInv, TypeOK, ProgramType, prog, Throw, Goto
<1>1. ProgramType'
  BY RankFacts DEF Step, Live, Leaving
<1>2. OthersKept(r)
  BY DEF OthersKept
<1>3. WorkerInv(r)'
  BY DEF WorkerInv, BeforeToken, Importing, Forking, Trying
<1> QED
  BY <1>1, <1>2, <1>3

\* One turn of a loop over the ranks, staying in or leaving the loop.
LEMMA LoopProgram ==
  ASSUME IInv, NEW r \in Rank, NEW again \in Step, NEW after \in Step, Loop(r, again, after)
  PROVE  /\ pc' \in [Rank -> Step] /\ idx' \in [Rank -> Rank]
         /\ pc' = [pc EXCEPT ![r] = pc'[r]] /\ idx' = [idx EXCEPT ![r] = idx'[r]]
         /\ \/ pc'[r] = again /\ idx'[r] = idx[r] + 1
            \/ pc'[r] = after /\ idx'[r] = 0 /\ idx[r] = N-1
<1> USE DEF IInv, TypeOK, ProgramType, Loop, Goto
<1>1. CASE idx[r] + 1 < N
  BY <1>1, RankFacts
<1>2. CASE ~(idx[r] + 1 < N)
  <2>1. idx[r] = N-1
    BY <1>2, RankFacts
  <2>2. QED
    BY <1>2, <2>1, RankFacts
<1> QED
  BY <1>1, <1>2

LEMMA CleanupProgram ==
  ASSUME IInv, NEW r \in Rank, CleanupAct(r)
  PROVE  ProgramType' /\ WorkerInv(r)' /\ OthersKept(r)
<1> USE DEF IInv, TypeOK, ProgramType, prog, rest
<1>0. ASSUME NEW leak, Leak(r, leak) PROVE cleanupFailed' \in [Rank -> BOOLEAN]
  <2>1. \/ cleanupFailed' = cleanupFailed
        \/ cleanupFailed' = [cleanupFailed EXCEPT ![r] = TRUE]
    BY ONLY <1>0 DEF Leak
  <2>2. cleanupFailed \in [Rank -> BOOLEAN]
    OBVIOUS
  <2>3. QED
    BY ONLY <2>1, <2>2
<1>1. ASSUME NEW leak, FreeHbm(r, leak) PROVE ProgramType' /\ WorkerInv(r)' /\ OthersKept(r)
  <2>1. pc[r] = "freehbm" /\ pc' = [pc EXCEPT ![r] = "arrive"] /\ UNCHANGED <<idx, prog, result, sig>>
    BY <1>1 DEF FreeHbm, Goto
  <2>2. ProgramType'
    BY <1>0, <1>1, <2>1 DEF FreeHbm, Step, Live, Trying
  <2>3. OthersKept(r)
    BY <2>1 DEF OthersKept
  <2>4. WorkerInv(r)'
    BY <2>1 DEF WorkerInv, BeforeToken, Importing, Forking, Trying
  <2>5. QED
    BY <2>2, <2>3, <2>4
<1>2. ASSUME NEW leak, CleanupSlot(r, leak) PROVE ProgramType' /\ WorkerInv(r)' /\ OthersKept(r)
  <2>1. "cleanup" \in Step /\ "cleanlocal" \in Step
    BY DEF Step, Live, Leaving
  <2>2. Loop(r, "cleanup", "cleanlocal")
    BY <1>2 DEF CleanupSlot
  <2>3. /\ pc' \in [Rank -> Step] /\ idx' \in [Rank -> Rank]
        /\ pc' = [pc EXCEPT ![r] = pc'[r]] /\ idx' = [idx EXCEPT ![r] = idx'[r]]
        /\ pc'[r] \in {"cleanup", "cleanlocal"}
    BY <2>1, <2>2, LoopProgram
  <2>4. ProgramType'
    <3>1. cleanupFailed' \in [Rank -> BOOLEAN]
      BY <1>0, <1>2 DEF CleanupSlot
    <3>2. QED
      BY <1>2, <2>3, <3>1 DEF CleanupSlot
  <2>5. OthersKept(r)
    BY <1>2, <2>3 DEF CleanupSlot, OthersKept
  <2>6. WorkerInv(r)'
    BY <1>2, <2>3 DEF CleanupSlot, WorkerInv, BeforeToken, Importing, Forking, Trying
  <2>7. QED
    BY <2>4, <2>5, <2>6
<1>3. ASSUME NEW leak, CleanupLocal(r, leak) PROVE ProgramType' /\ WorkerInv(r)' /\ OthersKept(r)
  <2>1. pc[r] = "cleanlocal" /\ pc' = [pc EXCEPT ![r] = "close"] /\ UNCHANGED <<idx, prog, result, sig>>
    BY <1>3 DEF CleanupLocal, Goto
  <2>2. ProgramType'
    BY <1>0, <1>3, <2>1 DEF CleanupLocal, Step, Live, Leaving
  <2>3. OthersKept(r)
    BY <2>1 DEF OthersKept
  <2>4. WorkerInv(r)'
    BY <2>1 DEF WorkerInv, BeforeToken, Importing, Forking, Trying
  <2>5. QED
    BY <2>2, <2>3, <2>4
<1> QED
  BY <1>1, <1>2, <1>3 DEF CleanupAct

LEMMA AcquireProgram ==
  ASSUME IInv, NEW r \in Rank, Acquires(r)
  PROVE  ProgramType' /\ WorkerInv(r)' /\ OthersKept(r)
<1> USE DEF IInv, TypeOK, ProgramType, prog, outcome, rest, Acquire, Goto,
            WorkerInv, OthersKept, BeforeToken, Importing, Step, Live, Forking, Trying
<1>1. CASE AclInit(r)
  BY <1>1 DEF AclInit
<1>2. CASE SetDevice(r)
  BY <1>2 DEF SetDevice
<1>3. CASE Reserve(r)
  BY <1>3 DEF Reserve
<1>4. CASE SetupHbm(r)
  BY <1>4 DEF SetupHbm
<1> QED
  BY <1>1, <1>2, <1>3, <1>4 DEF Acquires

LEMMA WorkProgram ==
  ASSUME IInv, NEW r \in Rank, Works(r)
  PROVE  ProgramType' /\ WorkerInv(r)' /\ OthersKept(r)
<1> USE DEF IInv, TypeOK, ProgramType, prog, res, outcome, rest
<1>1. CASE Create(r)
  BY <1>1 DEF Create, Goto, OthersKept, WorkerInv, BeforeToken, Importing,
              Step, Live, Forking, Trying
<1>2. CASE BeginWrite(r)
  BY <1>2 DEF BeginWrite, Goto, OthersKept, WorkerInv, BeforeToken, Importing,
              Step, Live, Forking, Trying
<1>3. CASE Ends(r)
  <2>1. PICK leak : Leak(r, leak)
    BY <1>3 DEF Ends, EndWrite
  <2>2. \/ cleanupFailed' = cleanupFailed
        \/ cleanupFailed' = [cleanupFailed EXCEPT ![r] = TRUE]
    BY ONLY <2>1 DEF Leak
  <2>3. cleanupFailed \in [Rank -> BOOLEAN]
    OBVIOUS
  <2>4. cleanupFailed' \in [Rank -> BOOLEAN]
    BY ONLY <2>2, <2>3
  <2>5. /\ pc[r] \in {"aio", "filling"} /\ pc' = [pc EXCEPT ![r] = "arrive"]
        /\ UNCHANGED <<idx, prog, result, sig>>
    BY <1>3 DEF Ends, EndWrite, Goto
  <2>6. ProgramType'
    BY <2>4, <2>5 DEF Step, Live, Trying
  <2>7. OthersKept(r)
    BY <2>5 DEF OthersKept
  <2>8. WorkerInv(r)'
    BY <2>5 DEF WorkerInv, BeforeToken, Importing, Forking, Trying
  <2>9. QED
    BY <2>6, <2>7, <2>8
<1>4. CASE Map(r) \/ Read(r) \/ Unmap(r)
  <2>1. PICK again \in {"receive", "read", "unmap"} :
          Loop(r, again, "arrive") /\ pc[r] = (IF again = "receive" THEN "map" ELSE again)
    BY <1>4 DEF Map, Read, Unmap, AfterUnmap
  <2>2. again \in Step /\ "arrive" \in Step
    BY DEF Step, Live, Trying
  <2>3. /\ pc' \in [Rank -> Step] /\ idx' \in [Rank -> Rank]
        /\ pc' = [pc EXCEPT ![r] = pc'[r]] /\ idx' = [idx EXCEPT ![r] = idx'[r]]
        /\ pc'[r] \in {again, "arrive"}
    BY <2>1, <2>2, LoopProgram
  <2>4. UNCHANGED <<phase, round, entered, returned, result, cleanupFailed, sig>>
    BY <1>4 DEF Map, Read, Unmap
  <2>5. ProgramType'
    BY <2>3, <2>4
  <2>6. OthersKept(r)
    BY <2>3, <2>4 DEF OthersKept
  <2>7. WorkerInv(r)'
    BY <2>1, <2>3, <2>4 DEF WorkerInv, BeforeToken, Importing, Forking, Trying
  <2>8. QED
    BY <2>5, <2>6, <2>7
<1> QED
  BY <1>1, <1>2, <1>3, <1>4 DEF Works

LEMMA TalkProgram ==
  ASSUME IInv, NEW r \in Rank, Talks(r)
  PROVE  ProgramType' /\ WorkerInv(r)' /\ OthersKept(r)
<1> USE DEF IInv, TypeOK, ProgramType, prog, res, outcome, rest
<1>1. CASE Export(r)
  BY <1>1, RankFacts DEF Export, Goto, OthersKept, WorkerInv, BeforeToken, Importing,
              Step, Live, Forking, Trying
<1>2. CASE ReceiveToken(r)
  BY <1>2, SMTT(20) DEF ReceiveToken, Goto, OthersKept, WorkerInv, BeforeToken, Importing,
              Step, Live, Forking, Trying
<1>3. CASE ImportThrows(r)
  BY <1>3, ThrowProgram DEF ImportThrows
<1>4. CASE Arrive(r)
  <2>1. entered[r] = returned[r] /\ returned[r] < Barriers
    BY <1>4 DEF Arrive, WorkerInv, Trying, Phase, Barriers
  <2>2. ProgramType'
    BY <1>4, <2>1 DEF Arrive, Goto, Step, Live, Trying, Barriers
  <2>3. OthersKept(r)
    BY <1>4 DEF Arrive, Goto, OthersKept
  <2>4. WorkerInv(r)'
    BY <1>4, <2>1 DEF Arrive, Goto, WorkerInv, BeforeToken, Importing, Forking, Trying
  <2>5. QED
    BY <2>2, <2>3, <2>4
<1>5. CASE Pass(r)
  <2>1. entered[r] = returned[r] + 1
    BY <1>5 DEF Pass, WorkerInv
  <2>2. /\ returned' = [returned EXCEPT ![r] = @ + 1]
        /\ UNCHANGED <<idx, entered, result, cleanupFailed, sig>>
    BY <1>5 DEF Pass
  <2>3. PICK ph \in Phase, q \in Step :
          /\ phase' = [phase EXCEPT ![r] = ph]
          /\ pc' = [pc EXCEPT ![r] = q]
          /\ \/ phase[r] = "import" /\ ph = "cpu" /\ q = "cpu" /\ UNCHANGED round
             \/ phase[r] = "cpu" /\ ph = "write" /\ q = "hbm" /\ UNCHANGED round
             \/ phase[r] = "write" /\ ph = "read" /\ q = "read" /\ UNCHANGED round
             \/ /\ phase[r] = "read" /\ round' = [round EXCEPT ![r] = @ + 1]
                /\ \/ round[r] + 1 < Rounds /\ ph = "write" /\ q = "fill"
                   \/ round[r] + 1 >= Rounds /\ ph = "free" /\ q = "freehbm"
             \/ phase[r] = "free" /\ ph = "unmap" /\ q = "unmap" /\ UNCHANGED round
             \/ phase[r] = "unmap" /\ ph = "final" /\ q = "cleanup" /\ UNCHANGED round
    <3>1. /\ {"cpu", "hbm", "fill", "read", "freehbm", "unmap", "cleanup"} \subseteq Step
          /\ Phase = {"import", "cpu", "write", "read", "free", "unmap", "final"}
      BY DEF Step, Live, Trying, Leaving, Phase
    <3>2. CASE phase[r] = "read"
      <4>1. CASE round[r] + 1 < Rounds
        BY <1>5, <3>1, <3>2, <4>1 DEF Pass, AfterBarrier, MoreRounds, Goto
      <4>2. CASE ~(round[r] + 1 < Rounds)
        <5>1. round[r] + 1 >= Rounds
          BY <4>2
        <5>2. QED
          BY <1>5, <3>1, <3>2, <4>2, <5>1 DEF Pass, AfterBarrier, MoreRounds, Goto
      <4>3. QED
        BY <4>1, <4>2
    <3>3. CASE phase[r] # "read"
      BY <1>5, <3>1, <3>3 DEF Pass, AfterBarrier, Goto
    <3>4. QED
      BY <3>2, <3>3
  <2>4. returned[r] + 1 \in 0 .. Barriers /\ pc[r] = "wait" /\ pc[r] \in Trying
    BY <1>5, <2>1 DEF Pass, Barriers, Trying
  <2>5. round' \in [Rank -> 0 .. Rounds] /\ (phase[r] = "read" => round[r] < Rounds)
    BY <2>3 DEF WorkerInv
  <2>6. ProgramType'
    BY <2>2, <2>3, <2>4, <2>5
  <2>7. OthersKept(r)
    BY <2>2, <2>3 DEF OthersKept
  <2>8. WorkerInv(r)'
    <3>1. /\ returned'[r] = returned[r] + 1 /\ entered'[r] = entered[r]
          /\ phase'[r] = ph /\ pc'[r] = q
          /\ phase[r] # "read" => round'[r] = round[r]
          /\ phase[r] = "read" => round'[r] = round[r] + 1
      BY <2>2, <2>3
    <3>2. QED
      BY <2>1, <2>3, <2>4, <2>5, <3>1
         DEF WorkerInv, BeforeToken, Importing, Forking, Trying
  <2>9. QED
    BY <2>6, <2>7, <2>8
<1> QED
  BY <1>1, <1>2, <1>3, <1>4, <1>5 DEF Talks

\* The program of every worker, whoever moves.
LEMMA ProgramStep == IInv /\ Next => ProgramType' /\ \A s \in Rank : WorkerInv(s)'
<1> SUFFICES ASSUME IInv, Next PROVE ProgramType' /\ \A s \in Rank : WorkerInv(s)'
  OBVIOUS
<1>1. ASSUME NEW r \in Rank, ProgramType', WorkerInv(r)', OthersKept(r)
      PROVE  ProgramType' /\ \A s \in Rank : WorkerInv(s)'
  BY <1>1, WorkerInvKept DEF IInv
<1>2. ASSUME NEW r \in Rank, Throws(r) PROVE Throw(r) /\ UNCHANGED <<prog, cleanupFailed, sig>>
  BY <1>2 DEF Throws, SendThrows, ReceiveThrows, UseThrows, WorkerFails, rest
<1>3. ASSUME NEW r \in Rank,
             Throws(r) \/ CleanupAct(r) \/ Silent(r) \/ Acquires(r) \/ Works(r) \/ Talks(r)
      PROVE  ProgramType' /\ \A s \in Rank : WorkerInv(s)'
  BY <1>1, <1>2, <1>3, ThrowProgram, CleanupProgram, SilentProgram, AcquireProgram,
     WorkProgram, TalkProgram
<1>4. CASE Fork
  <2> USE DEF IInv, TypeOK, ProgramType, prog, res, outcome
  <2>1. CASE cidx < N
    <3>1. PICK r \in Rank : r = cidx
      BY <2>1 DEF CoordType, Rank
    <3>2. pc[r] = "absent" /\ Goto(r, "forked") /\ UNCHANGED <<idx, prog, outcome, sig>>
      BY <1>4, <2>1, <3>1, RankFacts DEF CoordInv, CoordLoop, SocketInv, Serving, Starting, Fork
    <3>3. ProgramType'
      BY <3>1, <3>2 DEF Goto, Step, Live, Forking
    <3>4. OthersKept(r)
      BY <3>2 DEF Goto, OthersKept
    <3>5. WorkerInv(r)'
      BY <3>2 DEF Goto, WorkerInv, BeforeToken, Importing, Forking, Trying
    <3>6. QED
      BY <3>1, <3>3, <3>4, <3>5, <1>1
  <2>2. CASE ~(cidx < N)
    BY <1>4, <2>2 DEF Fork, WorkerInv
  <2>3. QED
    BY <2>1, <2>2
<1>5. CASE Serves \/ Stops \/ UNCHANGED vars
  <2>1. UNCHANGED workers /\ sig' \in [Rank -> BOOLEAN]
    <3>1. sig \in [Rank -> BOOLEAN]
      BY DEF IInv, TypeOK, ProgramType
    <3>2. CASE Serves
      BY ONLY <3>1, <3>2 DEF Serves, CollectToken, SendToken, Gather, Release
    <3>3. CASE Stops /\ ~KillChildren /\ ~CoordKilled
      BY ONLY <3>1, <3>3 DEF Stops, CoordThrows, CloseSockets, WaitChildren, CoordFails
    <3>4. CASE KillChildren \/ CoordKilled
      BY ONLY <3>1, <3>4 DEF KillChildren, CoordKilled
    <3>5. CASE UNCHANGED vars
      BY ONLY <3>1, <3>5 DEF vars
    <3>6. QED
      BY ONLY <1>5, <3>2, <3>3, <3>4, <3>5 DEF Stops
  <2>2. QED
    BY <2>1 DEF workers, prog, res, outcome, IInv, TypeOK, ProgramType, WorkerInv
<1> QED
  BY <1>3, <1>4, <1>5, Kinds DEF IInv

\* The coordinator's loop indices stay in range and the faults within budget.
LEMMA CoordTypeStep == IInv /\ Next => CoordType'
<1> SUFFICES ASSUME IInv, Next PROVE CoordType'
  OBVIOUS
<1> USE DEF IInv, TypeOK, CoordType, coord, loops, rest
<1>1. ASSUME NEW r \in Rank, Throws(r) \/ Silent(r)
      PROVE  CoordType'
  BY <1>1, SMTT(20) DEF Throws, SendThrows, ReceiveThrows, UseThrows, WorkerFails, Inject,
              Silent, ArmParentDeathSignal, CheckParent, Exec, ExecFails, CloseFd,
              Return, Die, WorkerKilled
<1>2. ASSUME NEW r \in Rank, CleanupAct(r) PROVE CoordType'
  <2>1. faults' \in 0 .. MaxFaults /\ UNCHANGED coord
    BY <1>2 DEF CleanupAct, FreeHbm, CleanupSlot, CleanupLocal, Leak
  <2>2. QED
    BY <2>1
<1>3. ASSUME NEW r \in Rank, Acquires(r) \/ Works(r) \/ Talks(r)
      PROVE  CoordType'
  <2>1. CASE Ends(r)
    <3>1. faults' \in 0 .. MaxFaults /\ UNCHANGED coord
      BY <2>1 DEF Ends, EndWrite, Leak
    <3>2. QED
      BY <3>1
  <2>2. CASE ~Ends(r)
    BY <1>3, <2>2 DEF Acquires, AclInit, SetDevice, Reserve, SetupHbm, Acquire,
                      Works, Create, Map, BeginWrite, Read, Unmap,
                      Talks, Export, ReceiveToken, ImportThrows, Arrive, Pass
  <2>3. QED
    BY <2>1, <2>2
<1>4. CASE Fork
  BY <1>4 DEF Fork
<1>5. CASE CollectToken
  <2>1. cidx \in Rank /\ up[cidx] \in Seq(Word) /\ up[cidx] # <<>>
    BY <1>5 DEF CollectToken, CoordInv, CoordLoop, SocketInv, Serving, Starting, Rank, ChannelType
  <2>2. tokens' \in Seq(Word)
    BY <1>5, <2>1 DEF CollectToken, PushBack
  <2>3. QED
    BY <1>5, <2>2 DEF CollectToken, NextSocket
<1>6. CASE SendToken
  BY <1>6 DEF SendToken, NextSocket, CoordInv, CoordLoop, SocketInv, Serving, Starting
<1>7. CASE Gather
  BY <1>7 DEF Gather, NextSocket, LastGathered
<1>8. CASE Release
  <2>1. cphase < Barriers /\ Barriers \in Nat
    BY <1>8 DEF Release, CoordInv, CoordLoop, SocketInv, Serving, Starting, Barriers
  <2>2. cphase' \in 0 .. Barriers
    BY <1>8, <2>1 DEF Release
  <2>3. QED
    BY <1>8, <2>2 DEF Release, NextSocket, MoreBarriers
<1>9. CASE Stops
  <2>1. CASE CoordThrows \/ KillChildren \/ CloseSockets
    BY <2>1 DEF CoordThrows, KillChildren, CloseSockets
  <2>2. CASE WaitChildren
    BY <2>2 DEF WaitChildren
  <2>3. CASE CoordFails \/ CoordKilled
    <3>1. /\ cpc' \in {"error", "dead"} /\ open' \in BOOLEAN
          /\ faults' = faults + 1 /\ faults < MaxFaults
          /\ UNCHANGED <<cidx, cword, cphase, tokens, cresult>>
      BY <2>3 DEF CoordFails, CoordKilled, Inject
    <3>2. QED
      BY <3>1
  <2>4. QED
    BY <1>9, <2>1, <2>2, <2>3 DEF Stops
<1>10. CASE UNCHANGED vars
  BY <1>10 DEF vars
<1> QED
  BY <1>1, <1>2, <1>3, <1>4, <1>5, <1>6, <1>7, <1>8, <1>9, <1>10, Kinds DEF Serves
-----------------------------------------------------------------------------
\* Sequences.
LEMMA Queues ==
  ASSUME NEW S, NEW q \in Seq(S)
  PROVE  /\ Len(q) \in Nat /\ (Len(q) = 0 <=> q = <<>>)
         /\ \A e \in S : Append(q, e) \in Seq(S) /\ Len(Append(q, e)) = Len(q) + 1
         /\ q # <<>> => Head(q) \in S /\ Tail(q) \in Seq(S) /\ Len(Tail(q)) = Len(q) - 1
  OBVIOUS

LEMMA Singletons ==
  ASSUME NEW e
  PROVE  /\ <<e>> # <<>> /\ Len(<<e>>) = 1 /\ Head(<<e>>) = e
         /\ Tail(<<e>>) = <<>> /\ Append(<<>>, e) = <<e>>
  OBVIOUS

LEMMA NoSyncAmongTokens == \A q \in Seq(Rank) : q # <<Sync>>
<1>1. Sync \notin Rank
  BY RankFacts DEF Sync
<1>2. ASSUME NEW q \in Seq(Rank), q = <<Sync>> PROVE FALSE
  <2>1. Head(q) \in Rank
    BY <1>2, Queues
  <2>2. Head(q) = Sync
    BY <1>2, Singletons
  <2>3. QED
    BY <1>1, <2>1, <2>2
<1> QED
  BY <1>2

\* A worker moves without touching its socket.
PcMove(r) ==
  /\ \A s \in Rank \ {r} : pc'[s] = pc[s] /\ idx'[s] = idx[s]
  /\ pc[r] # "absent" /\ pc'[r] # "absent"
  /\ pc[r] \in Leaving \cup Gone => pc'[r] \in Leaving \cup Gone
  /\ pc'[r] \in BeforeToken => pc[r] \in BeforeToken
  /\ pc'[r] \in BeforeToken \cup Trying =>
       pc[r] \in BeforeToken \cup Trying /\ TokensTaken(r)' = TokensTaken(r)

LEMMA SilentMove ==
  ASSUME TypeOK, NEW r \in Rank, Silent(r) PROVE PcMove(r)
<1> USE DEF TypeOK, ProgramType, Goto, PcMove, TokensTaken, BeforeToken, Forking, Trying,
            Leaving, Gone, Live
<1>1. CASE ArmParentDeathSignal(r) \/ CheckParent(r) \/ Exec(r)
  BY <1>1 DEF ArmParentDeathSignal, CheckParent, Exec
<1>2. CASE ExecFails(r) \/ CloseFd(r) \/ Return(r)
  BY <1>2 DEF ExecFails, CloseFd, Return
<1>3. CASE Die(r) \/ WorkerKilled(r)
  BY <1>3 DEF Die, WorkerKilled
<1> QED
  BY <1>1, <1>2, <1>3 DEF Silent

LEMMA ThrowMove ==
  ASSUME TypeOK, NEW r \in Rank, Throw(r), pc[r] \in Trying PROVE PcMove(r)
BY DEF TypeOK, ProgramType, Throw, Goto, PcMove, BeforeToken, Forking, Trying, Leaving, Gone

LEMMA CleanupMove ==
  ASSUME TypeOK, NEW r \in Rank, CleanupAct(r) PROVE PcMove(r)
<1> USE DEF TypeOK, ProgramType, Goto, PcMove, TokensTaken, BeforeToken, Forking, Trying,
            Leaving, Gone
<1>1. ASSUME NEW leak, FreeHbm(r, leak) PROVE PcMove(r)
  BY <1>1 DEF FreeHbm
<1>2. ASSUME NEW leak, CleanupSlot(r, leak) PROVE PcMove(r)
  BY <1>2 DEF CleanupSlot, Loop
<1>3. ASSUME NEW leak, CleanupLocal(r, leak) PROVE PcMove(r)
  BY <1>3 DEF CleanupLocal
<1> QED
  BY <1>1, <1>2, <1>3 DEF CleanupAct

LEMMA AcquireMove ==
  ASSUME TypeOK, NEW r \in Rank, Acquires(r) PROVE PcMove(r)
BY DEF TypeOK, ProgramType, Goto, PcMove, TokensTaken, BeforeToken, Forking, Trying,
       Leaving, Gone, Acquires, Acquire, AclInit, SetDevice, Reserve, SetupHbm

LEMMA WorkMove ==
  ASSUME IInv, NEW r \in Rank, Works(r) PROVE PcMove(r)
<1> USE DEF IInv, TypeOK, ProgramType, Goto, PcMove, TokensTaken, BeforeToken, Forking, Trying,
            Leaving, Gone
<1>1. CASE Create(r) \/ BeginWrite(r)
  BY <1>1 DEF Create, BeginWrite
<1>2. CASE Ends(r)
  BY <1>2 DEF Ends, EndWrite
<1>3. CASE Map(r)
  <2>1. CASE idx[r] + 1 < N
    BY <1>3, <2>1, RankFacts DEF Map, Loop
  <2>2. CASE ~(idx[r] + 1 < N)
    <3>1. idx[r] + 1 = N
      BY <2>2, RankFacts
    <3>2. QED
      BY <1>3, <2>2, <3>1 DEF Map, Loop
  <2>3. QED
    BY <2>1, <2>2
<1>4. CASE Read(r) \/ Unmap(r)
  BY <1>4 DEF Read, Unmap, AfterUnmap, Loop
<1> QED
  BY <1>1, <1>2, <1>3, <1>4 DEF Works

\* Such a move keeps CoordInv.
LEMMA PcMoveKeepsCoordInv ==
  ASSUME IInv, NEW r \in Rank, PcMove(r), UNCHANGED <<up, down, entered, returned, cpc, loops>>
  PROVE  CoordInv'
<1> USE DEF loops
<1>1. \A s \in Rank : TokensSent(s)' = TokensSent(s)
  BY DEF TokensSent
<1>2. \A s \in Rank \ {r} : TokensTaken(s)' = TokensTaken(s) /\ pc'[s] = pc[s]
  BY DEF TokensTaken, PcMove
<1> QED
  BY <1>1, <1>2 DEF IInv, CoordInv, CoordLoop, SocketInv, PcMove, Exchanged

-----------------------------------------------------------------------------
\* A worker uses its socket: the other sockets are as before.
LEMMA OtherSockets ==
  ASSUME CoordInv, cpc \in Serving, NEW r \in Rank, OthersKept(r),
         UNCHANGED <<cpc, loops>>,
         \A s \in Rank \ {r} : up'[s] = up[s] /\ down'[s] = down[s],
         SocketInv(r)'
  PROVE  CoordInv'
<1>1. ASSUME NEW s \in Rank \ {r} PROVE SocketInv(s)'
  <2>1. TokensSent(s)' = TokensSent(s) /\ TokensTaken(s)' = TokensTaken(s)
    BY DEF TokensSent, TokensTaken, OthersKept, loops
  <2>2. SocketInv(s)
    BY DEF CoordInv
  <2>3. QED
    BY <2>1, <2>2 DEF SocketInv, OthersKept, Exchanged, loops
<1>2. CoordLoop'
  BY DEF CoordInv, CoordLoop, loops
<1> QED
  BY <1>1, <1>2 DEF CoordInv

LEMMA ExportKeepsCoordInv ==
  ASSUME IInv, NEW r \in Rank, Export(r), cpc \in Serving PROVE CoordInv'
<1> USE DEF IInv, TypeOK, ProgramType, ChannelType
<1>1. /\ pc[r] = "export" /\ pc'[r] = "receive" /\ idx'[r] = 0
      /\ UNCHANGED <<phase, round, entered, returned, down, cpc, loops>>
  BY DEF Export, Goto, prog, coord
<1>2. SocketInv(r) /\ entered[r] = 0 /\ up[r] = <<>>
  BY <1>1 DEF CoordInv, SocketInv, BeforeToken, WorkerInv
<1>3. up' = [up EXCEPT ![r] = <<r>>]
  BY <1>2, Singletons DEF Export, SendUp, OwnHandle
<1>4. TokensTaken(r) = 0 /\ TokensTaken(r)' = 0 /\ TokensSent(r)' = TokensSent(r)
  BY <1>1 DEF TokensTaken, TokensSent, BeforeToken, Forking, loops
<1>5. r # Sync /\ <<r>> # <<Sync>> /\ <<r>> # <<>>
  BY RankFacts, Singletons DEF Sync
<1>6. cpc \in {"fork", "tokens"} /\ ~(cpc = "tokens" /\ r < cidx)
  BY <1>1, <1>2 DEF SocketInv, BeforeToken, Serving, Starting
<1>7. SocketInv(r)'
  BY <1>1, <1>2, <1>3, <1>4, <1>5, <1>6
     DEF SocketInv, Exchanged, BeforeToken, Forking, Trying, loops
<1>8. OthersKept(r) /\ \A s \in Rank \ {r} : up'[s] = up[s] /\ down'[s] = down[s]
  BY <1>1, <1>3 DEF OthersKept, Export, Goto
<1> QED
  BY <1>1, <1>7, <1>8, OtherSockets

LEMMA ReceiveKeepsCoordInv ==
  ASSUME IInv, NEW r \in Rank, ReceiveToken(r) \/ ImportThrows(r), cpc \in Serving
  PROVE  CoordInv'
<1> USE DEF IInv, TypeOK, ProgramType, ChannelType
<1>1. /\ pc[r] = "receive" /\ down[r] # <<>> /\ down' = [down EXCEPT ![r] = Tail(@)]
      /\ UNCHANGED <<phase, round, entered, returned, up, cpc, loops>>
  BY DEF ReceiveToken, ImportThrows, prog, coord, rest
<1>2. /\ \/ pc'[r] = "map" /\ idx'[r] = idx[r]
         \/ pc'[r] = "cleanup"
      /\ \A s \in Rank \ {r} : pc'[s] = pc[s] /\ idx'[s] = idx[s]
  <2>1. CASE ReceiveToken(r)
    BY <2>1 DEF ReceiveToken, Goto
  <2>2. CASE ImportThrows(r)
    BY <2>2 DEF ImportThrows, Throw, Goto
  <2>3. QED
    BY <2>1, <2>2
<1>3. SocketInv(r) /\ entered[r] = 0
  BY <1>1 DEF CoordInv, WorkerInv, Trying, Importing
<1>4. Len(down'[r]) = Len(down[r]) - 1 /\ Len(down[r]) \in Nat
  BY <1>1, Queues
<1>5. TokensTaken(r) = idx[r] /\ TokensSent(r)' = TokensSent(r) /\ idx[r] \in Int
      /\ (pc'[r] = "map" => TokensTaken(r)' = idx[r] + 1)
  BY <1>1, <1>2, RankFacts DEF TokensTaken, TokensSent, BeforeToken, Forking, loops
<1>6. down[r] # <<Sync>> /\ down'[r] # <<Sync>>
  <2>1. entered[r] = returned[r]
    BY <1>1 DEF WorkerInv, Trying
  <2>2. down[r] \in Seq(Rank)
    <3>1. ReleaseInv(r) /\ returned[r] \in Int
      OBVIOUS
    <3>2. QED
      BY <2>1, <3>1 DEF ReleaseInv
  <2>3. down'[r] \in Seq(Rank)
    BY <1>1, <2>2, Queues
  <2>4. QED
    BY <2>2, <2>3, NoSyncAmongTokens
<1>7. SocketInv(r)'
  <2>1. pc'[r] \in {"map", "cleanup"}
    BY <1>2
  <2>2. pc'[r] \notin BeforeToken /\ pc'[r] # "absent" /\ (pc'[r] \in Trying => pc'[r] = "map")
    BY <2>1 DEF BeforeToken, Forking, Trying
  <2>3. entered'[r] = 0 /\ up'[r] = up[r] /\ TokensSent(r)' = TokensSent(r)
    BY <1>1, <1>3, <1>5
  <2>4. pc'[r] = "map" => TokensTaken(r)' + Len(down'[r]) = TokensSent(r)'
    BY <1>1, <1>3, <1>4, <1>5 DEF SocketInv, Trying
  <2>5. (Exchanged(r, cphase + Bit(cpc = "release" \/ (cpc = "gather" /\ r < cidx)),
                      cphase + Bit(cpc = "release" /\ r < cidx)))'
    BY <1>1, <1>3, <1>6 DEF SocketInv, Exchanged, loops
  <2>6. pc[r] \notin BeforeToken
    BY <1>1 DEF BeforeToken, Forking
  <2>7. QED
    BY <1>1, <1>3, <2>2, <2>3, <2>4, <2>5, <2>6 DEF SocketInv, loops
<1>8. OthersKept(r) /\ \A s \in Rank \ {r} : up'[s] = up[s] /\ down'[s] = down[s]
  BY <1>1, <1>2 DEF OthersKept
<1> QED
  BY <1>1, <1>7, <1>8, OtherSockets

\* The words gathered from, and released to, worker r.
Gathered(r) == cphase + Bit(cpc = "release" \/ (cpc = "gather" /\ r < cidx))
Released(r) == cphase + Bit(cpc = "release" /\ r < cidx)

LEMMA Counts ==
  ASSUME IInv, cpc \in Serving
  PROVE  \A r \in Rank :
           /\ Gathered(r) \in Nat /\ Released(r) \in Nat
           /\ \A s \in Rank : Released(r) <= Gathered(s)
           /\ entered[r] = IF up[r] = <<Sync>> THEN Gathered(r) + 1 ELSE Gathered(r)
           /\ returned[r] = IF down[r] = <<Sync>> THEN Released(r) - 1 ELSE Released(r)
           /\ returned[r] <= Released(r)
<1> USE DEF IInv, TypeOK, CoordType, Gathered, Released, Bit
<1>1. cphase \in Nat /\ cidx \in Int
  BY DEF Barriers
<1>2. ASSUME NEW r \in Rank
      PROVE  /\ entered[r] = IF up[r] = <<Sync>> THEN Gathered(r) + 1 ELSE Gathered(r)
             /\ returned[r] = IF down[r] = <<Sync>> THEN Released(r) - 1 ELSE Released(r)
  BY DEF CoordInv, SocketInv, Exchanged
<1>3. QED
  BY <1>1, <1>2, RankFacts

LEMMA ArriveKeepsCoordInv ==
  ASSUME IInv, NEW r \in Rank, Arrive(r), cpc \in Serving PROVE CoordInv'
<1> USE DEF IInv, TypeOK, ProgramType, ChannelType
<1>1. /\ pc[r] = "arrive" /\ pc' = [pc EXCEPT ![r] = "wait"]
      /\ entered' = [entered EXCEPT ![r] = @ + 1]
      /\ UNCHANGED <<idx, phase, round, returned, down, cpc, loops>>
  BY DEF Arrive, Goto, coord
<1>2. SocketInv(r) /\ entered[r] = returned[r] /\ entered[r] \in Int /\ 0 <= entered[r]
  BY <1>1 DEF CoordInv, WorkerInv, Trying
<1>3. up[r] = <<>>
  <2>1. up[r] # <<Sync>>
    <3>1. PICK g \in Nat, l \in Nat :
            /\ g = Gathered(r) /\ l = Released(r) /\ l <= g /\ returned[r] <= l
            /\ up[r] = <<Sync>> => entered[r] = g + 1
      BY Counts
    <3>2. QED
      BY <1>2, <3>1
  <2>2. up[r] # <<r>>
    <3>1. SUFFICES ASSUME up[r] = <<r>> PROVE FALSE
      OBVIOUS
    <3>2. TokensSent(r) = 0 /\ TokensTaken(r) = N
      BY <1>1, <1>2, <3>1 DEF SocketInv, TokensSent, TokensTaken, BeforeToken, Forking
    <3>3. entered[r] > 0 \/ entered[r] = 0
      BY <1>2
    <3>4. Len(down[r]) \in Nat
      BY Queues
    <3>5. pc[r] \in Trying
      BY <1>1 DEF Trying
    <3>6. QED
      BY <1>2, <3>2, <3>3, <3>4, <3>5 DEF SocketInv
  <2>3. QED
    BY <1>2, <2>1, <2>2 DEF SocketInv
<1>4. up' = [up EXCEPT ![r] = <<Sync>>]
  BY <1>3, Singletons DEF Arrive, SendUp
<1>5. TokensSent(r) = N /\ down[r] \in {<<>>, <<Sync>>} /\ TokensSent(r)' = TokensSent(r)
  <2>1. pc[r] \in Trying /\ TokensTaken(r) = N
    BY <1>1 DEF Trying, TokensTaken, BeforeToken, Forking
  <2>2. Len(down[r]) \in Nat /\ (Len(down[r]) = 0 <=> down[r] = <<>>)
    BY Queues
  <2>3. TokensSent(r) <= N /\ TokensSent(r) \in Int
    BY DEF TokensSent, CoordInv, CoordLoop, CoordType
  <2>4. TokensSent(r)' = TokensSent(r)
    BY <1>1 DEF TokensSent, loops
  <2>5. CASE entered[r] = 0
    <3>1. N + Len(down[r]) = TokensSent(r)
      BY <1>2, <2>1, <2>5 DEF SocketInv
    <3>2. Len(down[r]) = 0 /\ TokensSent(r) = N
      BY ONLY NAssumption, <2>2, <2>3, <3>1
    <3>3. down[r] = <<>>
      BY <2>2, <3>2
    <3>4. QED
      BY <2>4, <3>2, <3>3
  <2>6. CASE entered[r] > 0
    BY <1>2, <2>4, <2>6 DEF SocketInv
  <2>7. QED
    BY <1>2, <2>5, <2>6
<1>6. r # Sync /\ <<r>> # <<Sync>> /\ <<Sync>> # <<>>
  BY RankFacts, Singletons DEF Sync
<1>7. SocketInv(r)'
  <2>1. pc'[r] = "wait" /\ pc'[r] \notin BeforeToken /\ pc[r] \notin BeforeToken
    BY <1>1 DEF BeforeToken, Forking
  <2>2. up'[r] = <<Sync>> /\ entered'[r] = entered[r] + 1 /\ entered'[r] > 0
    BY <1>1, <1>2, <1>4
  <2>3. cpc = "tokens" => ~(r < cidx)
    BY <1>5, RankFacts DEF TokensSent
  <2>4. (Exchanged(r, cphase + Bit(cpc = "release" \/ (cpc = "gather" /\ r < cidx)),
                      cphase + Bit(cpc = "release" /\ r < cidx)))'
    BY <1>1, <1>2, <1>3, <1>6, <2>2 DEF SocketInv, Exchanged, loops
  <2>5. QED
    BY <1>1, <1>2, <1>5, <1>6, <2>1, <2>2, <2>3, <2>4 DEF SocketInv, loops
<1>8. OthersKept(r) /\ \A s \in Rank \ {r} : up'[s] = up[s] /\ down'[s] = down[s]
  BY <1>1, <1>4 DEF OthersKept
<1> QED
  BY <1>1, <1>7, <1>8, OtherSockets

LEMMA PassKeepsCoordInv ==
  ASSUME IInv, NEW r \in Rank, Pass(r), cpc \in Serving PROVE CoordInv'
<1> USE DEF IInv, TypeOK, ProgramType, ChannelType
<1>1. /\ pc[r] = "wait" /\ returned' = [returned EXCEPT ![r] = @ + 1]
      /\ down[r] # <<>> /\ Head(down[r]) = Sync /\ down' = [down EXCEPT ![r] = Tail(@)]
      /\ UNCHANGED <<idx, entered, up, cpc, loops>>
  BY DEF Pass, coord
<1>2. down[r] = <<Sync>> /\ down' = [down EXCEPT ![r] = <<>>]
  <2>1. down[r] \notin Seq(Rank)
    <3>1. Sync \notin Rank
      BY RankFacts DEF Sync
    <3>2. down[r] \in Seq(Rank) => Head(down[r]) \in Rank
      BY <1>1, Queues
    <3>3. QED
      BY <1>1, <3>1, <3>2
  <2>2. QED
    BY <1>1, <2>1, Singletons DEF ReleaseInv
<1>3. SocketInv(r) /\ entered[r] > 0
  BY <1>1 DEF CoordInv, WorkerInv
<1>4. OthersKept(r)
  BY TalkProgram DEF Talks
<1>5. pc'[r] \notin BeforeToken /\ pc[r] \notin BeforeToken /\ pc'[r] # "absent"
  <2>1. pc'[r] \in {"cpu", "hbm", "read", "fill", "freehbm", "unmap", "cleanup"}
    BY DEF Pass, AfterBarrier, Goto
  <2>2. QED
    BY <1>1, <2>1 DEF BeforeToken, Forking
<1>6. SocketInv(r)'
  <2>1. returned'[r] = returned[r] + 1 /\ down'[r] = <<>> /\ <<Sync>> # <<>>
    BY <1>1, <1>2, Singletons
  <2>2. (Exchanged(r, cphase + Bit(cpc = "release" \/ (cpc = "gather" /\ r < cidx)),
                      cphase + Bit(cpc = "release" /\ r < cidx)))'
    BY <1>1, <1>2, <1>3, <2>1, Counts, SMTT(20)
       DEF SocketInv, Exchanged, loops, Released
  <2>3. TokensSent(r)' = TokensSent(r)
    BY <1>1 DEF TokensSent, loops
  <2>4. QED
    BY <1>1, <1>3, <1>5, <2>1, <2>2, <2>3 DEF SocketInv, loops
<1> QED
  BY <1>1, <1>2, <1>4, <1>6, OtherSockets

-----------------------------------------------------------------------------
\* The coordinator uses the socket of worker r.
LEMMA ForkKeepsCoordInv ==
  ASSUME IInv, Fork PROVE CoordInv'
<1>0. pc \in [Rank -> Step] /\ cidx \in 0 .. N /\ cidx \in Int /\ N \in Int
  BY NAssumption DEF IInv, TypeOK, ProgramType, CoordType
<1>1. cpc = "fork" /\ CoordLoop /\ \A r \in Rank : SocketInv(r)
  BY DEF Fork, IInv, CoordInv, Serving, Starting
<1>2. UNCHANGED <<idx, entered, returned, up, down, cword, cphase, tokens>>
  BY DEF Fork, prog
<1>3. \A r \in Rank : TokensSent(r) = 0 /\ TokensSent(r)' = 0
  BY <1>1 DEF TokensSent, Fork
<1>4. CoordLoop'
  BY <1>1, <1>2 DEF CoordLoop, Fork, Starting
<1>5. CASE cidx < N
  <2>1. PICK c \in Rank : c = cidx
    BY <1>0, <1>5 DEF Rank
  <2>0. pc[c] = "absent"
    <3>1. cidx <= c
      BY ONLY <2>1, RankFacts
    <3>2. QED
      BY <1>1, <3>1 DEF SocketInv
  <2>2. pc[c] = "absent" /\ pc' = [pc EXCEPT ![c] = "forked"] /\ cpc' = "fork" /\ cidx' = c + 1
    BY <1>1, <1>5, <2>0, <2>1 DEF Fork, Goto
  <2>3. ASSUME NEW s \in Rank PROVE SocketInv(s)'
    <3>1. TokensTaken(s)' = TokensTaken(s)
      <4>1. pc'[s] = pc[s] \/ (pc[s] = "absent" /\ pc'[s] = "forked")
        BY ONLY <1>0, <2>2
      <4>2. QED
        BY ONLY <1>2, <4>1 DEF TokensTaken, BeforeToken, Forking
    <3>2. SocketInv(s)
      BY <1>1
    <3>3. CASE s = c
      <4>1. pc'[s] = "forked" /\ pc[s] = "absent"
        BY ONLY <1>0, <2>2, <3>3
      <4>2. ~(c + 1 <= c)
        BY ONLY RankFacts
      <4>3. ~(cidx' <= s)
        BY ONLY <2>2, <3>3, <4>2
      <4>4. QED
        BY ONLY <1>1, <1>2, <1>3, <2>2, <3>1, <3>2, <4>1, <4>3
           DEF SocketInv, Exchanged, BeforeToken, Forking, Trying
    <3>4. CASE s # c
      <4>1. pc'[s] = pc[s]
        BY <2>2, <3>4
      <4>2. c + 1 <= s <=> c <= s
        BY ONLY <3>4, RankFacts
      <4>3. cidx' <= s <=> cidx <= s
        BY ONLY <2>1, <2>2, <4>2
      <4>4. QED
        BY <1>1, <1>2, <1>3, <2>2, <3>1, <3>2, <4>1, <4>3 DEF SocketInv, Exchanged
    <3>5. QED
      BY <3>3, <3>4
  <2>4. QED
    BY <1>4, <2>3 DEF CoordInv
<1>6. CASE ~(cidx < N)
  <2>1. UNCHANGED pc /\ cpc' = "tokens" /\ cidx' = 0
    BY <1>6 DEF Fork
  <2>2. ASSUME NEW s \in Rank PROVE SocketInv(s)'
    <3>1. TokensTaken(s)' = TokensTaken(s)
      BY <1>2, <2>1 DEF TokensTaken
    <3>2. pc[s] # "absent"
      <4>1. ~(cidx <= s)
        BY ONLY <1>0, <1>6, RankFacts
      <4>2. QED
        BY ONLY <1>1, <4>1 DEF SocketInv
    <3>3. ~(s < cidx') /\ SocketInv(s)
      BY <1>1, <2>1, RankFacts
    <3>4. QED
      BY <1>1, <1>2, <1>3, <2>1, <3>1, <3>2, <3>3 DEF SocketInv, Exchanged
  <2>3. QED
    BY <1>4, <2>2 DEF CoordInv
<1> QED
  BY <1>5, <1>6

LEMMA CollectKeepsCoordInv ==
  ASSUME IInv, CollectToken PROVE CoordInv'
<1> USE DEF IInv, TypeOK, ProgramType, ChannelType, CoordType
<1>1. cpc = "tokens" /\ CoordLoop /\ \A r \in Rank : SocketInv(r)
  BY DEF CollectToken, CoordInv, Serving, Starting
<1>2. PICK c \in Rank : c = cidx
  BY <1>1 DEF CoordLoop, Rank
<1>3. UNCHANGED <<pc, idx, entered, returned, down, cword, cphase>>
  BY DEF CollectToken, workers, prog
<1>4. up[c] = <<c>> /\ up' = [up EXCEPT ![c] = <<>>] /\ tokens' = Append(tokens, c)
      /\ pc[c] \notin BeforeToken
  <2>1. up[c] # <<Sync>>
    <3>1. TokensSent(c) = 0 /\ N # 0
      BY ONLY <1>1, NAssumption DEF TokensSent
    <3>2. cphase = 0 /\ Gathered(c) = 0
      BY ONLY <1>1 DEF Gathered, Bit, CoordLoop, Starting
    <3>3. SocketInv(c)
      BY <1>1, <1>2
    <3>4. entered[c] = (IF up[c] = <<Sync>> THEN Gathered(c) + 1 ELSE Gathered(c))
      BY <1>1, <1>2, Counts DEF Serving, Starting
    <3>5. ~(entered[c] > 0)
      BY ONLY <3>1, <3>3 DEF SocketInv
    <3>6. QED
      BY ONLY <3>2, <3>4, <3>5
  <2>2. up[c] = <<c>>
    BY <1>1, <1>2, <2>1 DEF SocketInv, CollectToken
  <2>3. pc[c] \notin BeforeToken
    BY <1>1, <2>2, Singletons DEF SocketInv
  <2>4. QED
    BY <1>2, <2>2, <2>3, Singletons DEF CollectToken, PushBack
<1>5. CoordLoop'
  <2>1. tokens' \in Seq(Rank) /\ Len(tokens') = Len(tokens) + 1
    BY <1>1, <1>4, Queues DEF CoordLoop
  <2>2. cword = 0 /\ cphase = 0 /\ Len(tokens) = cidx
    BY <1>1 DEF CoordLoop, Starting
  <2>3. CASE cidx < N-1
    BY <1>2, <1>3, <2>1, <2>2, <2>3, RankFacts DEF CoordLoop, CollectToken, NextSocket, Starting
  <2>4. CASE ~(cidx < N-1)
    <3>1. cidx = N-1
      BY <1>2, <2>4, RankFacts
    <3>2. QED
      BY <1>2, <1>3, <2>1, <2>2, <2>4, <3>1, RankFacts
         DEF CoordLoop, CollectToken, NextSocket, Starting
  <2>5. QED
    BY <2>3, <2>4
<1> HIDE DEF IInv, TypeOK, ProgramType, ChannelType, CoordType
<1>6. ASSUME NEW s \in Rank PROVE SocketInv(s)'
  <2>1. TokensTaken(s)' = TokensTaken(s) /\ TokensSent(s) = 0 /\ TokensSent(s)' = 0
    <3>1. TokensTaken(s)' = TokensTaken(s)
      BY <1>3 DEF TokensTaken
    <3>2. cword = 0
      BY <1>1 DEF CoordLoop
    <3>3. cpc' = "tokens" \/ (cpc' = "bcast" /\ cidx' = 0 /\ cword' = 0)
      BY ONLY <1>1, <1>3, <3>2, CollectToken DEF CollectToken, NextSocket
    <3>4. ~(s < 0)
      BY RankOrder
    <3>5. TokensSent(s) = 0
      BY ONLY <1>1 DEF TokensSent
    <3>6. TokensSent(s)' = 0
      BY ONLY <3>3, <3>4 DEF TokensSent
    <3>7. QED
      BY <3>1, <3>5, <3>6
  <2>2. /\ SocketInv(s)
        /\ pc'[s] = pc[s] /\ entered'[s] = entered[s] /\ returned'[s] = returned[s]
        /\ down'[s] = down[s] /\ idx'[s] = idx[s] /\ cphase' = cphase
    BY <1>1, <1>3
  <2>3. \/ cpc' = "tokens" /\ cidx' = c + 1
        \/ cpc' = "bcast" /\ cidx' = 0 /\ cidx = N-1
    BY ONLY <1>1, <1>2, RankOrder, CollectToken DEF CollectToken, NextSocket
  <2>4. IF s = c THEN up'[s] = <<>> ELSE up'[s] = up[s]
    BY <1>4 DEF IInv, TypeOK, ChannelType
  <2>5. s < c + 1 => s < c \/ s = c
    BY <1>2, RankOrder
  <2>6. s < N-1 \/ s = N-1
    BY RankOrder
  <2>7. pc[s] # "absent" /\ (pc[s] \notin BeforeToken \/ s # c)
    BY <1>1, <1>4, <2>2 DEF SocketInv
  <2>8. cpc = "tokens" /\ <<Sync>> # <<>> /\ <<s>> # <<>>
    BY <1>1, Singletons
  <2>9. s # c \/ ~(up[s] = <<Sync>>)
    BY <1>2, <1>4, Singletons, RankFacts DEF Sync
  <2>10. (Exchanged(s, cphase + Bit(cpc = "release" \/ (cpc = "gather" /\ s < cidx)),
                      cphase + Bit(cpc = "release" /\ s < cidx)))'
    BY <1>2, <2>2, <2>3, <2>4, <2>8, <2>9 DEF SocketInv, Exchanged, Bit
  <2>11. QED
    BY ONLY <1>2, <1>4, <2>1, <2>2, <2>3, <2>4, <2>5, <2>6, <2>7, <2>8, <2>10 DEF SocketInv
<1> QED
  BY <1>5, <1>6 DEF CoordInv

\* After the tokens are collected, what the coordinator must keep about a socket.
Exchanging == {"bcast", "gather", "release"}

LEMMA ServedSocket ==
  ASSUME CoordInv, cpc \in Exchanging, cpc' \in Exchanging, NEW s \in Rank,
         UNCHANGED <<pc, idx, entered, returned>>, up'[s] \in {up[s], <<>>},
         entered[s] > 0 => TokensSent(s)' = N /\ down'[s] \in {<<>>, <<Sync>>},
         pc[s] \in BeforeToken \cup Trying /\ entered[s] = 0 =>
           TokensTaken(s) + Len(down'[s]) = TokensSent(s)',
         Exchanged(s, Gathered(s), Released(s))'
  PROVE  SocketInv(s)'
<1>1. SocketInv(s)
  BY DEF CoordInv, Exchanging, Serving, Starting
<1>2. pc[s] \notin BeforeToken /\ pc[s] # "absent" /\ up[s] \in {<<>>, <<Sync>>}
  BY <1>1 DEF SocketInv, Exchanging, BeforeToken
<1>3. /\ pc'[s] = pc[s] /\ entered'[s] = entered[s] /\ returned'[s] = returned[s]
      /\ TokensTaken(s)' = TokensTaken(s) /\ up'[s] \in {<<>>, <<Sync>>}
  BY <1>2 DEF TokensTaken
<1>4. (Exchanged(s, cphase + Bit(cpc = "release" \/ (cpc = "gather" /\ s < cidx)),
                    cphase + Bit(cpc = "release" /\ s < cidx)))'
  BY DEF Gathered, Released
<1>5. <<s>> # <<>> /\ <<s>> # <<Sync>>
  BY RankFacts, Singletons DEF Sync
<1>6. cpc' \notin {"fork", "tokens"}
  BY DEF Exchanging
<1> QED
  BY <1>2, <1>3, <1>4, <1>5, <1>6 DEF SocketInv

LEMMA UnservedSocket ==
  ASSUME CoordInv, cpc \in Exchanging, cpc' \in Exchanging, NEW s \in Rank,
         UNCHANGED <<pc, idx, entered, returned>>, up'[s] = up[s], down'[s] = down[s],
         TokensSent(s)' = TokensSent(s),
         Gathered(s)' = Gathered(s), Released(s)' = Released(s)
  PROVE  SocketInv(s)'
<1>1. SocketInv(s)
  BY DEF CoordInv, Exchanging, Serving, Starting
<1>2. Exchanged(s, Gathered(s), Released(s))'
  BY <1>1 DEF SocketInv, Exchanged, Gathered, Released
<1>3. /\ entered[s] > 0 => TokensSent(s)' = N /\ down'[s] \in {<<>>, <<Sync>>}
      /\ pc[s] \in BeforeToken \cup Trying /\ entered[s] = 0 =>
           TokensTaken(s) + Len(down'[s]) = TokensSent(s)'
  BY <1>1 DEF SocketInv
<1> QED
  BY <1>2, <1>3, ServedSocket

LEMMA SendTokenKeepsCoordInv ==
  ASSUME IInv, SendToken
  PROVE  /\ CoordInv'
         /\ \E c \in Rank, q \in Seq(Rank) : down' = [down EXCEPT ![c] = q]
<1>1. cpc = "bcast" /\ CoordLoop /\ \A r \in Rank : SocketInv(r)
  BY DEF SendToken, IInv, CoordInv, Serving, Starting
<1>2. PICK c \in Rank : c = cidx
  BY <1>1 DEF CoordLoop, Rank, IInv, TypeOK, CoordType
<1>3. UNCHANGED <<pc, idx, entered, returned, up, cphase, tokens>>
  BY DEF SendToken, workers, prog
<1>4. cword \in Nat /\ cword < N /\ cphase = 0 /\ tokens \in Seq(Rank) /\ Len(tokens) = N
  BY <1>1 DEF CoordLoop, Starting, IInv, TypeOK, CoordType
<1>5. down' = [down EXCEPT ![c] = Append(@, tokens[cword + 1])] /\ tokens[cword + 1] \in Rank
  BY <1>2, <1>4, RankOrder DEF SendToken
<1>6. \/ cpc' = "bcast" /\ cidx' = c /\ cword' = cword + 1 /\ cword + 1 < N
      \/ cpc' = "bcast" /\ cidx' = c + 1 /\ cword' = 0 /\ cword + 1 = N /\ c + 1 < N
      \/ cpc' = "gather" /\ cidx' = 0 /\ cword' = 0 /\ cword + 1 = N /\ c = N-1
  BY ONLY <1>1, <1>2, <1>4, RankOrder, SendToken DEF SendToken, NextSocket
<1>7. CoordLoop'
  BY ONLY <1>1, <1>2, <1>3, <1>4, <1>6, RankOrder, RankFacts, RoundsAssumption, SMTT(20)
     DEF CoordLoop, Starting, Barriers
<1>8. cpc \in Exchanging /\ cpc' \in Exchanging
  BY <1>1, <1>6 DEF Exchanging
<1>9. \A s \in Rank : /\ Gathered(s) = 0 /\ Released(s) = 0
                      /\ Gathered(s)' = 0 /\ Released(s)' = 0
  BY ONLY <1>1, <1>3, <1>4, <1>6, RankOrder DEF Gathered, Released, Bit
<1>10. SocketInv(c)' /\ down'[c] \in Seq(Rank)
  <2>1. SocketInv(c) /\ entered[c] \in Nat /\ returned[c] \in Nat /\ down[c] \in Seq(Word)
        /\ ReleaseInv(c)
    BY <1>1, <1>2, RoundsAssumption
       DEF IInv, TypeOK, ProgramType, ChannelType, Barriers
  <2>2. TokensSent(c) = cword /\ TokensSent(c)' = cword + 1
    <3>1. TokensSent(c) = cword
      BY ONLY <1>1, <1>2, RankOrder DEF TokensSent
    <3>2. TokensSent(c)' = cword + 1
      <4>1. c < c + 1 /\ ~(c < c)
        BY <1>2, RankOrder
      <4>2. QED
        BY ONLY <1>6, <4>1 DEF TokensSent
    <3>3. QED
      BY <3>1, <3>2
  <2>3. entered[c] = 0
    BY ONLY <1>4, <2>1, <2>2 DEF SocketInv
  <2>4. down[c] \in Seq(Rank)
    <3>1. Exchanged(c, Gathered(c), Released(c))
      BY <2>1 DEF SocketInv, Gathered, Released
    <3>2. down[c] # <<Sync>>
      BY ONLY <1>2, <1>9, <2>1, <3>1 DEF Exchanged
    <3>3. QED
      BY <2>1, <3>2 DEF ReleaseInv
  <2>5. down'[c] = Append(down[c], tokens[cword + 1]) /\ down'[c] \in Seq(Rank)
        /\ Len(down'[c]) = Len(down[c]) + 1 /\ Len(down[c]) \in Nat
    BY <1>2, <1>5, <2>4, Queues DEF IInv, TypeOK, ChannelType
  <2>6. down'[c] # <<Sync>> /\ down[c] # <<Sync>>
    BY <2>4, <2>5, NoSyncAmongTokens
  <2>7. Exchanged(c, Gathered(c), Released(c))'
    BY ONLY <1>2, <1>3, <1>9, <2>1, <2>6 DEF SocketInv, Exchanged, Gathered, Released
  <2>8. pc[c] \in BeforeToken \cup Trying =>
           TokensTaken(c) + Len(down'[c]) = TokensSent(c)'
    <3>1. pc[c] \in BeforeToken \cup Trying => TokensTaken(c) + Len(down[c]) = cword
      BY <2>1, <2>2, <2>3 DEF SocketInv
    <3>2. TokensTaken(c) \in Int
      BY RankOrder, <1>2 DEF TokensTaken, IInv, TypeOK, ProgramType
    <3>3. QED
      BY ONLY <1>4, <2>2, <2>5, <3>1, <3>2
  <2>9. QED
    BY <1>3, <1>8, <2>3, <2>5, <2>7, <2>8, ServedSocket DEF IInv
<1>11. ASSUME NEW s \in Rank, s # c PROVE SocketInv(s)'
  <2>1. TokensSent(s)' = TokensSent(s)
    <3>1. /\ s < c + 1 <=> s < c
          /\ s < N-1 \/ s = N-1
          /\ s = c + 1 => ~(s < c) /\ ~(s < c + 1)
      BY <1>2, <1>11, RankOrder
    <3>2. TokensSent(s) = IF s < c THEN N ELSE 0
      BY ONLY <1>1, <1>2, <1>11 DEF TokensSent
    <3>3. TokensSent(s)' = IF cpc' = "gather" THEN N ELSE IF s < c THEN N ELSE 0
      BY ONLY <1>6, <1>11, <3>1 DEF TokensSent
    <3>4. cpc' = "gather" => s < c
      BY ONLY <1>6, <1>11, <3>1
    <3>5. QED
      BY ONLY <3>2, <3>3, <3>4
  <2>2. up'[s] = up[s] /\ down'[s] = down[s]
    BY <1>3, <1>5, <1>11 DEF IInv, TypeOK, ChannelType
  <2>3. QED
    BY <1>3, <1>8, <1>9, <2>1, <2>2, UnservedSocket DEF IInv
<1>12. down' = [down EXCEPT ![c] = down'[c]]
  BY <1>2, <1>5 DEF IInv, TypeOK, ChannelType
<1> QED
  BY <1>2, <1>7, <1>10, <1>11, <1>12 DEF CoordInv

LEMMA GatherKeepsCoordInv ==
  ASSUME IInv, Gather PROVE CoordInv'
<1>1. cpc = "gather" /\ CoordLoop /\ \A r \in Rank : SocketInv(r)
  BY DEF Gather, IInv, CoordInv, Serving, Starting
<1>2. PICK c \in Rank : c = cidx
  BY <1>1 DEF CoordLoop, Rank, IInv, TypeOK, CoordType
<1>3. UNCHANGED <<pc, idx, entered, returned, down, cword, cphase, tokens>>
  BY DEF Gather, workers, prog
<1>4. up[c] = <<Sync>> /\ up' = [up EXCEPT ![c] = <<>>]
  <2>1. up[c] # <<c>> /\ up[c] # <<>>
    BY <1>1, <1>2 DEF SocketInv, Gather
  <2>2. up[c] = <<Sync>>
    BY <1>1, <1>2, <2>1 DEF SocketInv
  <2>3. QED
    BY <1>2, <2>2, Singletons DEF Gather
<1>5. \/ cpc' = "gather" /\ cidx' = c + 1 /\ c + 1 < N
      \/ cpc' = "release" /\ cidx' = 0 /\ c = N-1
  BY ONLY <1>1, <1>2, RankOrder, Gather DEF Gather, NextSocket, LastGathered
<1>6. CoordLoop'
  BY ONLY <1>1, <1>2, <1>3, <1>5, RankOrder DEF CoordLoop, Starting
<1>7. cpc \in Exchanging /\ cpc' \in Exchanging
  BY <1>1, <1>5 DEF Exchanging
<1>8. cphase \in Nat
  BY RoundsAssumption DEF IInv, TypeOK, CoordType, Barriers
<1>9. \A s \in Rank : /\ TokensSent(s) = N /\ TokensSent(s)' = N
                      /\ Released(s) = cphase /\ Released(s)' = cphase
  BY ONLY <1>1, <1>3, <1>5, <1>8, RankOrder DEF TokensSent, Released, Bit
<1>10. SocketInv(c)'
  <2>1. Gathered(c) = cphase /\ Gathered(c)' = cphase + 1
    <3>1. c < c + 1 /\ ~(c < c)
      BY <1>2, RankOrder
    <3>2. QED
      BY ONLY <1>1, <1>2, <1>3, <1>5, <1>8, <3>1 DEF Gathered, Bit
  <2>2. SocketInv(c) /\ up'[c] = <<>> /\ <<>> # <<Sync>> /\ down'[c] = down[c]
    BY <1>1, <1>2, <1>3, <1>4, Singletons DEF IInv, TypeOK, ChannelType
  <2>3. Exchanged(c, Gathered(c), Released(c))
    BY <2>2 DEF SocketInv, Gathered, Released
  <2>4. Exchanged(c, Gathered(c), Released(c))'
    BY ONLY <1>3, <1>4, <1>8, <1>9, <2>1, <2>2, <2>3, <1>2 DEF Exchanged
  <2>5. /\ entered[c] > 0 => TokensSent(c)' = N /\ down'[c] \in {<<>>, <<Sync>>}
        /\ pc[c] \in BeforeToken \cup Trying /\ entered[c] = 0 =>
             TokensTaken(c) + Len(down'[c]) = TokensSent(c)'
    BY <1>2, <1>9, <2>2 DEF SocketInv
  <2>6. QED
    BY <1>3, <1>7, <2>2, <2>4, <2>5, ServedSocket DEF IInv
<1>11. ASSUME NEW s \in Rank, s # c PROVE SocketInv(s)'
  <2>1. Gathered(s)' = Gathered(s)
    <3>1. (s < c + 1 <=> s < c) /\ (s < N-1 \/ s = N-1)
      BY <1>2, <1>11, RankOrder
    <3>2. QED
      BY ONLY <1>1, <1>2, <1>3, <1>5, <1>8, <1>11, <3>1 DEF Gathered, Bit
  <2>2. up'[s] = up[s] /\ down'[s] = down[s]
    BY <1>3, <1>4, <1>11 DEF IInv, TypeOK, ChannelType
  <2>3. QED
    BY <1>3, <1>7, <1>9, <2>1, <2>2, UnservedSocket DEF IInv
<1> QED
  BY <1>6, <1>10, <1>11 DEF CoordInv

LEMMA ReleaseKeepsCoordInv ==
  ASSUME IInv, Release
  PROVE  /\ CoordInv'
         /\ \E c \in Rank : /\ down' = [down EXCEPT ![c] = <<Sync>>]
                           /\ \A s \in Rank : returned[c] < entered[s]
<1>1. cpc = "release" /\ CoordLoop /\ \A r \in Rank : SocketInv(r)
  BY DEF Release, IInv, CoordInv, Serving, Starting
<1>2. PICK c \in Rank : c = cidx
  BY <1>1 DEF CoordLoop, Rank, IInv, TypeOK, CoordType
<1>3. UNCHANGED <<pc, idx, entered, returned, up, cword, tokens>>
  BY DEF Release, workers, prog
<1>4. cphase \in Nat /\ cphase < Barriers /\ Barriers \in Nat
  BY <1>1, RoundsAssumption DEF IInv, TypeOK, CoordType, Barriers, CoordLoop
<1>5. \/ cpc' = "release" /\ cidx' = c + 1 /\ cphase' = cphase /\ c + 1 < N
      \/ cpc' = "gather" /\ cidx' = 0 /\ cphase' = cphase + 1 /\ cphase + 1 < Barriers /\ c = N-1
      \/ cpc' = "close" /\ c = N-1
  BY ONLY <1>1, <1>2, <1>4, RankOrder, Release DEF Release, NextSocket, MoreBarriers
<1>6. \A s \in Rank : Gathered(s) = cphase + 1 /\ TokensSent(s) = N
  BY ONLY <1>1, <1>4 DEF Gathered, Bit, TokensSent
<1>7. Released(c) = cphase
  <2>1. ~(c < c)
    BY <1>2, RankOrder
  <2>2. QED
    BY ONLY <1>1, <1>2, <1>4, <2>1 DEF Released, Bit
<1>8. \A s \in Rank : entered[s] = cphase + 1 \/ entered[s] = cphase + 2
  BY <1>1, <1>4, <1>6, Counts DEF Serving, Starting
<1>9. returned[c] = cphase /\ down[c] = <<>>
  <2>1. /\ returned[c] = IF down[c] = <<Sync>> THEN cphase - 1 ELSE cphase
        /\ entered[c] <= returned[c] + 1
    BY <1>1, <1>2, <1>7, Counts DEF Serving, Starting, IInv, WorkerInv
  <2>2. returned[c] = cphase /\ down[c] # <<Sync>>
    BY ONLY <1>2, <1>4, <1>8, <2>1
  <2>3. entered[c] > 0
    BY ONLY <1>2, <1>4, <1>8
  <2>4. QED
    BY <1>1, <1>2, <2>2, <2>3 DEF SocketInv
<1>10. down' = [down EXCEPT ![c] = <<Sync>>] /\ down'[c] = <<Sync>>
  <2>1. down' = [down EXCEPT ![c] = Append(down[c], Sync)]
    BY <1>2 DEF Release
  <2>2. Append(down[c], Sync) = <<Sync>>
    BY <1>9, Singletons
  <2>3. QED
    BY <1>2, <2>1, <2>2 DEF IInv, TypeOK, ChannelType
<1>11. \A s \in Rank : returned[c] < entered[s]
  BY ONLY <1>4, <1>8, <1>9
<1>12. CASE cpc' = "close"
  <2>1. CoordInv'
    BY <1>12 DEF CoordInv, Serving, Starting
  <2>2. QED
    BY <1>2, <1>10, <1>11, <2>1
<1>13. CASE cpc' # "close"
  <2>1. CoordLoop'
    BY ONLY <1>1, <1>2, <1>3, <1>4, <1>5, <1>13, RankOrder DEF CoordLoop, Starting
  <2>2. cpc \in Exchanging /\ cpc' \in Exchanging
    BY <1>1, <1>5, <1>13 DEF Exchanging
  <2>3. \A s \in Rank : TokensSent(s)' = N
    BY ONLY <1>5, <1>13 DEF TokensSent
  <2>4. \A s \in Rank : Gathered(s)' = Gathered(s)
    BY ONLY <1>4, <1>5, <1>6, <1>13, RankOrder DEF Gathered, Bit
  <2>5. SocketInv(c)'
    <3>1. Released(c)' = cphase + 1
      <4>1. c < c + 1
        BY <1>2, RankOrder
      <4>2. QED
        BY ONLY <1>2, <1>4, <1>5, <1>13, <4>1, RankOrder DEF Released, Bit
    <3>2. SocketInv(c) /\ up'[c] = up[c] /\ <<Sync>> # <<>>
      BY <1>1, <1>2, <1>3, Singletons
    <3>3. Exchanged(c, Gathered(c), Released(c))
      BY <3>2 DEF SocketInv, Gathered, Released
    <3>4. Exchanged(c, Gathered(c), Released(c))'
      BY ONLY <1>2, <1>3, <1>4, <1>9, <1>10, <2>4, <3>1, <3>2, <3>3 DEF Exchanged
    <3>5. entered[c] > 0
      BY ONLY <1>2, <1>4, <1>8
    <3>6. QED
      BY <1>3, <1>10, <2>2, <2>3, <3>2, <3>4, <3>5, ServedSocket DEF IInv
  <2>6. ASSUME NEW s \in Rank, s # c PROVE SocketInv(s)'
    <3>1. Released(s)' = Released(s)
      <4>1. (s < c + 1 <=> s < c) /\ (s < N-1 \/ s = N-1) /\ ~(s < 0)
        BY <1>2, <2>6, RankOrder
      <4>2. QED
        BY ONLY <1>1, <1>2, <1>4, <1>5, <1>13, <2>6, <4>1 DEF Released, Bit
    <3>2. up'[s] = up[s] /\ down'[s] = down[s]
      BY <1>3, <1>10, <2>6 DEF IInv, TypeOK, ChannelType
    <3>3. QED
      BY <1>3, <1>6, <2>2, <2>3, <2>4, <3>1, <3>2, UnservedSocket DEF IInv
  <2>7. CoordInv'
    BY <2>1, <2>5, <2>6 DEF CoordInv
  <2>8. QED
    BY <1>2, <1>10, <1>11, <2>7
<1> QED
  BY <1>12, <1>13

-----------------------------------------------------------------------------
\* The other conjuncts of IInv, one kind of step after the other.
Local(r) == Throws(r) \/ CleanupAct(r) \/ Silent(r) \/ Acquires(r) \/ Works(r)

LEMMA LocalStep ==
  ASSUME IInv, NEW r \in Rank, Local(r)
  PROVE  PcMove(r) /\ UNCHANGED <<up, down, entered, returned, cpc, loops>>
<1> USE DEF prog, rest, coord
<1>1. CASE Throws(r)
  <2>1. /\ Throw(r) /\ pc[r] \in Trying
        /\ UNCHANGED <<up, down, entered, returned, cpc, loops>>
    BY <1>1 DEF Throws, SendThrows, ReceiveThrows, UseThrows, WorkerFails, Trying
  <2>2. QED
    BY <2>1, ThrowMove DEF IInv
<1>2. CASE CleanupAct(r)
  <2>1. UNCHANGED <<up, down, entered, returned, cpc, loops>>
    BY <1>2 DEF CleanupAct, FreeHbm, CleanupSlot, CleanupLocal
  <2>2. QED
    BY <1>2, <2>1, CleanupMove DEF IInv
<1>3. CASE Silent(r)
  <2>1. UNCHANGED <<up, down, entered, returned, cpc, loops>>
    BY <1>3 DEF Silent, ArmParentDeathSignal, CheckParent, Exec, ExecFails, CloseFd, Return,
                Die, WorkerKilled
  <2>2. QED
    BY <1>3, <2>1, SilentMove DEF IInv
<1>4. CASE Acquires(r)
  <2>1. UNCHANGED <<up, down, entered, returned, cpc, loops>>
    BY <1>4 DEF Acquires, AclInit, SetDevice, Reserve, SetupHbm, Acquire
  <2>2. QED
    BY <1>4, <2>1, AcquireMove DEF IInv
<1>5. CASE Works(r)
  <2>1. UNCHANGED <<up, down, entered, returned, cpc, loops>>
    BY <1>5 DEF Works, Create, Map, BeginWrite, Ends, EndWrite, Read, Unmap
  <2>2. QED
    BY <1>5, <2>1, WorkMove
<1> QED
  BY <1>1, <1>2, <1>3, <1>4, <1>5 DEF Local

LEMMA CoordInvStep == IInv /\ Next => CoordInv'
<1> SUFFICES ASSUME IInv, Next PROVE CoordInv'
  OBVIOUS
<1>1. ASSUME NEW r \in Rank, Local(r) PROVE CoordInv'
  BY <1>1, LocalStep, PcMoveKeepsCoordInv
<1>2. ASSUME NEW r \in Rank, Talks(r) PROVE CoordInv'
  <2>1. CASE cpc \in Serving
    BY <1>2, <2>1, ExportKeepsCoordInv, ReceiveKeepsCoordInv, ArriveKeepsCoordInv,
       PassKeepsCoordInv DEF Talks
  <2>2. CASE cpc \notin Serving
    <3>1. cpc' = cpc
      BY <1>2 DEF Talks, Export, ReceiveToken, ImportThrows, Arrive, Pass, coord, rest
    <3>2. QED
      BY <2>2, <3>1 DEF CoordInv, Serving, Starting
  <2>3. QED
    BY <2>1, <2>2
<1>3. CASE Fork \/ Serves
  BY <1>3, ForkKeepsCoordInv, CollectKeepsCoordInv, SendTokenKeepsCoordInv,
     GatherKeepsCoordInv, ReleaseKeepsCoordInv DEF Serves
<1>4. CASE Stops
  <2>1. cpc' \in {"error", "wait", "kill", "reap", "done", "dead"}
    BY <1>4 DEF Stops, CoordThrows, CloseSockets, KillChildren, WaitChildren, CoordFails,
                CoordKilled
  <2>2. QED
    BY <2>1 DEF CoordInv, Serving, Starting
<1>5. CASE UNCHANGED vars
  BY <1>5 DEF vars, workers, prog, coord, loops, IInv, CoordInv, CoordLoop, SocketInv,
              TokensSent, TokensTaken, Exchanged
<1> QED
  BY <1>1, <1>2, <1>3, <1>4, <1>5, Kinds DEF IInv, Local

\* How a step changes the words in flight and the barrier counts.
Delivered(r) == down' = [down EXCEPT ![r] = Tail(@)] /\ down[r] # <<>>
Taken(r) == up' = [up EXCEPT ![r] = Tail(@)] /\ up[r] # <<>>

LEMMA Traffic ==
  ASSUME IInv, Next
  PROVE  \/ UNCHANGED <<up, down, entered, returned>>
         \/ \E r \in Rank :
              \/ Export(r) \/ Arrive(r) \/ Pass(r)
              \/ pc[r] = "receive" /\ Delivered(r) /\ UNCHANGED <<up, entered, returned>>
              \/ Taken(r) /\ UNCHANGED <<down, entered, returned>>
              \/ /\ \E q \in Seq(Rank) : down' = [down EXCEPT ![r] = q]
                 /\ UNCHANGED <<up, entered, returned>>
              \/ /\ down' = [down EXCEPT ![r] = <<Sync>>]
                 /\ \A s \in Rank : returned[r] < entered[s]
                 /\ UNCHANGED <<up, entered, returned>>
<1>1. ASSUME NEW r \in Rank, Local(r) PROVE UNCHANGED <<up, down, entered, returned>>
  BY <1>1, LocalStep
<1>2. ASSUME NEW r \in Rank, ReceiveToken(r) \/ ImportThrows(r)
      PROVE  pc[r] = "receive" /\ Delivered(r) /\ UNCHANGED <<up, entered, returned>>
  BY <1>2 DEF ReceiveToken, ImportThrows, Delivered, prog
<1>3. ASSUME Fork \/ Stops \/ UNCHANGED vars PROVE UNCHANGED <<up, down, entered, returned>>
  BY <1>3 DEF Fork, Stops, CoordThrows, CloseSockets, KillChildren, WaitChildren, CoordFails,
              CoordKilled, vars, workers, prog
<1>4. ASSUME CollectToken \/ Gather
      PROVE  \E r \in Rank : Taken(r) /\ UNCHANGED <<down, entered, returned>>
  <2>1. cidx \in Rank
    BY <1>4, RankFacts
       DEF CollectToken, Gather, IInv, TypeOK, CoordType, CoordInv, CoordLoop, Serving, Starting, Rank
  <2>2. QED
    BY <1>4, <2>1 DEF CollectToken, Gather, Taken, workers, prog
<1>5. ASSUME SendToken \/ Release PROVE UNCHANGED <<up, entered, returned>>
  BY <1>5 DEF SendToken, Release, workers, prog
<1> QED
  BY <1>1, <1>2, <1>3, <1>4, <1>5, Kinds, SendTokenKeepsCoordInv, ReleaseKeepsCoordInv
     DEF IInv, Local, Talks, Serves

\* What a worker in front of its channel finds there.
LEMMA WaitingWord ==
  ASSUME IInv, NEW r \in Rank
  PROVE  /\ pc[r] = "receive" => down[r] \in Seq(Rank)
         /\ Pass(r) => down[r] = <<Sync>> /\ down' = [down EXCEPT ![r] = <<>>]
<1> USE DEF IInv
<1>1. down[r] = <<Sync>> \/ down[r] \in Seq(Rank)
  BY DEF ReleaseInv
<1>2. ASSUME pc[r] = "receive", down[r] = <<Sync>> PROVE FALSE
  <2>1. ReleaseInv(r) /\ WorkerInv(r) /\ entered[r] \in Int
    BY DEF TypeOK, ProgramType
  <2>2. entered[r] = returned[r]
    BY ONLY <1>2, <2>1 DEF WorkerInv, Trying
  <2>3. returned[r] < entered[r]
    BY ONLY <1>2, <2>1, r \in Rank DEF ReleaseInv
  <2>4. QED
    BY ONLY <2>1, <2>2, <2>3
<1>3. ASSUME Pass(r) PROVE down[r] = <<Sync>> /\ down' = [down EXCEPT ![r] = <<>>]
  <2>1. down[r] # <<>> /\ Head(down[r]) = Sync /\ down' = [down EXCEPT ![r] = Tail(@)]
    BY <1>3 DEF Pass
  <2>2. down[r] \notin Seq(Rank)
    <3>1. Sync \notin Rank
      BY RankFacts DEF Sync
    <3>2. down[r] \in Seq(Rank) => Head(down[r]) \in Rank
      BY <2>1, Queues
    <3>3. QED
      BY <2>1, <3>1, <3>2
  <2>3. QED
    BY <1>1, <2>1, <2>2, Singletons
<1> QED
  BY <1>1, <1>2, <1>3

LEMMA ChannelTypeStep == IInv /\ Next => ChannelType'
<1> SUFFICES ASSUME IInv, Next PROVE ChannelType'
  OBVIOUS
<1>1. up \in [Rank -> Seq(Word)] /\ down \in [Rank -> Seq(Word)]
  BY DEF IInv, TypeOK, ChannelType
<1>2. Sync \in Word /\ <<>> \in Seq(Word) /\ <<Sync>> \in Seq(Word) /\ Rank \subseteq Word
  <2>1. Sync \in Word /\ Rank \subseteq Word
    BY DEF Word
  <2>2. \A w \in Word : <<>> \in Seq(Word) /\ <<w>> \in Seq(Word)
    OBVIOUS
  <2>3. QED
    BY <2>1, <2>2
<1>3. \A r \in Rank : \A w \in Word : Append(up[r], w) \in Seq(Word)
  BY <1>1, Queues
<1>4. \A r \in Rank : /\ up[r] # <<>> => Tail(up[r]) \in Seq(Word)
                      /\ down[r] # <<>> => Tail(down[r]) \in Seq(Word)
  BY <1>1, Queues
<1>5. ASSUME NEW r \in Rank, Export(r) PROVE ChannelType'
  <2>1. up' = [up EXCEPT ![r] = Append(@, r)] /\ down' = down
    BY <1>5 DEF Export, SendUp, IInv, OwnHandle
  <2>2. QED
    BY <1>1, <1>2, <1>3, <2>1 DEF ChannelType
<1>6. ASSUME NEW r \in Rank, Arrive(r) PROVE ChannelType'
  BY <1>1, <1>2, <1>3, <1>6 DEF ChannelType, Arrive, SendUp
<1>7. ASSUME NEW r \in Rank, Pass(r) PROVE ChannelType'
  BY <1>1, <1>2, <1>7, WaitingWord DEF ChannelType, Pass
<1>8. \A q \in Seq(Rank) : q \in Seq(Word)
  BY <1>2
<1>9. ASSUME NEW r \in Rank, NEW q \in Seq(Word), down' = [down EXCEPT ![r] = q], up' = up
      PROVE  ChannelType'
  BY <1>1, <1>9 DEF ChannelType
<1>10. ASSUME NEW r \in Rank, Delivered(r), up' = up PROVE ChannelType'
  <2>1. down[r] \in Seq(Word) /\ down[r] # <<>> /\ down' = [down EXCEPT ![r] = Tail(down[r])]
    BY <1>1, <1>10 DEF Delivered
  <2>2. Tail(down[r]) \in Seq(Word)
    BY <2>1, Queues
  <2>3. QED
    BY <1>9, <1>10, <2>1, <2>2
<1>11. ASSUME NEW r \in Rank, Taken(r), down' = down PROVE ChannelType'
  BY <1>1, <1>4, <1>11 DEF Taken, ChannelType
<1>12. ASSUME UNCHANGED <<up, down>> PROVE ChannelType'
  BY <1>1, <1>12 DEF ChannelType
<1> QED
  BY <1>2, <1>5, <1>6, <1>7, <1>8, <1>9, <1>10, <1>11, <1>12, Traffic

LEMMA ReleaseInvStep == IInv /\ Next => \A s \in Rank : ReleaseInv(s)'
<1> SUFFICES ASSUME IInv, Next, NEW s \in Rank PROVE ReleaseInv(s)'
  OBVIOUS
<1>1. /\ ReleaseInv(s) /\ down \in [Rank -> Seq(Word)]
      /\ entered \in [Rank -> Int] /\ returned \in [Rank -> Int]
  BY DEF IInv, TypeOK, ChannelType, ProgramType
<1>2. <<>> # <<Sync>> /\ <<>> \in Seq(Rank)
  BY Singletons
<1>3. ASSUME NEW r \in Rank, NEW q \in Seq(Rank), down' = [down EXCEPT ![r] = q],
             UNCHANGED <<entered, returned>>
      PROVE  ReleaseInv(s)'
  <2>1. q # <<Sync>>
    BY NoSyncAmongTokens
  <2>2. IF r = s THEN down'[s] = q ELSE down'[s] = down[s]
    BY <1>1, <1>3
  <2>3. QED
    BY <1>1, <1>3, <2>1, <2>2 DEF ReleaseInv
<1>4. ASSUME NEW r \in Rank, pc[r] = "receive", Delivered(r), UNCHANGED <<entered, returned>>
      PROVE  ReleaseInv(s)'
  <2>1. Tail(down[r]) \in Seq(Rank)
    BY <1>4, WaitingWord, Queues DEF Delivered
  <2>2. QED
    BY <1>3, <1>4, <2>1 DEF Delivered
<1>5. ASSUME NEW r \in Rank, Arrive(r) PROVE ReleaseInv(s)'
  <2>1. /\ down' = down /\ returned' = returned
        /\ \A t \in Rank : entered'[t] = entered[t] \/ entered'[t] = entered[t] + 1
    BY <1>1, <1>5 DEF Arrive
  <2>2. ASSUME NEW t \in Rank, returned[s] < entered[t] PROVE returned'[s] < entered'[t]
    <3>1. entered[t] \in Int /\ returned[s] \in Int /\ returned'[s] = returned[s]
      BY <1>1, <2>1
    <3>2. entered'[t] = entered[t] \/ entered'[t] = entered[t] + 1
      BY <2>1
    <3>3. QED
      BY ONLY <2>2, <3>1, <3>2
  <2>3. QED
    BY ONLY <1>1, <2>1, <2>2 DEF ReleaseInv
<1>6. ASSUME NEW r \in Rank, Pass(r) PROVE ReleaseInv(s)'
  <2>1. /\ down' = [down EXCEPT ![r] = <<>>] /\ entered' = entered
        /\ returned' = [returned EXCEPT ![r] = @ + 1]
    BY <1>6, WaitingWord DEF Pass
  <2>2. IF r = s THEN down'[s] = <<>> ELSE down'[s] = down[s] /\ returned'[s] = returned[s]
    BY <1>1, <2>1
  <2>3. QED
    BY <1>1, <1>2, <2>1, <2>2 DEF ReleaseInv
<1>7. ASSUME NEW r \in Rank, down' = [down EXCEPT ![r] = <<Sync>>],
             \A t \in Rank : returned[r] < entered[t], UNCHANGED <<entered, returned>>
      PROVE  ReleaseInv(s)'
  <2>1. IF r = s THEN down'[s] = <<Sync>> ELSE down'[s] = down[s]
    BY <1>1, <1>7
  <2>2. QED
    BY <1>1, <1>7, <2>1 DEF ReleaseInv
<1>8. ASSUME UNCHANGED <<down, entered, returned>> PROVE ReleaseInv(s)'
  BY <1>1, <1>8 DEF ReleaseInv
<1>9. ASSUME NEW r \in Rank, Export(r) PROVE UNCHANGED <<down, entered, returned>>
  BY <1>9 DEF Export, prog
<1> QED
  BY <1>3, <1>4, <1>5, <1>6, <1>7, <1>8, <1>9, Traffic

LEMMA InStepStep == IInv /\ Next => InStep'
<1> SUFFICES ASSUME IInv, Next PROVE InStep'
  OBVIOUS
<1>1. InStep /\ entered \in [Rank -> Int] /\ returned \in [Rank -> Int]
  BY DEF IInv, TypeOK, ProgramType
<1>2. ASSUME UNCHANGED <<entered, returned>> PROVE InStep'
  BY <1>1, <1>2 DEF InStep
<1>3. ASSUME NEW r \in Rank, Arrive(r) PROVE InStep'
  <2>1. /\ returned' = returned
        /\ \A t \in Rank : entered'[t] = entered[t] \/ entered'[t] = entered[t] + 1
    BY <1>1, <1>3 DEF Arrive
  <2>2. QED
    BY <1>1, <2>1 DEF InStep
<1>4. ASSUME NEW r \in Rank, Pass(r) PROVE InStep'
  <2>1. \A t \in Rank : returned[r] < entered[t]
    BY <1>4, WaitingWord DEF IInv, ReleaseInv
  <2>2. /\ entered' = entered
        /\ \A t \in Rank : returned'[t] = IF t = r THEN returned[t] + 1 ELSE returned[t]
    BY <1>1, <1>4 DEF Pass
  <2>3. QED
    BY <1>1, <2>1, <2>2 DEF InStep
<1>5. ASSUME NEW r \in Rank, Export(r) PROVE UNCHANGED <<entered, returned>>
  BY <1>5 DEF Export, prog
<1> QED
  BY <1>2, <1>3, <1>4, <1>5, Traffic

\* Only Create leads to the export, and a handle changes nowhere else before it.
LEMMA OwnHandleStep == IInv /\ Next => \A s \in Rank : OwnHandle(s)'
<1> SUFFICES ASSUME IInv, Next, NEW s \in Rank PROVE OwnHandle(s)'
  OBVIOUS
<1> USE DEF Goto, prog, res
<1>1. /\ OwnHandle(s) /\ pc \in [Rank -> Step]
      /\ handle \in [Rank -> [Rank -> Word \cup {NoAlloc}]]
  BY DEF IInv, TypeOK, ProgramType, ResourceType
<1>2. ASSUME NEW r \in Rank, NEW q, pc' = [pc EXCEPT ![r] = q], q # "export",
             \A t \in Rank \ {r} : handle'[t] = handle[t]
      PROVE  OwnHandle(s)'
  <2>1. IF s = r THEN pc'[s] = q ELSE pc'[s] = pc[s] /\ handle'[s] = handle[s]
    BY <1>1, <1>2
  <2>2. QED
    BY <1>1, <1>2, <2>1 DEF OwnHandle
<1>3. ASSUME UNCHANGED <<pc, handle>> PROVE OwnHandle(s)'
  BY <1>1, <1>3 DEF OwnHandle
<1>4. ASSUME NEW r \in Rank, Throws(r) \/ Silent(r) PROVE OwnHandle(s)'
  <2>1. \E q : q # "export" /\ pc' = [pc EXCEPT ![r] = q]
    BY <1>4 DEF Throws, SendThrows, ReceiveThrows, UseThrows, WorkerFails, Throw, Silent,
                ArmParentDeathSignal, CheckParent, Exec, ExecFails, CloseFd, Return, Die,
                WorkerKilled
  <2>2. handle' = handle
    BY <1>4 DEF Throws, SendThrows, ReceiveThrows, UseThrows, WorkerFails, Throw, Silent,
                ArmParentDeathSignal, CheckParent, Exec, ExecFails, CloseFd, Return, Die,
                WorkerKilled
  <2>3. QED
    BY <1>2, <2>1, <2>2
<1>5. ASSUME NEW r \in Rank, CleanupAct(r) PROVE OwnHandle(s)'
  <2>1. \E q : q # "export" /\ pc' = [pc EXCEPT ![r] = q]
    BY <1>5 DEF CleanupAct, FreeHbm, CleanupSlot, CleanupLocal, Loop
  <2>2. handle' = handle \/ handle' = [handle EXCEPT ![r][idx[r]] = NoAlloc]
    BY ONLY <1>5 DEF CleanupAct, FreeHbm, CleanupSlot, CleanupLocal
  <2>3. \A t \in Rank \ {r} : handle'[t] = handle[t]
    BY <1>1, <2>2
  <2>4. QED
    BY <1>2, <2>1, <2>3
<1>6. ASSUME NEW r \in Rank, Acquires(r) PROVE OwnHandle(s)'
  <2>1. \E q : q # "export" /\ pc' = [pc EXCEPT ![r] = q]
    BY <1>6 DEF Acquires, AclInit, SetDevice, Reserve, SetupHbm, Acquire
  <2>2. handle' = handle
    BY <1>6 DEF Acquires, AclInit, SetDevice, Reserve, SetupHbm, Acquire
  <2>3. QED
    BY <1>2, <2>1, <2>2
<1>7. ASSUME NEW r \in Rank, Create(r) PROVE OwnHandle(s)'
  <2>1. IF s = r THEN handle'[s][s] = s ELSE pc'[s] = pc[s] /\ handle'[s] = handle[s]
    BY <1>1, <1>7 DEF Create
  <2>2. QED
    BY <1>1, <2>1 DEF OwnHandle
<1>8. ASSUME NEW r \in Rank, Works(r), ~Create(r) PROVE OwnHandle(s)'
  <2>1. \E q : q # "export" /\ pc' = [pc EXCEPT ![r] = q]
    BY <1>8 DEF Works, Map, BeginWrite, Ends, EndWrite, Read, Unmap, Loop, AfterUnmap
  <2>2. handle' = handle
    BY <1>8 DEF Works, Map, BeginWrite, Ends, EndWrite, Read, Unmap
  <2>3. QED
    BY <1>2, <2>1, <2>2
<1>9. ASSUME NEW r \in Rank, Talks(r) PROVE OwnHandle(s)'
  <2>1. \E q : q # "export" /\ pc' = [pc EXCEPT ![r] = q]
    <3>1. CASE Pass(r)
      BY <3>1 DEF Pass, AfterBarrier
    <3>2. CASE Export(r) \/ ReceiveToken(r) \/ Arrive(r)
      BY <3>2 DEF Export, ReceiveToken, Arrive
    <3>3. CASE ImportThrows(r)
      BY <3>3 DEF ImportThrows, Throw
    <3>4. QED
      BY <1>9, <3>1, <3>2, <3>3 DEF Talks
  <2>2. \/ handle' = handle
        \/ handle' = [handle EXCEPT ![r][idx[r]] = Head(down[r])]
    BY ONLY <1>9 DEF Talks, Export, ReceiveToken, ImportThrows, Arrive, Pass, res
  <2>3. \A t \in Rank \ {r} : handle'[t] = handle[t]
    BY <1>1, <2>2
  <2>4. QED
    BY <1>2, <2>1, <2>3
<1>10. ASSUME Fork PROVE OwnHandle(s)'
  <2>1. handle' = handle /\ (pc' = pc \/ pc' = [pc EXCEPT ![cidx] = "forked"])
    BY <1>10 DEF Fork
  <2>2. pc'[s] = pc[s] \/ pc'[s] = "forked"
    BY <1>1, <2>1
  <2>3. QED
    BY <1>1, <2>1, <2>2 DEF OwnHandle
<1>11. ASSUME Serves \/ Stops \/ UNCHANGED vars PROVE UNCHANGED <<pc, handle>>
  BY <1>11 DEF Serves, CollectToken, SendToken, Gather, Release, Stops, CoordThrows,
               CloseSockets, KillChildren, WaitChildren, CoordFails, CoordKilled, vars, workers
<1> QED
  BY <1>3, <1>4, <1>5, <1>6, <1>7, <1>8, <1>9, <1>10, <1>11, Kinds DEF IInv

LEMMA InitIInv == Init => IInv
<1> SUFFICES ASSUME Init PROVE IInv
  OBVIOUS
<1>1. TypeOK
  <2>1. /\ 0 \in Rank /\ N \in Nat /\ Barriers \in Nat /\ MaxFaults \in Nat
    BY RankFacts DEF Barriers
  <2>2. ProgramType
    BY <2>1 DEF Init, ProgramType, Step, Phase
  <2>3. ResourceType
    BY DEF Init, ResourceType, Torn
  <2>4. ChannelType
    BY DEF Init, ChannelType
  <2>5. CoordType
    BY <2>1 DEF Init, CoordType
  <2>6. QED
    BY <2>2, <2>3, <2>4, <2>5 DEF TypeOK
<1>2. ASSUME NEW r \in Rank PROVE WorkerInv(r) /\ ReleaseInv(r) /\ OwnHandle(r)
  <2>1. WorkerInv(r) /\ OwnHandle(r)
    BY DEF Init, WorkerInv, OwnHandle, BeforeToken, Forking, Importing, Trying
  <2>2. ReleaseInv(r)
    BY Singletons DEF Init, ReleaseInv
  <2>3. QED
    BY <2>1, <2>2
<1>3. InStep
  BY DEF Init, InStep
<1>4. CoordLoop
  BY DEF Init, CoordLoop, Starting, Barriers
<1>5. ASSUME NEW r \in Rank PROVE SocketInv(r)
  <2>1. TokensSent(r) = 0 /\ TokensTaken(r) = 0
    BY DEF Init, TokensSent, TokensTaken, BeforeToken
  <2>2. /\ pc[r] = "absent" /\ up[r] = <<>> /\ down[r] = <<>> /\ cphase = 0 /\ cidx = 0
        /\ entered[r] = 0 /\ returned[r] = 0 /\ cpc = "fork" /\ 0 <= r
    BY RankFacts DEF Init
  <2>3. <<r>> # <<>> /\ <<Sync>> # <<>> /\ Len(<<>>) = 0
    BY Singletons
  <2>4. QED
    BY ONLY <2>1, <2>2, <2>3 DEF SocketInv, Exchanged, Bit, BeforeToken
<1> QED
  BY <1>1, <1>2, <1>3, <1>4, <1>5 DEF IInv, CoordInv

-----------------------------------------------------------------------------
LEMMA IInvStep == IInv /\ [Next]_vars => IInv'
<1>1. IInv /\ Next => IInv'
  BY ProgramStep, ResourceTypeStep, ChannelTypeStep, CoordTypeStep, ReleaseInvStep,
     OwnHandleStep, InStepStep, CoordInvStep DEF IInv, TypeOK
<1>2. IInv /\ UNCHANGED vars => IInv'
  <2>1. UNCHANGED vars => Next \/ IInv' = IInv
    BY DEF vars, workers, prog, res, outcome, coord, loops, IInv, TypeOK, ProgramType,
           ResourceType, ChannelType, CoordType, WorkerInv, ReleaseInv, OwnHandle, InStep,
           CoordInv, CoordLoop, SocketInv, Exchanged, TokensSent, TokensTaken
  <2>2. QED
    BY <1>1, <2>1
<1> QED
  BY <1>1, <1>2

\* IInv holds in every reachable state, for every number of workers and rounds
\* and every budget of faults: a step of the protocol keeps the phases of a
\* worker in line with its barrier calls, and the words on every socket in line
\* with how far both ends have come.
THEOREM Invariance == Spec => []IInv
<1> QED
  BY InitIInv, IInvStep, PTL DEF Spec

\* Every variable keeps its type: no loop of the coordinator or of a worker
\* leaves its bounds, and nothing but tokens and barrier words is ever sent.
THEOREM TypeCorrect == Spec => []TypeOK
<1>1. IInv => TypeOK
  BY DEF IInv
<1> QED
  BY <1>1, Invariance, PTL

\* A count of barrier calls returned from belongs to one phase of one round.
At(p, k, n) ==
  \/ p = "import" /\ n = 0 /\ k = 0
  \/ p = "cpu" /\ n = 1 /\ k = 0
  \/ p = "write" /\ n = 2 + 2 * k /\ k < Rounds
  \/ p = "read" /\ n = 3 + 2 * k /\ k < Rounds
  \/ p = "free" /\ n = 2 + 2 * Rounds /\ k = Rounds
  \/ p = "unmap" /\ n = 3 + 2 * Rounds /\ k = Rounds

LEMMA OnePlace ==
  ASSUME NEW n \in Int, NEW k \in Int, NEW l \in Int, k >= 0, l >= 0,
         NEW p, NEW q, At(p, k, n), At(q, l, n)
  PROVE  p = q /\ k = l
<1>1. CASE p = "import" \/ p = "cpu"
  BY <1>1 DEF At
<1>2. CASE p = "write" \/ p = "free"
  BY <1>2 DEF At
<1>3. CASE p = "read" \/ p = "unmap"
  BY <1>3 DEF At
<1> QED
  BY <1>1, <1>2, <1>3 DEF At

\* Two workers that are not blocked in a barrier are in the same phase of the
\* same round: the barrier lambda of line 95 exchanges a bare 0, and still the
\* call sites of all workers line up, whatever fails.
THEOREM PhasesAgree == Spec => []PhaseAgreement
<1>1. IInv => PhaseAgreement
  <2> SUFFICES ASSUME IInv, NEW r \in Rank, NEW s \in Rank, Working(r), Working(s)
               PROVE  phase[r] = phase[s] /\ round[r] = round[s]
    BY DEF PhaseAgreement
  <2>1. /\ WorkerInv(r) /\ WorkerInv(s) /\ returned[r] <= entered[s] /\ returned[s] <= entered[r]
        /\ phase[r] \in Phase /\ phase[s] \in Phase
        /\ round[r] \in Int /\ round[s] \in Int /\ returned[r] \in Int /\ returned[s] \in Int
    BY DEF IInv, InStep, TypeOK, ProgramType, Barriers
  <2>2. returned[r] = returned[s] /\ phase[r] # "final" /\ phase[s] # "final"
    BY ONLY <2>1, Working(r), Working(s) DEF Working, WorkerInv
  <2>3. ASSUME NEW q \in Rank, WorkerInv(q), phase[q] \in Phase, phase[q] # "final"
        PROVE  At(phase[q], round[q], returned[q])
    BY ONLY <2>3 DEF WorkerInv, Phase, At
  <2>4. round[r] >= 0 /\ round[s] >= 0
    BY DEF IInv, TypeOK, ProgramType
  <2>5. At(phase[r], round[r], returned[r]) /\ At(phase[s], round[s], returned[r])
    BY <2>1, <2>2, <2>3
  <2>6. QED
    BY <2>1, <2>4, <2>5, OnePlace
<1> QED
  BY <1>1, Invariance, PTL

-----------------------------------------------------------------------------
\* The barrier calls of the workers as a barrier of Lockstep.
Dropped == {r \in Rank : pc[r] \in Leaving \cup Gone /\ returned[r] < Barriers}

\* A step that touches no barrier count is a Drop, or a stutter.
LEMMA MoveDrops ==
  ASSUME NEW r \in Rank, pc \in [Rank -> Step], UNCHANGED <<entered, returned>>,
         \A s \in Rank \ {r} : pc'[s] = pc[s],
         pc[r] \in Leaving \cup Gone => pc'[r] \in Leaving \cup Gone
  PROVE  Barrier!Next \/ UNCHANGED Barrier!vars
<1>1. Dropped' = Dropped \/ Dropped' = Dropped \cup {r}
  BY DEF Dropped
<1> QED
  BY <1>1 DEF Dropped, Barrier!Next, Barrier!Drop, Barrier!vars

LEMMA BarrierInit == Init => Barrier!Init
BY DEF Init, Barrier!Init, Leaving, Gone

LEMMA BarrierStep == IInv /\ Next => Barrier!Next \/ UNCHANGED Barrier!vars
<1> SUFFICES ASSUME IInv, Next PROVE Barrier!Next \/ UNCHANGED Barrier!vars
  OBVIOUS
<1>1. /\ pc \in [Rank -> Step] /\ entered \in [Rank -> Int] /\ returned \in [Rank -> Int]
      /\ \A r \in Rank : WorkerInv(r) /\ ReleaseInv(r)
  BY DEF IInv, TypeOK, ProgramType
<1>2. ASSUME NEW r \in Rank, Local(r) PROVE Barrier!Next \/ UNCHANGED Barrier!vars
  BY <1>1, <1>2, LocalStep, MoveDrops DEF PcMove
<1>3. ASSUME NEW r \in Rank, Export(r) \/ ReceiveToken(r) \/ ImportThrows(r)
      PROVE  Barrier!Next \/ UNCHANGED Barrier!vars
  <2>1. /\ \A s \in Rank \ {r} : pc'[s] = pc[s]
        /\ pc[r] \notin Leaving \cup Gone
        /\ UNCHANGED <<entered, returned>>
    BY <1>1, <1>3 DEF Export, ReceiveToken, ImportThrows, Throw, Goto, Leaving, Gone, prog
  <2>2. QED
    BY <1>1, <2>1, MoveDrops
<1>4. ASSUME NEW r \in Rank, Arrive(r) PROVE Barrier!Next
  <2>1. entered[r] = returned[r] /\ entered[r] < Barriers
    BY <1>1, <1>4 DEF Arrive, WorkerInv, Trying, IInv, TypeOK, ProgramType, Phase, Barriers
  <2>2. pc[r] = "arrive" /\ pc' = [pc EXCEPT ![r] = "wait"] /\ returned' = returned
        /\ entered' = [entered EXCEPT ![r] = @ + 1]
    BY <1>4 DEF Arrive, Goto
  <2>3. r \notin Dropped /\ Dropped' = Dropped
    BY <1>1, <2>2 DEF Dropped, Leaving, Gone
  <2>4. QED
    BY <2>1, <2>2, <2>3 DEF Dropped, Barrier!Next, Barrier!Enter
<1>5. ASSUME NEW r \in Rank, Pass(r) PROVE Barrier!Next
  <2>1. pc[r] = "wait" /\ entered' = entered /\ returned' = [returned EXCEPT ![r] = @ + 1]
    BY <1>5 DEF Pass
  <2>2. entered[r] = returned[r] + 1 /\ returned[r] < Barriers /\ Barriers \in Int
    BY <1>1, <2>1 DEF WorkerInv, IInv, TypeOK, ProgramType, Barriers
  <2>3. \A s \in Rank : returned[r] < entered[s]
    BY <1>1, <1>5, WaitingWord DEF ReleaseInv
  <2>4. \A s \in Rank : entered[r] <= entered[s]
    BY <1>1, <2>2, <2>3
  <2>5. r \notin Dropped
    BY <2>1 DEF Dropped, Leaving, Gone
  <2>6. \/ pc' = [pc EXCEPT ![r] = "cleanup"] /\ phase[r] = "unmap"
        \/ \E q \in Trying : pc' = [pc EXCEPT ![r] = q]
    BY <1>5 DEF Pass, AfterBarrier, Goto, Trying
  <2>7. r \notin Dropped'
    <3>1. CASE phase[r] = "unmap"
      <4>1. returned[r] + 1 = Barriers
        BY <1>1, <3>1 DEF WorkerInv, Barriers
      <4>2. QED
        BY <1>1, <2>1, <4>1, <2>2 DEF Dropped
    <3>2. CASE phase[r] # "unmap"
      <4>1. pc'[r] \in Trying
        BY <1>1, <2>6, <3>2
      <4>2. QED
        BY <4>1 DEF Dropped, Trying, Leaving, Gone
    <3>3. QED
      BY <3>1, <3>2
  <2>8. Dropped' = Dropped
    <3>1. \A s \in Rank \ {r} : pc'[s] = pc[s] /\ returned'[s] = returned[s]
      BY <1>1, <2>1, <2>6
    <3>2. QED
      BY <2>5, <2>7, <3>1 DEF Dropped
  <2>9. returned[r] < entered[r]
    BY <1>1, <2>2
  <2>10. Barrier!Leave(r)
    BY ONLY <2>1, <2>4, <2>5, <2>8, <2>9 DEF Dropped, Barrier!Leave
  <2>11. QED
    BY <2>10 DEF Barrier!Next
<1>6. CASE Fork
  <2>1. CASE cidx < N
    <3>1. PICK c \in Rank : c = cidx
      BY <2>1 DEF IInv, TypeOK, CoordType, Rank
    <3>2. pc[c] = "absent"
      BY <1>6, <3>1, RankFacts DEF Fork, IInv, CoordInv, SocketInv, Serving, Starting
    <3>3. pc' = [pc EXCEPT ![c] = "forked"] /\ UNCHANGED <<entered, returned>>
      BY <1>6, <2>1, <3>1 DEF Fork, Goto, prog
    <3>4. QED
      BY <1>1, <3>2, <3>3, MoveDrops DEF Leaving, Gone
  <2>2. CASE ~(cidx < N)
    BY <1>6, <2>2 DEF Fork, prog, Barrier!vars
  <2>3. QED
    BY <2>1, <2>2
<1>7. CASE Serves \/ Stops \/ UNCHANGED vars
  <2>1. UNCHANGED <<pc, entered, returned>>
    BY <1>7 DEF Serves, CollectToken, SendToken, Gather, Release, Stops, CoordThrows,
                CloseSockets, KillChildren, WaitChildren, CoordFails, CoordKilled, vars,
                workers, prog
  <2>2. QED
    BY <2>1 DEF Barrier!vars
<1> QED
  BY <1>2, <1>3, <1>4, <1>5, <1>6, <1>7, Kinds DEF IInv, Local, Talks

\* barrier() is a barrier: nobody returns from its n-th call before everybody has
\* entered theirs, for every number of workers and whatever fails.
THEOREM BarrierCorrect == Spec => ImplementsLockstep
<1>1. IInv /\ [Next]_vars => [Barrier!Next]_(Barrier!vars)
  <2>1. UNCHANGED vars => UNCHANGED Barrier!vars
    BY DEF vars, workers, prog, Barrier!vars
  <2>2. QED
    BY <2>1, BarrierStep
<1> QED
  BY <1>1, BarrierInit, Invariance, PTL DEF Spec, ImplementsLockstep, Barrier!Spec

\* With the bound on entered, what Lockstep promises is inductive as it stands.
Meeting == Barrier!TypeOK /\ Barrier!NoOvertaking

\* Nobody returns from a barrier that somebody has not entered: for any workers,
\* however many of them drop out, and whenever they do.
THEOREM BarrierSafe == Barrier!Spec => []Barrier!NoOvertaking
<1>1. Barriers \in Nat
  BY RoundsAssumption DEF Barriers
<1>2. Barrier!Init => Meeting
  BY <1>1 DEF Barrier!Init, Meeting, Barrier!TypeOK, Barrier!NoOvertaking
<1>3. Meeting /\ [Barrier!Next]_(Barrier!vars) => Meeting'
  <2> SUFFICES ASSUME Meeting, [Barrier!Next]_(Barrier!vars) PROVE Meeting'
    OBVIOUS
  <2> USE <1>1 DEF Meeting, Barrier!TypeOK, Barrier!NoOvertaking
  <2>1. ASSUME NEW m \in Rank, Barrier!Enter(m) PROVE Meeting'
    BY <2>1 DEF Barrier!Enter
  <2>2. ASSUME NEW m \in Rank, Barrier!Leave(m) PROVE Meeting'
    <3>1. returned[m] + 1 <= Barriers /\ returned[m] + 1 <= entered[m]
      BY <2>2 DEF Barrier!Leave
    <3>2. Barrier!TypeOK'
      BY <2>2, <3>1 DEF Barrier!Leave
    <3>3. \A other \in Rank : returned[m] + 1 <= entered[other]
      BY <2>2, <3>1 DEF Barrier!Leave
    <3>4. QED
      BY <2>2, <3>1, <3>2, <3>3 DEF Barrier!Leave
  <2>3. ASSUME NEW m \in Rank, Barrier!Drop(m) PROVE Meeting'
    BY <2>3 DEF Barrier!Drop
  <2>4. CASE UNCHANGED Barrier!vars
    BY <2>4 DEF Barrier!vars
  <2>5. QED
    BY <2>1, <2>2, <2>3, <2>4 DEF Barrier!Next
<1>4. Meeting => Barrier!NoOvertaking
  BY DEF Meeting
<1> QED
  BY <1>2, <1>3, <1>4, PTL DEF Barrier!Spec

\* What Lockstep promises holds of the program that implements it: no worker
\* returns from a barrier that another has not entered, whatever fails.
THEOREM NobodyOvertakes == Spec => []NoOvertaking
<1>1. Barrier!NoOvertaking => NoOvertaking
  BY DEF Barrier!NoOvertaking, NoOvertaking
<1> QED
  BY <1>1, BarrierSafe, BarrierCorrect, PTL DEF ImplementsLockstep

-----------------------------------------------------------------------------
(***************************************************************************)
(* What the workers hold and have written: DataInv, on top of IInv.        *)
(***************************************************************************)
\* Steps of worker r, and what they leave alone.
Acts(r) ==
  Throws(r) \/ CleanupAct(r) \/ Silent(r) \/ Acquires(r) \/ Works(r) \/ Talks(r)
Frame(r) ==
  /\ UNCHANGED <<sig, coord>>
  /\ \A s \in Rank \ {r} :
       /\ pc'[s] = pc[s] /\ idx'[s] = idx[s]
       /\ phase'[s] = phase[s] /\ round'[s] = round[s]
       /\ entered'[s] = entered[s] /\ returned'[s] = returned[s]
       /\ held'[s] = held[s] /\ handle'[s] = handle[s] /\ slice'[s] = slice[s]
       /\ result'[s] = result[s] /\ cleanupFailed'[s] = cleanupFailed[s]
       /\ down'[s] = down[s]

LEMMA Framed ==
  ASSUME TypeOK, NEW r \in Rank, Acts(r)
  PROVE  Frame(r)
<1>0. ASSUME NEW p, NEW q, Loop(r, p, q)
      PROVE  \A s \in Rank \ {r} : pc'[s] = pc[s] /\ idx'[s] = idx[s]
  BY <1>0 DEF Loop, Goto, TypeOK, ProgramType
<1> USE DEF TypeOK, ProgramType, ResourceType, ChannelType, prog, res, outcome, rest,
            Goto, Frame
<1>1. CASE Throws(r)
  BY <1>1 DEF Throws, SendThrows, ReceiveThrows, UseThrows, WorkerFails, Throw
<1>2. CASE CleanupAct(r)
  <2>1. ASSUME NEW leak, FreeHbm(r, leak) PROVE Frame(r)
    BY <2>1 DEF FreeHbm, Leak
  <2>2. ASSUME NEW leak, CleanupSlot(r, leak) PROVE Frame(r)
    BY <1>0, <2>2 DEF CleanupSlot, Leak
  <2>3. ASSUME NEW leak, CleanupLocal(r, leak) PROVE Frame(r)
    BY <2>3 DEF CleanupLocal, Leak
  <2>4. QED
    BY <1>2, <2>1, <2>2, <2>3 DEF CleanupAct
<1>3. CASE Silent(r)
  BY <1>3 DEF Silent, ArmParentDeathSignal, CheckParent, Exec, ExecFails, CloseFd, Return,
              Die, WorkerKilled
<1>4. CASE Acquires(r)
  BY <1>4 DEF Acquires, AclInit, SetDevice, Reserve, SetupHbm, Acquire
<1>5. CASE Works(r)
  <2>1. CASE Create(r) \/ Map(r) \/ Unmap(r)
    BY <1>0, <1>5, <2>1 DEF Create, Map, Unmap, AfterUnmap
  <2>2. CASE BeginWrite(r) \/ Ends(r) \/ Read(r)
    BY <1>0, <1>5, <2>2 DEF BeginWrite, Ends, EndWrite, Leak, Read
  <2>3. QED
    BY <1>5, <2>1, <2>2 DEF Works
<1>6. CASE Talks(r)
  <2>1. CASE Export(r) \/ ReceiveToken(r) \/ ImportThrows(r)
    BY <1>6, <2>1 DEF Export, SendUp, ReceiveToken, ImportThrows, Throw
  <2>2. CASE Arrive(r)
    BY <1>6, <2>2 DEF Arrive, SendUp
  <2>3. CASE Pass(r)
    <3>1. /\ down' = [down EXCEPT ![r] = Tail(@)] /\ returned' = [returned EXCEPT ![r] = @ + 1]
          /\ UNCHANGED <<sig, coord, idx, entered, held, handle, slice, result, cleanupFailed>>
      BY <2>3 DEF Pass
    <3>2. \A s \in Rank \ {r} : pc'[s] = pc[s] /\ phase'[s] = phase[s] /\ round'[s] = round[s]
      BY <2>3 DEF Pass, AfterBarrier
    <3>3. \A s \in Rank \ {r} : down'[s] = down[s] /\ returned'[s] = returned[s]
      BY <3>1
    <3> QED BY <3>1, <3>2, <3>3
  <2>4. QED
    BY <1>6, <2>1, <2>2, <2>3 DEF Talks
<1> QED
  BY <1>1, <1>2, <1>3, <1>4, <1>5, <1>6 DEF Acts

\* Steps of the coordinator, and what they leave alone.
Coordinates == Fork \/ Serves \/ Stops \/ UNCHANGED vars

LEMMA CoordFrame ==
  ASSUME Coordinates
  PROVE  /\ UNCHANGED <<idx, prog, res, outcome, mem>>
         /\ pc' = pc \/ (cpc = "fork" /\ cidx < N /\ pc' = [pc EXCEPT ![cidx] = "forked"])
  BY DEF Coordinates, Fork, Goto, Serves, CollectToken, SendToken, Gather, Release, Stops,
         CoordThrows, CloseSockets, KillChildren, WaitChildren, CoordFails, CoordKilled,
         vars, workers, prog

LEMMA TwoKinds ==
  ASSUME TypeOK, Next
  PROVE  (\E r \in Rank : Acts(r)) \/ Coordinates
  BY Kinds DEF Acts, Coordinates

\* Only a fork moves a worker that the coordinator's step finds.
LEMMA ForkedPc ==
  ASSUME IInv, Coordinates, NEW s \in Rank
  PROVE  pc'[s] = pc[s] \/ (pc[s] = "absent" /\ pc'[s] = "forked")
<1>1. CASE pc' # pc
  <2>1. cpc = "fork" /\ cidx \in Rank /\ pc' = [pc EXCEPT ![cidx] = "forked"]
    BY <1>1, CoordFrame DEF IInv, TypeOK, CoordType, Rank
  <2>2. SocketInv(cidx) /\ cidx <= cidx
    BY <2>1, RankFacts DEF IInv, CoordInv, Serving, Starting
  <2>3. pc[cidx] = "absent"
    BY ONLY <2>1, <2>2 DEF SocketInv
  <2>4. QED
    BY <2>1, <2>3 DEF IInv, TypeOK, ProgramType
<1> QED
  BY <1>1

\* Past the comparison of getppid.
Executing == Live \ {"forked", "armed"}
LEMMA PastParentCheck ==
  ASSUME TypeOK, NEW r \in Rank, Acts(r), pc'[r] \in Executing, pc[r] \notin Executing
  PROVE  cpc # "dead"
<1> USE DEF TypeOK, ProgramType, Goto, Executing, Live, Forking, Trying, Leaving, Gone
<1>1. CASE Throws(r)
  BY <1>1 DEF Throws, SendThrows, ReceiveThrows, UseThrows, WorkerFails, Throw
<1>2. CASE CleanupAct(r)
  BY <1>2 DEF CleanupAct, FreeHbm, CleanupSlot, CleanupLocal
<1>3. CASE Silent(r)
  BY <1>3 DEF Silent, ArmParentDeathSignal, CheckParent, ParentGone, Exec, ExecFails, CloseFd,
              Return, Die, WorkerKilled
<1>4. CASE Acquires(r)
  BY <1>4 DEF Acquires, AclInit, SetDevice, Reserve, SetupHbm, Acquire
<1>5. CASE Works(r)
  BY <1>5 DEF Works, Create, Map, BeginWrite, Ends, EndWrite, Read, Unmap
<1>6. CASE Talks(r)
  BY <1>6 DEF Talks, Export, ReceiveToken, ImportThrows, Arrive, Pass
<1> QED
  BY <1>1, <1>2, <1>3, <1>4, <1>5, <1>6 DEF Acts

\* No worker outlives a killed coordinator: whoever is past the comparison of
\* getppid when it dies is sent SIGTERM, and nobody gets past it later.
LEMMA NoOrphanStep == TypeOK /\ NoOrphan /\ Next => NoOrphan'
<1> SUFFICES ASSUME TypeOK, NoOrphan, Next, cpc' = "dead", NEW s \in Rank,
                    pc'[s] \in Executing
             PROVE  sig'[s]
  BY DEF NoOrphan, Executing
<1>1. ASSUME cpc = "dead", NEW r \in Rank, Acts(r) PROVE sig'[s]
  <2>1. pc[s] \in Executing
    BY <1>1, PastParentCheck, Framed DEF Frame
  <2>2. sig'[s] = sig[s]
    BY <1>1, Framed DEF Frame
  <2>3. QED
    BY <1>1, <2>1, <2>2 DEF NoOrphan, Executing
<1>2. CASE CoordKilled
  BY <1>2 DEF CoordKilled, workers, Executing, TypeOK, ProgramType
<1>3. CASE Coordinates /\ ~CoordKilled
  <2>1. UNCHANGED <<vars>>
    BY <1>3 DEF Coordinates, Fork, Serves, CollectToken, SendToken, Gather, Release, Stops,
            NextSocket, MoreBarriers, CoordThrows, SocketThrows, CloseSockets, KillChildren, WaitChildren, CoordFails
  <2>2. UNCHANGED <<cpc, pc, sig>>
    BY <2>1 DEF vars, workers, coord
  <2>3. QED
    BY <2>2 DEF NoOrphan, Executing
<1>4. ASSUME NEW r \in Rank, Acts(r) PROVE cpc = "dead"
  BY <1>4, Framed DEF Frame, coord
<1> QED
  BY <1>1, <1>2, <1>3, <1>4, TwoKinds

-----------------------------------------------------------------------------
\* The slots of a worker, step by step.
LEMMA NoAllocFresh == NoAlloc \notin Rank /\ \A o \in Rank : NoAlloc # o
<1>1. N \in Int /\ NoAlloc = N + 1
  BY DEF NoAlloc
<1>2. ASSUME NEW o \in Rank PROVE NoAlloc # o
  BY <1>1, RankFacts
<1> QED
  BY <1>2

\* Away from its slots, a worker moves between points that ask the same of them.
LEMMA SlotMove ==
  ASSUME NEW r \in Rank, SlotInv(r),
         handle'[r] = handle[r], slice'[r] = slice[r], phase'[r] = phase[r],
         pc'[r] \in OwnsBlock => pc[r] \in OwnsBlock,
         pc'[r] # "map", pc'[r] \notin {"receive", "unmap"},
         pc'[r] \in BeforeToken => pc[r] \in BeforeToken,
         pc'[r] \in PastImport => pc[r] \in PastImport,
         pc'[r] \in {"arrive", "wait"} =>
           pc[r] \in {"arrive", "wait"} \/ phase[r] # "unmap",
         pc'[r] \in AtLoopStart => idx'[r] = 0
  PROVE  SlotInv(r)'
  BY DEF SlotInv, Importing, BeforeToken, Forking

LEMMA ThrowSlots ==
  ASSUME TypeOK, NEW r \in Rank, SlotInv(r), Throw(r), UNCHANGED <<prog, handle, slice>>
  PROVE  SlotInv(r)'
<1>1. pc'[r] = "cleanup"
  BY DEF Throw, Goto, TypeOK, ProgramType
<1>2. pc'[r] \notin OwnsBlock \cup PastImport \cup BeforeToken \cup AtLoopStart \cup Importing
  BY <1>1 DEF OwnsBlock, PastImport, BeforeToken, AtLoopStart, Trying, Forking, Importing
<1> QED
  BY <1>1, <1>2, SlotMove DEF prog

LEMMA SilentSlots ==
  ASSUME TypeOK, NEW r \in Rank, SlotInv(r), Silent(r)
  PROVE  SlotInv(r)'
<1>1. UNCHANGED <<prog, handle, slice>>
  BY DEF Silent, ArmParentDeathSignal, CheckParent, Exec, ExecFails, CloseFd, Return, Die,
         WorkerKilled, res
<1>2. /\ pc'[r] \in BeforeToken => pc[r] \in BeforeToken
      /\ pc'[r] \notin OwnsBlock \cup PastImport \cup Importing \/ pc'[r] = "init"
  BY DEF Silent, ArmParentDeathSignal, CheckParent, Exec, ExecFails, CloseFd, Return, Die,
         WorkerKilled, Goto, TypeOK, ProgramType, OwnsBlock, PastImport, Importing, BeforeToken,
         Trying, Forking
<1>3. "init" \notin OwnsBlock \cup PastImport \cup Importing /\ AtLoopStart \subseteq PastImport
  BY DEF OwnsBlock, PastImport, Importing, AtLoopStart, BeforeToken
<1>4. {"arrive", "wait", "unmap"} \subseteq PastImport /\ "receive" \in Importing /\ "map" \in Importing
  BY DEF PastImport, Importing, BeforeToken, Forking, Trying
<1>5. pc'[r] \notin OwnsBlock \cup PastImport \cup Importing
  BY <1>2, <1>3
<1>6. pc'[r] \notin AtLoopStart \cup {"arrive", "wait", "unmap", "receive", "map"}
  BY <1>3, <1>4, <1>5
<1> QED
  BY <1>1, <1>2, <1>5, <1>6, SlotMove DEF prog

LEMMA AcquireSlots ==
  ASSUME IInv, NEW r \in Rank, SlotInv(r), Acquires(r)
  PROVE  SlotInv(r)'
<1> USE DEF IInv, TypeOK, ProgramType, prog
<1>1. ASSUME NEW p \in {"init", "device", "reserve"}, NEW what,
             NEW q \in {"device", "reserve", "create"}, Acquire(r, p, what, q)
      PROVE  SlotInv(r)'
  <2>1. /\ UNCHANGED <<phase, handle, slice, idx>>
        /\ pc[r] \in {"init", "device", "reserve"} /\ pc'[r] \in {"device", "reserve", "create"}
    BY <1>1 DEF Acquire, Goto
  <2>2. QED
    BY ONLY <2>1, r \in Rank, SlotInv(r) DEF SlotInv, OwnsBlock, PastImport, AtLoopStart, BeforeToken, Importing,
                              Forking, Trying
<1>2. CASE SetupHbm(r)
  <2>1. UNCHANGED <<phase, handle, slice, idx>> /\ pc[r] = "hbm" /\ pc'[r] = "fill"
    BY <1>2 DEF SetupHbm, Acquire, Goto
  <2>2. QED
    BY ONLY <2>1, r \in Rank, SlotInv(r) DEF SlotInv, OwnsBlock, PastImport, AtLoopStart, BeforeToken, Importing,
                              Forking, Trying
<1> QED
  BY <1>1, <1>2 DEF Acquires, AclInit, SetDevice, Reserve

LEMMA WorkSlots ==
  ASSUME IInv, NEW r \in Rank, SlotInv(r), Works(r)
  PROVE  SlotInv(r)'
<1>1. /\ r \in Rank /\ idx[r] \in Rank /\ N \in Int /\ \A o \in Rank : o \in Int /\ 0 <= o /\ o < N
      /\ pc \in [Rank -> Step] /\ idx \in [Rank -> Rank]
      /\ handle[r] \in [Rank -> Word \cup {NoAlloc}] /\ slice[r] \in [Rank -> Word \cup {NoAlloc}]
      /\ handle \in [Rank -> [Rank -> Word \cup {NoAlloc}]]
      /\ slice \in [Rank -> [Rank -> Word \cup {NoAlloc}]]
  BY RankFacts DEF IInv, TypeOK, ProgramType, ResourceType
<1>2. WorkerInv(r) /\ SlotInv(r)
  BY DEF IInv
<1>3. ASSUME NEW p \in Step, NEW q \in Step, Loop(r, p, q)
      PROVE  \/ pc'[r] = p /\ idx'[r] = idx[r] + 1
             \/ pc'[r] = q /\ idx'[r] = 0 /\ idx[r] = N-1
  BY <1>3, LoopProgram
<1>4. {"arrive", "receive", "read", "unmap"} \subseteq Step
  BY DEF Step, Live, Trying
<1>5. CASE Create(r)
  <2>1. /\ pc[r] = "create" /\ pc'[r] = "export" /\ UNCHANGED <<phase, slice>>
        /\ handle'[r] = [handle[r] EXCEPT ![r] = r]
    BY ONLY <1>1, <1>5 DEF Create, Goto, prog
  <2>2. handle'[r][r] = r /\ \A o \in Rank : handle'[r][o] \in {o, NoAlloc}
    BY ONLY <1>1, <1>2, <2>1 DEF SlotInv
  <2>3. QED
    BY ONLY <1>1, <1>2, <2>1, <2>2
       DEF SlotInv, OwnsBlock, PastImport, AtLoopStart, BeforeToken, Importing, Forking, Trying
<1>6. CASE Map(r)
  <2>1. /\ pc[r] = "map" /\ UNCHANGED <<phase, handle>> /\ Loop(r, "receive", "arrive")
        /\ slice'[r] = [slice[r] EXCEPT ![idx[r]] = handle[r][idx[r]]]
    BY ONLY <1>1, <1>6 DEF Map, prog
  <2>2. /\ handle[r][idx[r]] = idx[r] /\ handle[r][r] = r /\ phase[r] = "import"
        /\ \A o \in Rank : slice[r][o] = IF o < idx[r] THEN o ELSE NoAlloc
        /\ \A o \in Rank : handle[r][o] \in {o, NoAlloc}
    BY ONLY <1>1, <1>2, <2>1 DEF SlotInv, WorkerInv, OwnsBlock, Importing, Trying
  <2>3. \A o \in Rank : slice'[r][o] = IF o < idx[r] + 1 THEN o ELSE NoAlloc
    <3>1. ASSUME NEW o \in Rank, o = idx[r]
          PROVE  slice'[r][o] = o /\ o < idx[r] + 1
      BY ONLY <1>1, <2>1, <2>2, <3>1
    <3>2. ASSUME NEW o \in Rank, o # idx[r]
          PROVE  slice'[r][o] = slice[r][o] /\ (o < idx[r] + 1 <=> o < idx[r])
      <4>1. slice'[r][o] = slice[r][o]
        BY ONLY <1>1, <2>1, <3>2
      <4>2. o \in Int /\ idx[r] \in Int
        BY ONLY <1>1
      <4>3. o < idx[r] + 1 <=> o < idx[r]
        BY ONLY <3>2, <4>2
      <4>4. QED
        BY <4>1, <4>3
    <3>3. QED
      BY ONLY <2>2, <3>1, <3>2
  <2>4. \/ pc'[r] = "receive" /\ idx'[r] = idx[r] + 1
        \/ pc'[r] = "arrive" /\ idx'[r] = 0 /\ idx[r] = N-1
    BY <1>3, <1>4, <2>1
  <2>5. CASE pc'[r] = "receive"
    BY ONLY <1>1, <2>1, <2>2, <2>3, <2>4, <2>5
       DEF SlotInv, OwnsBlock, PastImport, AtLoopStart, BeforeToken, Importing, Forking, Trying
  <2>6. CASE pc'[r] = "arrive"
    <3>1. \A o \in Rank : slice'[r][o] = o
      BY ONLY <1>1, <2>3, <2>4, <2>6
    <3>2. QED
      BY ONLY <1>1, <2>1, <2>2, <2>4, <2>6, <3>1
         DEF SlotInv, OwnsBlock, PastImport, AtLoopStart, BeforeToken, Importing, Forking, Trying
  <2>7. QED
    BY ONLY <2>4, <2>5, <2>6
<1>7. CASE BeginWrite(r) \/ Ends(r)
  <2>1. /\ UNCHANGED <<phase, handle, slice, idx>>
        /\ \/ pc[r] = "cpu" /\ pc'[r] = "aio"
           \/ pc[r] = "fill" /\ pc'[r] = "filling"
           \/ pc[r] \in {"aio", "filling"} /\ pc'[r] = "arrive"
    BY ONLY <1>1, <1>7 DEF BeginWrite, Ends, EndWrite, Goto, res, prog
  <2>2. pc[r] \in {"aio", "filling"} => phase[r] # "unmap"
    BY ONLY <1>2 DEF WorkerInv
  <2>3. QED
    BY ONLY <1>1, <1>2, <2>1, <2>2
       DEF SlotInv, OwnsBlock, PastImport, AtLoopStart, BeforeToken, Importing, Forking, Trying
<1>8. CASE Read(r)
  <2>1. /\ UNCHANGED <<phase, handle, slice>> /\ pc[r] = "read" /\ Loop(r, "read", "arrive")
    BY ONLY <1>1, <1>8 DEF Read, res, prog
  <2>2. phase[r] = "read"
    BY ONLY <1>2, <2>1 DEF WorkerInv
  <2>3. \/ pc'[r] = "read" /\ idx'[r] = idx[r] + 1
        \/ pc'[r] = "arrive" /\ idx'[r] = 0 /\ idx[r] = N-1
    BY <1>3, <1>4, <2>1
  <2>4. QED
    BY ONLY <1>1, <1>2, <2>1, <2>2, <2>3
       DEF SlotInv, OwnsBlock, PastImport, AtLoopStart, BeforeToken, Importing, Forking, Trying
<1>9. CASE Unmap(r)
  <2>1. /\ UNCHANGED <<phase, handle>> /\ pc[r] = "unmap" /\ Loop(r, "unmap", "arrive")
        /\ slice'[r] = [slice[r] EXCEPT ![idx[r]] = NoAlloc]
    BY ONLY <1>1, <1>9 DEF Unmap, AfterUnmap, prog
  <2>2. phase[r] = "unmap"
    BY ONLY <1>2, <2>1 DEF WorkerInv
  <2>3. \/ pc'[r] = "unmap" /\ idx'[r] = idx[r] + 1
        \/ pc'[r] = "arrive" /\ idx'[r] = 0 /\ idx[r] = N-1
    BY <1>3, <1>4, <2>1
  <2>4. /\ \A o \in Rank : o < idx[r] + 1 => slice'[r][o] = NoAlloc
        /\ \A o \in Rank : slice'[r][o] \in {o, NoAlloc}
    <3>1. ASSUME NEW o \in Rank, o = idx[r] PROVE slice'[r][o] = NoAlloc
      BY ONLY <1>1, <2>1, <3>1
    <3>2. ASSUME NEW o \in Rank, o # idx[r]
          PROVE  slice'[r][o] = slice[r][o] /\ (o < idx[r] + 1 <=> o < idx[r])
      <4>1. slice'[r][o] = slice[r][o]
        BY ONLY <1>1, <2>1, <3>2
      <4>2. o \in Int /\ idx[r] \in Int
        BY ONLY <1>1
      <4>3. o < idx[r] + 1 <=> o < idx[r]
        BY ONLY <3>2, <4>2
      <4>4. QED
        BY <4>1, <4>3
    <3>3. QED
      BY ONLY <1>2, <2>1, <3>1, <3>2 DEF SlotInv
  <2>5. CASE pc'[r] = "unmap"
    BY ONLY <1>1, <1>2, <2>1, <2>2, <2>3, <2>4, <2>5
       DEF SlotInv, OwnsBlock, PastImport, AtLoopStart, BeforeToken, Importing, Forking, Trying
  <2>6. CASE pc'[r] = "arrive"
    <3>1. \A o \in Rank : slice'[r][o] = NoAlloc
      BY ONLY <1>1, <2>3, <2>4, <2>6
    <3>2. QED
      BY ONLY <1>1, <1>2, <2>1, <2>2, <2>3, <2>6, <3>1
         DEF SlotInv, OwnsBlock, PastImport, AtLoopStart, BeforeToken, Importing, Forking, Trying
  <2>7. QED
    BY ONLY <2>3, <2>5, <2>6
<1> QED
  BY <1>5, <1>6, <1>7, <1>8, <1>9 DEF Works

LEMMA CleanupSlots ==
  ASSUME IInv, NEW r \in Rank, SlotInv(r), CleanupAct(r)
  PROVE  SlotInv(r)'
<1>1. /\ r \in Rank /\ idx[r] \in Rank /\ pc \in [Rank -> Step]
      /\ handle \in [Rank -> [Rank -> Word \cup {NoAlloc}]]
      /\ slice \in [Rank -> [Rank -> Word \cup {NoAlloc}]]
  BY DEF IInv, TypeOK, ProgramType, ResourceType
<1>2. WorkerInv(r) /\ SlotInv(r)
  BY DEF IInv
<1>3. ASSUME NEW leak, FreeHbm(r, leak) PROVE SlotInv(r)'
  <2>1. /\ UNCHANGED <<phase, handle, slice, idx>> /\ pc[r] = "freehbm" /\ pc'[r] = "arrive"
    BY ONLY <1>1, <1>3 DEF FreeHbm, Goto, prog
  <2>2. phase[r] = "free"
    BY ONLY <1>2, <2>1 DEF WorkerInv
  <2>3. QED
    BY ONLY <1>1, <1>2, <2>1, <2>2
       DEF SlotInv, OwnsBlock, PastImport, AtLoopStart, BeforeToken, Importing, Forking, Trying
<1>4. ASSUME NEW leak, CleanupLocal(r, leak) PROVE SlotInv(r)'
  <2>1. /\ UNCHANGED <<phase, handle, slice, idx>> /\ pc'[r] = "close"
    BY ONLY <1>1, <1>4 DEF CleanupLocal, Goto, prog
  <2>2. QED
    BY ONLY <1>1, <1>2, <2>1
       DEF SlotInv, OwnsBlock, PastImport, AtLoopStart, BeforeToken, Importing, Forking, Trying
<1>5. ASSUME NEW leak, CleanupSlot(r, leak) PROVE SlotInv(r)'
  <2>1. /\ UNCHANGED phase
        /\ slice'[r] = slice[r] \/ slice'[r] = [slice[r] EXCEPT ![idx[r]] = NoAlloc]
        /\ handle'[r] = handle[r] \/ handle'[r] = [handle[r] EXCEPT ![idx[r]] = NoAlloc]
    BY ONLY <1>1, <1>5 DEF CleanupSlot, prog
  <2>2. pc'[r] \in {"cleanup", "cleanlocal"}
    BY ONLY <1>1, <1>5 DEF CleanupSlot, Loop, Goto
  <2>3. \A o \in Rank : /\ slice'[r][o] \in {slice[r][o], NoAlloc}
                        /\ handle'[r][o] \in {handle[r][o], NoAlloc}
    BY ONLY <1>1, <2>1
  <2>4. QED
    BY ONLY <1>1, <1>2, <2>1, <2>2, <2>3
       DEF SlotInv, OwnsBlock, PastImport, AtLoopStart, BeforeToken, Importing, Forking, Trying
<1> QED
  BY <1>3, <1>4, <1>5 DEF CleanupAct

\* The token a worker takes off its socket is that of the rank its loop is at.
LEMMA TakenToken ==
  ASSUME IInv, NEW r \in Rank, InTransit(r), ReceiveToken(r) \/ ImportThrows(r)
  PROVE  /\ pc[r] = "receive" /\ idx[r] \in Rank /\ entered[r] = 0
         /\ Head(down[r]) = idx[r]
<1>1. /\ pc[r] = "receive" /\ down[r] # <<>> /\ down[r] \in Seq(Word) /\ idx[r] \in Rank
      /\ WorkerInv(r)
  BY DEF ReceiveToken, ImportThrows, IInv, TypeOK, ChannelType, ProgramType
<1>2. pc[r] \in Trying \ {"wait"} /\ pc[r] \in Importing /\ pc[r] \notin BeforeToken
  BY ONLY <1>1 DEF Trying, Importing, BeforeToken, Forking
<1>3. entered[r] = 0
  BY ONLY <1>1, <1>2 DEF WorkerInv
<1>4. Len(down[r]) >= 1 /\ Head(down[r]) = down[r][1] /\ Len(down[r]) \in Nat
  BY ONLY <1>1, Queues
<1>5. TokensTaken(r) = idx[r] /\ idx[r] \in Int
  BY ONLY <1>1, <1>2, RankFacts DEF TokensTaken
<1>6. down[r][1] = TokensTaken(r) + 1 - 1
  BY ONLY <1>2, <1>3, <1>4, InTransit(r) DEF InTransit
<1> QED
  BY ONLY <1>1, <1>3, <1>4, <1>5, <1>6

LEMMA TalkSlots ==
  ASSUME IInv, NEW r \in Rank, SlotInv(r), InTransit(r), Talks(r)
  PROVE  SlotInv(r)'
<1>1. /\ r \in Rank /\ idx[r] \in Rank /\ 0 \in Rank /\ \A o \in Rank : ~(o < 0)
      /\ pc \in [Rank -> Step] /\ idx \in [Rank -> Rank] /\ phase \in [Rank -> Phase]
      /\ handle \in [Rank -> [Rank -> Word \cup {NoAlloc}]]
      /\ slice \in [Rank -> [Rank -> Word \cup {NoAlloc}]]
  BY RankFacts DEF IInv, TypeOK, ProgramType, ResourceType
<1>2. WorkerInv(r) /\ SlotInv(r)
  BY DEF IInv
<1>3. CASE Export(r)
  <2>1. /\ UNCHANGED <<phase, handle, slice>>
        /\ pc[r] = "export" /\ pc'[r] = "receive" /\ idx'[r] = 0
    BY ONLY <1>1, <1>3 DEF Export, Goto, prog, res
  <2>2. \A o \in Rank : slice[r][o] = NoAlloc
    BY ONLY <1>2, <2>1 DEF SlotInv, BeforeToken
  <2>3. phase[r] = "import"
    BY ONLY <1>2, <2>1 DEF WorkerInv, BeforeToken
  <2>4. QED
    BY ONLY <1>1, <1>2, <2>1, <2>2, <2>3
       DEF SlotInv, OwnsBlock, PastImport, AtLoopStart, BeforeToken, Importing, Forking, Trying
<1>4. CASE ReceiveToken(r)
  <2>1. /\ UNCHANGED <<phase, slice, idx>> /\ pc[r] = "receive" /\ pc'[r] = "map"
        /\ handle'[r] = IF idx[r] = r THEN handle[r]
                        ELSE [handle[r] EXCEPT ![idx[r]] = Head(down[r])]
    BY ONLY <1>1, <1>4 DEF ReceiveToken, Goto, prog
  <2>2. Head(down[r]) = idx[r]
    BY <1>4, TakenToken
  <2>3. handle[r][r] = r
    BY ONLY <1>2, <2>1 DEF SlotInv, OwnsBlock, Trying
  <2>4. /\ handle'[r][idx[r]] = idx[r] /\ handle'[r][r] = r
        /\ \A o \in Rank : handle'[r][o] \in {o, NoAlloc}
    BY ONLY <1>1, <1>2, <2>1, <2>2, <2>3 DEF SlotInv
  <2>5. QED
    BY ONLY <1>1, <1>2, <2>1, <2>4
       DEF SlotInv, OwnsBlock, PastImport, AtLoopStart, BeforeToken, Importing, Forking, Trying
<1>5. CASE ImportThrows(r)
  BY <1>5, ThrowSlots DEF ImportThrows, IInv
<1>6. CASE Arrive(r)
  <2>1. UNCHANGED <<phase, handle, slice, idx>> /\ pc[r] = "arrive" /\ pc'[r] = "wait"
    BY ONLY <1>1, <1>6 DEF Arrive, Goto, res
  <2>2. QED
    BY ONLY <1>1, <1>2, <2>1
       DEF SlotInv, OwnsBlock, PastImport, AtLoopStart, BeforeToken, Importing, Forking, Trying
<1>7. CASE Pass(r)
  <2>1. UNCHANGED <<handle, slice, idx>> /\ pc[r] = "wait"
    BY ONLY <1>1, <1>7 DEF Pass, res
  <2>2. /\ idx[r] = 0 /\ handle[r][r] = r
        /\ phase[r] # "unmap" => \A o \in Rank : slice[r][o] = o
        /\ phase[r] = "unmap" => \A o \in Rank : slice[r][o] = NoAlloc
        /\ \A o \in Rank : handle[r][o] \in {o, NoAlloc} /\ slice[r][o] \in {o, NoAlloc}
    BY ONLY <1>1, <1>2, <2>1
       DEF SlotInv, OwnsBlock, PastImport, AtLoopStart, BeforeToken, Importing, Forking, Trying
  <2>3. \/ phase[r] = "unmap" /\ phase'[r] = "final" /\ pc'[r] = "cleanup"
        \/ phase[r] = "free" /\ phase'[r] = "unmap" /\ pc'[r] = "unmap"
        \/ /\ phase[r] # "unmap" /\ phase'[r] \in {"cpu", "write", "read", "free"}
           /\ pc'[r] \in {"cpu", "hbm", "fill", "read", "freehbm"}
    BY ONLY <1>1, <1>7 DEF Pass, AfterBarrier, Goto
  <2>4. QED
    BY ONLY <1>1, <2>1, <2>2, <2>3
       DEF SlotInv, OwnsBlock, PastImport, AtLoopStart, BeforeToken, Importing, Forking, Trying
<1> QED
  BY <1>3, <1>4, <1>5, <1>6, <1>7 DEF Talks

\* Slots of the other workers, and of all of them while the coordinator acts.
LEMMA SlotInvStep ==
  ASSUME IInv, \A r \in Rank : SlotInv(r) /\ InTransit(r), Next
  PROVE  \A s \in Rank : SlotInv(s)'
<1>1. ASSUME NEW r \in Rank, Acts(r) PROVE SlotInv(r)'
  <2>1. CASE Throws(r)
    <3>1. Throw(r) /\ UNCHANGED <<prog, handle, slice>>
      BY <2>1 DEF Throws, SendThrows, ReceiveThrows, UseThrows, WorkerFails
    <3>2. QED
      BY <3>1, ThrowSlots DEF IInv
  <2>2. QED
    BY <1>1, <2>1, SilentSlots, AcquireSlots, WorkSlots, CleanupSlots, TalkSlots DEF Acts, IInv
<1>2. ASSUME NEW r \in Rank, Acts(r), NEW s \in Rank, s # r PROVE SlotInv(s)'
  <2>1. /\ pc'[s] = pc[s] /\ idx'[s] = idx[s] /\ phase'[s] = phase[s]
        /\ handle'[s] = handle[s] /\ slice'[s] = slice[s]
    BY <1>2, Framed DEF Frame, IInv
  <2>2. QED
    BY ONLY <2>1, SlotInv(s) DEF SlotInv
<1>3. ASSUME Coordinates, NEW s \in Rank PROVE SlotInv(s)'
  <2>1. /\ idx' = idx /\ phase' = phase /\ handle' = handle /\ slice' = slice
    BY <1>3, CoordFrame DEF prog, res
  <2>2. pc'[s] = pc[s] \/ (pc[s] = "absent" /\ pc'[s] = "forked")
    BY <1>3, ForkedPc
  <2>3. QED
    BY ONLY <2>1, <2>2, SlotInv(s)
       DEF SlotInv, OwnsBlock, PastImport, AtLoopStart, BeforeToken, Importing, Forking, Trying
<1> QED
  BY <1>1, <1>2, <1>3, TwoKinds DEF IInv

\* The coordinator's list of tokens is in rank order.
LEMMA TokenOrderStep == IInv /\ TokenOrder /\ Next => TokenOrder'
<1> SUFFICES ASSUME IInv, TokenOrder, Next PROVE TokenOrder'
  OBVIOUS
<1>1. CASE CollectToken
  <2>1. /\ cpc = "tokens" /\ Len(tokens) = cidx /\ tokens \in Seq(Rank) /\ cidx < N
        /\ cidx \in 0 .. N /\ \A r \in Rank : up[r] \in Seq(Word)
    BY <1>1 DEF CollectToken, IInv, TypeOK, CoordType, ChannelType, CoordInv, CoordLoop,
                Serving, Starting
  <2>2. cidx \in Rank /\ SocketInv(cidx) /\ up[cidx] # <<>>
    BY <1>1, <2>1 DEF CollectToken, IInv, CoordInv, Serving, Starting, Rank
  <2>3. tokens' = Append(tokens, Head(up[cidx]))
    BY <1>1 DEF CollectToken, PushBack
  <2>4. cpc' \in {"tokens", "bcast"}
    BY ONLY <1>1, <2>1 DEF CollectToken, NextSocket
  <2>5. tokens' \in Seq(Rank)
    BY <2>4, IInvStep DEF IInv, CoordInv, CoordLoop, Serving, Starting
  <2>6. Len(tokens) \in Nat /\ Len(tokens') = Len(tokens) + 1
    BY <2>1, <2>2, <2>3, Queues
  <2>7. tokens'[Len(tokens) + 1] = Head(up[cidx])
    BY <2>1, <2>3, <2>6
  <2>8. tokens'[Len(tokens) + 1] \in Rank
    BY <2>5, <2>6
  <2>9. Head(up[cidx]) = cidx
    <3>1. Sync \notin Rank
      BY RankFacts DEF Sync
    <3>2. up[cidx] = <<cidx>>
      BY <2>2, <2>7, <2>8, <3>1, Singletons DEF SocketInv
    <3>3. QED
      BY <3>2, Singletons
  <2>10. ASSUME NEW i \in 1 .. Len(tokens') PROVE tokens'[i] = i - 1
    <3>1. CASE i = Len(tokens) + 1
      BY <2>1, <2>6, <2>7, <2>9, <3>1
    <3>2. CASE i # Len(tokens) + 1
      <4>1. i \in 1 .. Len(tokens)
        BY <2>6, <3>2
      <4>2. tokens'[i] = tokens[i]
        BY <2>1, <2>3, <4>1
      <4>3. QED
        BY <2>1, <4>1, <4>2 DEF TokenOrder, Serving, Starting
    <3>3. QED
      BY <3>1, <3>2
  <2>11. QED
    BY <2>10 DEF TokenOrder
<1>2. CASE ~CollectToken
  <2>1. tokens' = tokens /\ (cpc' \in Serving => cpc \in Serving)
    <3>1. ASSUME NEW r \in Rank, Acts(r) PROVE tokens' = tokens /\ cpc' = cpc
      BY <3>1, Framed DEF Frame, coord, loops, IInv
    <3>2. CASE Coordinates
      BY <1>2, <3>2 DEF Coordinates, Fork, Serves, SendToken, Gather, Release, Stops, CoordThrows,
         CloseSockets, KillChildren, WaitChildren, CoordFails, CoordKilled, vars, coord, loops,
         Serving, Starting
    <3>3. QED
      BY <3>1, <3>2, TwoKinds DEF IInv
  <2>2. QED
    BY ONLY <2>1, TokenOrder DEF TokenOrder
<1> QED
  BY <1>1, <1>2

\* The tokens on their way to a worker are the ones its loop still waits for.
LEMMA InTransitStep ==
  ASSUME IInv, TokenOrder, \A r \in Rank : InTransit(r), Next
  PROVE  \A s \in Rank : InTransit(s)'
<1>0. /\ pc \in [Rank -> Step] /\ down \in [Rank -> Seq(Word)] /\ idx \in [Rank -> Rank]
      /\ entered \in [Rank -> 0 .. Barriers] /\ returned \in [Rank -> 0 .. Barriers]
      /\ Barriers \in Nat
  BY DEF IInv, TypeOK, ProgramType, ChannelType, Barriers
<1>1. ASSUME NEW r \in Rank, Acts(r), NEW s \in Rank, s # r PROVE InTransit(s)'
  <2>1. /\ pc'[s] = pc[s] /\ idx'[s] = idx[s] /\ entered'[s] = entered[s]
        /\ down'[s] = down[s]
    BY <1>1, Framed DEF Frame, IInv
  <2>2. QED
    BY ONLY <2>1, InTransit(s) DEF InTransit, TokensTaken
<1>2. ASSUME NEW r \in Rank, Local(r) PROVE InTransit(r)'
  <2>1. PcMove(r) /\ down' = down /\ entered' = entered
    BY <1>2, LocalStep
  <2>2. QED
    BY ONLY <2>1, InTransit(r) DEF InTransit, PcMove
<1>3. ASSUME NEW r \in Rank, Export(r) PROVE InTransit(r)'
  <2>1. /\ pc[r] = "export" /\ pc'[r] = "receive" /\ idx'[r] = 0
        /\ down' = down /\ entered' = entered
    BY ONLY <1>0, <1>3 DEF Export, Goto, prog
  <2>2. TokensTaken(r) = 0 /\ TokensTaken(r)' = 0 /\ pc[r] \in BeforeToken
    BY ONLY <2>1 DEF TokensTaken, BeforeToken, Forking
  <2>3. QED
    BY ONLY <2>1, <2>2, InTransit(r) DEF InTransit
<1>4. ASSUME NEW r \in Rank, ReceiveToken(r) PROVE InTransit(r)'
  <2>1. /\ pc[r] = "receive" /\ pc'[r] = "map" /\ idx' = idx /\ entered' = entered
        /\ down[r] # <<>> /\ down'[r] = Tail(down[r]) /\ idx[r] \in Rank
        /\ down[r] \in Seq(Word)
    BY ONLY <1>0, <1>4 DEF ReceiveToken, Goto, prog
  <2>2. TokensTaken(r) = idx[r] /\ TokensTaken(r)' = idx[r] + 1 /\ idx[r] \in Int
    BY ONLY <2>1, RankFacts DEF TokensTaken, BeforeToken, Forking
  <2>3. Len(down[r]) \in Nat /\ Len(down'[r]) = Len(down[r]) - 1
    BY ONLY <2>1, Queues
  <2>4. entered[r] = 0 /\ pc[r] \in Trying
    BY <1>4, <2>1, TakenToken DEF Trying
  <2>5. ASSUME NEW i \in 1 .. Len(down'[r]) PROVE down'[r][i] = idx[r] + 1 + i - 1
    <3>1. i + 1 \in 1 .. Len(down[r]) /\ i \in Int
      BY ONLY <2>3, <2>5
    <3>2. down'[r][i] = down[r][i + 1]
      BY ONLY <2>1, <2>3, <2>5
    <3>3. down[r][i + 1] = idx[r] + (i + 1) - 1
      BY ONLY <2>2, <2>4, <3>1, InTransit(r) DEF InTransit
    <3>4. QED
      BY ONLY <2>2, <3>1, <3>2, <3>3
  <2>6. QED
    BY ONLY <2>2, <2>5 DEF InTransit
<1>5. ASSUME NEW r \in Rank, ImportThrows(r) PROVE InTransit(r)'
  <2>1. pc'[r] = "cleanup"
    BY ONLY <1>0, <1>5 DEF ImportThrows, Throw, Goto
  <2>2. QED
    BY ONLY <2>1 DEF InTransit, BeforeToken, Forking, Trying
<1>6. ASSUME NEW r \in Rank, Arrive(r) \/ Pass(r) PROVE InTransit(r)'
  <2>1. WorkerInv(r)
    BY DEF IInv
  <2>2. /\ pc[r] = "arrive" => entered'[r] = entered[r] + 1
        /\ pc[r] = "wait" => entered'[r] = entered[r]
        /\ pc[r] \in {"arrive", "wait"}
    BY ONLY <1>0, <1>6 DEF Arrive, Pass
  <2>3. entered'[r] # 0
    BY ONLY <1>0, r \in Rank, <2>1, <2>2 DEF WorkerInv
  <2>4. QED
    BY ONLY <2>3 DEF InTransit
<1>7. ASSUME SendToken, NEW s \in Rank PROVE InTransit(s)'
  <2>1. /\ cpc = "bcast" /\ cword \in Nat /\ cword < N /\ tokens \in Seq(Rank) /\ Len(tokens) = N
        /\ \A r \in Rank : SocketInv(r)
    BY <1>7 DEF SendToken, IInv, TypeOK, CoordType, CoordInv, CoordLoop, Serving, Starting
  <2>2. PICK c \in Rank : c = cidx
    BY <1>7 DEF SendToken, CoordInv, CoordLoop, Serving, Starting, Rank, IInv, TypeOK, CoordType
  <2>3. /\ down' = [down EXCEPT ![c] = Append(@, tokens[cword + 1])]
        /\ UNCHANGED <<pc, idx, entered>>
    BY <1>7, <2>2 DEF SendToken, workers, prog
  <2>4. TokensTaken(s)' = TokensTaken(s)
    BY ONLY <2>3 DEF TokensTaken
  <2>5. CASE s # c
    <3>1. down'[s] = down[s]
      BY <1>0, <2>3, <2>5
    <3>2. QED
      BY ONLY <2>3, <2>4, <3>1, InTransit(s) DEF InTransit
  <2>6. CASE s = c
    <3> SUFFICES ASSUME pc[s] \in BeforeToken \cup Trying, entered[s] = 0,
                        NEW i \in 1 .. Len(down'[s])
                 PROVE  down'[s][i] = TokensTaken(s) + i - 1
      BY <2>3, <2>4 DEF InTransit
    <3>1. tokens[cword + 1] = cword /\ tokens[cword + 1] \in Word
      <4>1. cword + 1 \in 1 .. Len(tokens)
        BY ONLY <2>1, NAssumption
      <4>2. tokens[cword + 1] = cword + 1 - 1
        BY ONLY <2>1, <4>1, TokenOrder DEF TokenOrder, Serving, Starting
      <4>3. QED
        BY ONLY <2>1, <4>1, <4>2 DEF Word
    <3>2. /\ down[s] \in Seq(Word) /\ down'[s] = Append(down[s], cword)
          /\ Len(down[s]) \in Nat /\ Len(down'[s]) = Len(down[s]) + 1
      BY <1>0, <2>3, <2>6, <3>1, Queues
    <3>3. TokensTaken(s) + Len(down[s]) = cword
      <4>1. TokensSent(s) = cword
        BY ONLY <2>1, <2>2, <2>6, RankOrder DEF TokensSent
      <4>2. QED
        BY <2>1, <4>1 DEF SocketInv
    <3>4. TokensTaken(s) \in Int
      BY <1>0, RankOrder DEF TokensTaken
    <3>5. CASE i = Len(down[s]) + 1
      <4>1. down'[s][i] = cword
        BY ONLY <3>1, <3>2, <3>5
      <4>2. QED
        BY ONLY <3>2, <3>3, <3>4, <3>5, <4>1
    <3>6. CASE i # Len(down[s]) + 1
      <4>1. i \in 1 .. Len(down[s])
        BY ONLY <3>2, <3>6, i \in 1 .. Len(down'[s])
      <4>2. down'[s][i] = down[s][i]
        BY ONLY <3>1, <3>2, <4>1
      <4>3. QED
        BY <4>1, <4>2 DEF InTransit
    <3>7. QED
      BY <3>5, <3>6
  <2>7. QED
    BY <2>5, <2>6
<1>8. ASSUME Release, NEW s \in Rank PROVE InTransit(s)'
  <2>1. cpc = "release" /\ cphase \in Nat
    BY <1>8 DEF Release, IInv, TypeOK, CoordType
  <2>2. Gathered(s) = cphase + 1 /\ entered[s] >= Gathered(s)
    <3>1. Gathered(s) = cphase + 1
      BY ONLY <2>1 DEF Gathered, Bit
    <3>2. entered[s] = IF up[s] = <<Sync>> THEN Gathered(s) + 1 ELSE Gathered(s)
      BY <2>1, Counts DEF Serving
    <3>3. QED
      BY ONLY <2>1, <3>1, <3>2
  <2>3. entered' = entered
    BY <1>8 DEF Release, workers, prog
  <2>4. entered'[s] # 0
    BY <1>0, <2>1, <2>2, <2>3
  <2>5. QED
    BY ONLY <2>4 DEF InTransit
<1>9. ASSUME Coordinates, ~SendToken, ~Release, NEW s \in Rank PROVE InTransit(s)'
  <2>1. UNCHANGED <<idx, entered, down>>
    BY <1>9, CoordFrame DEF prog, Coordinates, Fork, Serves, CollectToken, Gather, Stops, CoordThrows,
         CloseSockets, KillChildren, WaitChildren, CoordFails, CoordKilled, vars
  <2>2. pc'[s] = pc[s] \/ (pc[s] = "absent" /\ pc'[s] = "forked")
    BY <1>9, ForkedPc
  <2>3. QED
    BY ONLY <2>1, <2>2, InTransit(s) DEF InTransit, TokensTaken, BeforeToken, Forking
<1> QED
  BY <1>1, <1>2, <1>3, <1>4, <1>5, <1>6, <1>7, <1>8, <1>9, TwoKinds
     DEF IInv, Acts, Local, Talks

-----------------------------------------------------------------------------
\* Contents.  A worker writes its own allocation and no other.
Writes(r) == BeginWrite(r) \/ Ends(r)

LEMMA OwnSlice ==
  ASSUME IInv, NEW r \in Rank, SlotInv(r), Writes(r)
  PROVE  slice[r][r] = r
<1>1. WorkerInv(r) /\ pc[r] \in {"cpu", "fill", "aio", "filling"}
  BY DEF IInv, Writes, BeginWrite, Ends, EndWrite
<1>2. phase[r] # "unmap" /\ pc[r] \in PastImport
  BY ONLY <1>1 DEF WorkerInv, PastImport, BeforeToken, Importing, Forking, Trying
<1> QED
  BY <1>2 DEF SlotInv

LEMMA MemFrame ==
  ASSUME IInv, NEW r \in Rank, SlotInv(r), Acts(r)
  PROVE  /\ ~Writes(r) => mem' = mem
         /\ \A s \in Rank \ {r} : mem'[s] = mem[s]
<1>1. CASE Writes(r)
  BY <1>1, OwnSlice DEF Writes, BeginWrite, Ends, EndWrite, IInv, TypeOK, ResourceType
<1>2. CASE ~Writes(r)
  BY <1>2 DEF Writes, Acts, Throws, SendThrows, ReceiveThrows, UseThrows, WorkerFails,
     CleanupAct, FreeHbm, CleanupSlot, CleanupLocal,
     Silent, ArmParentDeathSignal, CheckParent, Exec, ExecFails, CloseFd, Return, Die, WorkerKilled,
     Acquires, Acquire, AclInit, SetDevice, Reserve, SetupHbm,
     Works, Create, Map, Read, Unmap, Talks, Export, ReceiveToken, ImportThrows, Arrive, Pass
<1> QED
  BY <1>1, <1>2

LEMMA LocalProgram ==
  ASSUME NEW r \in Rank, Local(r)
  PROVE  UNCHANGED <<phase, round, entered, returned>>
  BY DEF Local, Throws, SendThrows, ReceiveThrows, UseThrows, WorkerFails,
     CleanupAct, FreeHbm, CleanupSlot, CleanupLocal,
     Silent, ArmParentDeathSignal, CheckParent, Exec, ExecFails, CloseFd, Return, Die, WorkerKilled,
     Acquires, Acquire, AclInit, SetDevice, Reserve, SetupHbm,
     Works, Create, Map, BeginWrite, Ends, EndWrite, Read, Unmap, prog

\* The worker is at the barrier after its write only when it has written.
LEMMA ToTheWriteBarrier ==
  ASSUME IInv, NEW r \in Rank, Acts(r), ~Writes(r), pc'[r] = "arrive", phase'[r] = "write"
  PROVE  pc[r] = "arrive" /\ phase[r] = "write" /\ round'[r] = round[r]
<1>1. WorkerInv(r) /\ pc \in [Rank -> Step] /\ phase \in [Rank -> Phase]
  BY DEF IInv, TypeOK, ProgramType
<1>2. CASE Throws(r) \/ Silent(r) \/ Acquires(r)
  BY ONLY <1>1, <1>2, pc'[r] = "arrive", r \in Rank
     DEF Throws, SendThrows, ReceiveThrows, UseThrows, WorkerFails, Throw, Goto,
     Silent, ArmParentDeathSignal, CheckParent, Exec, ExecFails, CloseFd, Return, Die, WorkerKilled,
     Acquires, Acquire, AclInit, SetDevice, Reserve, SetupHbm
<1>3. CASE CleanupAct(r) \/ Works(r)
  <2>1. pc[r] \in {"freehbm", "map", "read", "unmap"}
    BY <1>1, <1>3 DEF CleanupAct, FreeHbm, CleanupSlot, CleanupLocal, Loop, Goto,
       Works, Writes, Create, Map, Read, Unmap
  <2>2. phase' = phase
    BY <1>3, LocalProgram DEF Local
  <2>3. QED
    BY ONLY <1>1, <2>1, <2>2, phase'[r] = "write" DEF WorkerInv, Importing
<1>4. CASE Talks(r)
  BY ONLY <1>1, <1>4, pc'[r] = "arrive", r \in Rank
     DEF Talks, Export, ReceiveToken, ImportThrows, Throw, Goto, Arrive, Pass, AfterBarrier
<1> QED
  BY <1>2, <1>3, <1>4 DEF Acts

LEMMA MemInvStep ==
  ASSUME IInv, \A r \in Rank : SlotInv(r) /\ MemInv(r), Next
  PROVE  \A s \in Rank : MemInv(s)'
<1>0. /\ pc \in [Rank -> Step] /\ mem \in [Rank -> Int] /\ Rounds \in Int
      /\ \A s \in Rank : entered[s] \in Int /\ returned[s] \in Int /\ round[s] \in Int
      /\ entered \in [Rank -> 0 .. Barriers] /\ returned \in [Rank -> 0 .. Barriers]
  BY DEF IInv, TypeOK, ProgramType, ResourceType, Barriers
<1>1. ASSUME NEW r \in Rank, Acts(r), NEW s \in Rank, s # r PROVE MemInv(s)'
  <2>1. /\ pc'[s] = pc[s] /\ phase'[s] = phase[s] /\ entered'[s] = entered[s]
        /\ returned'[s] = returned[s] /\ round'[s] = round[s] /\ mem'[s] = mem[s]
    BY <1>1, Framed, MemFrame DEF Frame, IInv
  <2>2. QED
    BY ONLY <2>1, MemInv(s) DEF MemInv
<1>2. ASSUME NEW r \in Rank, Writes(r) PROVE MemInv(r)'
  <2>1. UNCHANGED <<phase, round, entered, returned>> /\ WorkerInv(r)
    BY <1>2, LocalProgram DEF Local, Works, Writes, IInv
  <2>2. CASE BeginWrite(r)
    <3>1. /\ pc[r] \in {"cpu", "fill"} /\ pc'[r] # "arrive"
      BY <1>0, <2>2 DEF BeginWrite, Goto
    <3>2. returned[r] = entered[r] /\ (returned[r] = 1 \/ returned[r] = 2 + 2 * round[r])
      BY ONLY <2>1, <3>1 DEF WorkerInv, Trying
    <3>3. ASSUME NEW k \in 0 .. Rounds-1, 3 + 2 * k <= entered[r], returned[r] <= 3 + 2 * k
          PROVE  FALSE
      BY ONLY <1>0, r \in Rank, <3>2, <3>3
    <3>4. QED
      BY ONLY <2>1, <3>1, <3>3 DEF MemInv
  <2>3. CASE Ends(r)
    <3>1. /\ pc[r] \in {"aio", "filling"}
          /\ pc[r] = "filling" => mem'[r] = Seed(round[r], r)
      BY <1>0, <1>2, <2>3, OwnSlice DEF Ends, EndWrite, WrittenSeed
    <3>2. /\ returned[r] = entered[r] /\ (returned[r] = 1 \/ returned[r] = 2 + 2 * round[r])
          /\ pc[r] = "aio" => phase[r] = "cpu"
      BY ONLY <2>1, <3>1 DEF WorkerInv, Trying
    <3>3. ASSUME NEW k \in 0 .. Rounds-1, 3 + 2 * k <= entered[r], returned[r] <= 3 + 2 * k
          PROVE  FALSE
      BY ONLY <1>0, r \in Rank, <3>2, <3>3
    <3>4. QED
      BY ONLY <2>1, <3>1, <3>2, <3>3 DEF MemInv
  <2>4. QED
    BY <1>2, <2>2, <2>3 DEF Writes
<1>3. ASSUME NEW r \in Rank, Arrive(r) PROVE MemInv(r)'
  <2>1. /\ pc[r] = "arrive" /\ pc'[r] = "wait" /\ entered'[r] = entered[r] + 1
        /\ UNCHANGED <<phase, round, returned, mem>>
    BY <1>0, <1>3 DEF Arrive, Goto
  <2>2. WorkerInv(r) /\ phase[r] \in Phase
    BY DEF IInv, TypeOK, ProgramType
  <2>3. ASSUME NEW k \in 0 .. Rounds-1, 3 + 2 * k <= entered'[r], returned[r] <= 3 + 2 * k
        PROVE  mem[r] = Seed(k, r)
    <3>1. CASE 3 + 2 * k <= entered[r]
      BY ONLY <2>3, <3>1, MemInv(r) DEF MemInv
    <3>2. CASE ~(3 + 2 * k <= entered[r])
      <4>1. entered[r] = returned[r] /\ phase[r] # "final"
        BY ONLY <2>1, <2>2 DEF WorkerInv, Trying
      <4>2. returned[r] = 2 + 2 * k
        BY ONLY <1>0, r \in Rank, <2>1, <2>3, <3>2, <4>1
      <4>3. phase[r] = "write" => k = round[r]
        BY ONLY <1>0, r \in Rank, <2>2, <4>2, k \in 0 .. Rounds-1 DEF WorkerInv
      <4>4. phase[r] = "write"
        BY ONLY <1>0, r \in Rank, <2>2, <4>1, <4>2, k \in 0 .. Rounds-1 DEF WorkerInv, Phase
      <4>5. QED
        BY ONLY <2>1, <4>3, <4>4, MemInv(r) DEF MemInv
    <3>3. QED
      BY <3>1, <3>2
  <2>4. QED
    BY ONLY <2>1, <2>3 DEF MemInv
<1>4. ASSUME NEW r \in Rank, Pass(r) PROVE MemInv(r)'
  <2>1. /\ pc'[r] # "arrive" /\ returned'[r] = returned[r] + 1 /\ UNCHANGED <<entered, mem>>
    BY <1>0, <1>4 DEF Pass, AfterBarrier, Goto
  <2>2. \A k \in 0 .. Rounds-1 : returned'[r] <= 3 + 2 * k => returned[r] <= 3 + 2 * k
    BY ONLY <1>0, r \in Rank, <2>1
  <2>3. QED
    BY ONLY <2>1, <2>2, MemInv(r) DEF MemInv
<1>5. ASSUME NEW r \in Rank, Acts(r), ~Writes(r), ~Arrive(r), ~Pass(r) PROVE MemInv(r)'
  <2>1. UNCHANGED <<entered, returned>> /\ mem' = mem
    BY <1>5, MemFrame, LocalProgram
       DEF Acts, Local, Talks, Export, ReceiveToken, ImportThrows, prog
  <2>2. pc'[r] = "arrive" /\ phase'[r] = "write" =>
          pc[r] = "arrive" /\ phase[r] = "write" /\ round'[r] = round[r]
    BY <1>5, ToTheWriteBarrier
  <2>3. QED
    BY ONLY <2>1, <2>2, MemInv(r) DEF MemInv
<1>6. ASSUME Coordinates, NEW s \in Rank PROVE MemInv(s)'
  <2>1. /\ UNCHANGED <<phase, round, entered, returned, mem>>
        /\ pc'[s] = "arrive" => pc[s] = "arrive"
    BY <1>6, CoordFrame, ForkedPc DEF prog
  <2>2. QED
    BY ONLY <2>1, MemInv(s) DEF MemInv
<1> QED
  BY <1>1, <1>2, <1>3, <1>4, <1>5, <1>6, TwoKinds DEF IInv

-----------------------------------------------------------------------------
\* Leaving.  A clean-up call that fails is remembered.
LEMMA Leaks ==
  ASSUME TypeOK, NEW r \in Rank, NEW leak, Leak(r, leak), ~cleanupFailed'[r]
  PROVE  leak = {} /\ ~cleanupFailed[r]
  BY DEF Leak, TypeOK, ProgramType

\* A worker that stays in the try block promises nothing yet.
LEMMA StillTrying ==
  ASSUME NEW r, pc'[r] \notin Leaving \cup {"exited"}
  PROVE  CleanInv(r)'
  BY DEF CleanInv, Leaving

LEMMA ThrowClean ==
  ASSUME TypeOK, NEW r \in Rank, Throw(r)
  PROVE  CleanInv(r)'
<1>1. pc'[r] = "cleanup" /\ idx'[r] = 0 /\ result'[r] = 1
  BY DEF Throw, Goto, TypeOK, ProgramType
<1>2. \A o \in Rank : ~(o < 0)
  BY RankOrder
<1> QED
  BY ONLY <1>1, <1>2 DEF CleanInv

LEMMA SilentClean ==
  ASSUME TypeOK, NEW r \in Rank, CleanInv(r), Silent(r)
  PROVE  CleanInv(r)'
<1>0. /\ pc \in [Rank -> Step] /\ result \in [Rank -> {0, 1, 125, 127}]
      /\ cleanupFailed[r] \in BOOLEAN
  BY DEF TypeOK, ProgramType
<1>1. CASE ArmParentDeathSignal(r) \/ Exec(r) \/ Die(r) \/ WorkerKilled(r)
  <2>1. pc'[r] \in {"armed", "init", "killed"}
    BY ONLY <1>0, <1>1, r \in Rank DEF ArmParentDeathSignal, Exec, Die, WorkerKilled, Goto
  <2>2. QED
    BY <2>1, StillTrying DEF Leaving
<1>2. CASE CheckParent(r) \/ ExecFails(r)
  <2>1. pc'[r] = "execing" \/ (pc'[r] = "exited" /\ result'[r] # 0)
    BY ONLY <1>0, <1>2, r \in Rank DEF CheckParent, ExecFails, Goto
  <2>2. QED
    BY ONLY <2>1 DEF CleanInv, Leaving
<1>3. CASE CloseFd(r)
  <2>1. /\ UNCHANGED <<phase, result, cleanupFailed, held, handle, slice>>
        /\ pc[r] = "close" /\ pc'[r] = "return"
    BY ONLY <1>0, <1>3, r \in Rank DEF CloseFd, Goto, prog, res, outcome
  <2>2. QED
    BY ONLY <2>1, CleanInv(r) DEF CleanInv, Leaving, Empty
<1>4. CASE Return(r)
  <2>1. /\ UNCHANGED <<phase, held, handle, slice>>
        /\ pc[r] = "return" /\ pc'[r] = "exited"
        /\ result'[r] = IF cleanupFailed[r] THEN 1 ELSE result[r]
    BY ONLY <1>0, <1>4, r \in Rank DEF Return, Goto, prog, res
  <2>2. CASE cleanupFailed[r]
    BY ONLY <2>1, <2>2 DEF CleanInv, Leaving
  <2>3. CASE ~cleanupFailed[r]
    BY ONLY <2>1, <2>3, CleanInv(r) DEF CleanInv, Leaving, Empty
  <2>4. QED
    BY <2>2, <2>3
<1> QED
  BY <1>1, <1>2, <1>3, <1>4 DEF Silent

LEMMA CleanupClean ==
  ASSUME IInv, NEW r \in Rank, CleanInv(r), CleanupAct(r)
  PROVE  CleanInv(r)'
<1>0. /\ pc \in [Rank -> Step] /\ held \in [Rank -> SUBSET Resource] /\ TypeOK
      /\ handle \in [Rank -> [Rank -> Word \cup {NoAlloc}]]
      /\ slice \in [Rank -> [Rank -> Word \cup {NoAlloc}]]
      /\ r \in Rank /\ idx[r] \in Rank
  BY DEF IInv, TypeOK, ProgramType, ResourceType
<1>1. ASSUME NEW leak, FreeHbm(r, leak) PROVE CleanInv(r)'
  <2>1. pc'[r] = "arrive"
    BY ONLY <1>0, <1>1 DEF FreeHbm, Goto
  <2>2. QED
    BY <2>1, StillTrying DEF Leaving
<1>2. ASSUME NEW leak, CleanupLocal(r, leak) PROVE CleanInv(r)'
  <2>1. /\ pc[r] = "cleanlocal" /\ pc'[r] = "close" /\ held'[r] = leak
        /\ UNCHANGED <<phase, result, handle, slice>>
    BY ONLY <1>0, <1>2 DEF CleanupLocal, Goto, prog
  <2>2. ~cleanupFailed'[r] => leak = {} /\ ~cleanupFailed[r]
    BY <1>0, <1>2, Leaks DEF CleanupLocal
  <2>3. QED
    BY ONLY <2>1, <2>2, CleanInv(r) DEF CleanInv, Leaving, Empty
<1>3. ASSUME NEW leak, CleanupSlot(r, leak) PROVE CleanInv(r)'
  <2>1. /\ pc[r] = "cleanup" /\ UNCHANGED <<phase, result, held>>
        /\ Loop(r, "cleanup", "cleanlocal") /\ Leak(r, leak)
        /\ leak = {} => /\ slice'[r] = [slice[r] EXCEPT ![idx[r]] = NoAlloc]
                        /\ handle'[r] = [handle[r] EXCEPT ![idx[r]] = NoAlloc]
    BY ONLY <1>0, <1>3 DEF CleanupSlot, prog
  <2>2. \/ pc'[r] = "cleanup" /\ idx'[r] = idx[r] + 1
        \/ pc'[r] = "cleanlocal" /\ idx'[r] = 0 /\ idx[r] = N-1
    <3>1. "cleanup" \in Step /\ "cleanlocal" \in Step
      BY DEF Step, Live, Leaving
    <3>2. QED
      BY <2>1, <3>1, LoopProgram
  <2>3. ~cleanupFailed'[r] => leak = {} /\ ~cleanupFailed[r]
    BY <1>0, <2>1, Leaks
  <2>4. result'[r] = 0 => phase'[r] = "final"
    BY ONLY <2>1, CleanInv(r) DEF CleanInv, Leaving
  <2>5. ASSUME ~cleanupFailed'[r], NEW o \in Rank, o < idx[r] \/ o = idx[r]
        PROVE  Empty(r, o)'
    <3>1. CASE o = idx[r]
      BY ONLY <1>0, <2>1, <2>3, <2>5, <3>1 DEF Empty
    <3>2. CASE o # idx[r]
      <4>1. Empty(r, o)
        BY ONLY <2>1, <2>3, <2>5, <3>2, CleanInv(r) DEF CleanInv
      <4>2. QED
        BY ONLY <1>0, <2>1, <2>3, <2>5, <3>2, <4>1 DEF Empty
    <3>3. QED
      BY <3>1, <3>2
  <2>6. \A o \in Rank : /\ o < idx[r] + 1 => o < idx[r] \/ o = idx[r]
                        /\ idx[r] = N-1 => o < idx[r] \/ o = idx[r]
    BY <1>0, RankOrder
  <2>7. QED
    BY ONLY <2>2, <2>4, <2>5, <2>6 DEF CleanInv
<1> QED
  BY <1>1, <1>2, <1>3 DEF CleanupAct

LEMMA CleanInvStep ==
  ASSUME IInv, \A r \in Rank : SlotInv(r) /\ CleanInv(r), Next
  PROVE  \A s \in Rank : CleanInv(s)'
<1>0. pc \in [Rank -> Step] /\ idx \in [Rank -> Rank] /\ phase \in [Rank -> Phase]
  BY DEF IInv, TypeOK, ProgramType
<1>1. ASSUME NEW r \in Rank, Acts(r), NEW s \in Rank, s # r PROVE CleanInv(s)'
  <2>1. /\ pc'[s] = pc[s] /\ idx'[s] = idx[s] /\ phase'[s] = phase[s]
        /\ held'[s] = held[s] /\ handle'[s] = handle[s] /\ slice'[s] = slice[s]
        /\ result'[s] = result[s] /\ cleanupFailed'[s] = cleanupFailed[s]
    BY <1>1, Framed DEF Frame, IInv
  <2>2. QED
    BY ONLY <2>1, CleanInv(s) DEF CleanInv, Empty
<1>2. ASSUME NEW r \in Rank, Throws(r) \/ ImportThrows(r) PROVE CleanInv(r)'
  BY <1>2, ThrowClean DEF Throws, SendThrows, ReceiveThrows, UseThrows, WorkerFails,
     ImportThrows, IInv
<1>3. ASSUME NEW r \in Rank, Acquires(r) \/ Works(r) PROVE CleanInv(r)'
  <2>1. pc'[r] \notin Leaving \cup {"exited"}
    BY <1>0, <1>3 DEF Leaving, Goto, Acquires, AclInit, SetDevice, Reserve, SetupHbm, Acquire,
       Works, Create, Map, BeginWrite, Ends, EndWrite, Read, Unmap, Loop, AfterUnmap
  <2>2. QED
    BY <2>1, StillTrying
<1>4. ASSUME NEW r \in Rank, Export(r) \/ ReceiveToken(r) \/ Arrive(r) PROVE CleanInv(r)'
  <2>1. pc'[r] \notin Leaving \cup {"exited"}
    BY <1>0, <1>4 DEF Leaving, Goto, Export, ReceiveToken, Arrive
  <2>2. QED
    BY <2>1, StillTrying
<1>5. ASSUME NEW r \in Rank, Pass(r) PROVE CleanInv(r)'
  <2>1. /\ pc[r] = "wait" /\ idx'[r] = idx[r]
        /\ phase'[r] = "final" \/ pc'[r] \in {"cpu", "hbm", "fill", "read", "freehbm", "unmap"}
        /\ pc'[r] \in {"cpu", "hbm", "fill", "read", "freehbm", "unmap", "cleanup"}
    BY ONLY <1>0, <1>5 DEF Pass, AfterBarrier, Goto
  <2>2. idx[r] = 0
    BY ONLY <2>1, SlotInv(r), r \in Rank
       DEF SlotInv, AtLoopStart, PastImport, BeforeToken, Importing, Forking, Trying
  <2>3. \A o \in Rank : ~(o < 0)
    BY RankOrder
  <2>4. QED
    BY ONLY <2>1, <2>2, <2>3 DEF CleanInv, Leaving
<1>6. ASSUME Coordinates, NEW s \in Rank PROVE CleanInv(s)'
  <2>1. /\ UNCHANGED <<phase, idx, held, handle, slice, result, cleanupFailed>>
        /\ pc'[s] = pc[s] \/ pc'[s] = "forked"
    BY <1>6, CoordFrame, ForkedPc DEF prog, res, outcome
  <2>2. QED
    BY ONLY <2>1, CleanInv(s) DEF CleanInv, Leaving, Empty
<1> QED
  BY <1>1, <1>2, <1>3, <1>4, <1>5, <1>6, TwoKinds, SilentClean, CleanupClean
     DEF IInv, Acts, Talks

\* A verdict of success is that of the exit codes, and exit codes are final.
LEMMA VerdictInvStep == IInv /\ VerdictInv /\ Next => VerdictInv'
<1> SUFFICES ASSUME IInv, VerdictInv, Next, cpc' = "done", cresult' = 0, NEW s \in Rank
             PROVE  Succeeded(s)'
  BY DEF VerdictInv
<1>0. pc \in [Rank -> Step] /\ result \in [Rank -> {0, 1, 125, 127}]
  BY DEF IInv, TypeOK, ProgramType
<1>1. ASSUME NEW r \in Rank, Acts(r) PROVE Succeeded(s)'
  <2>1. cpc = "done" /\ cresult = 0
    BY <1>1, Framed DEF Frame, coord, IInv
  <2>2. Succeeded(s) /\ Succeeded(r)
    BY <2>1, <1>1 DEF VerdictInv
  <2>3. pc[r] = "exited"
    BY <2>2 DEF Succeeded
  <2>4. FALSE
    BY ONLY <1>0, <1>1, <2>3 DEF Acts, Throws, SendThrows, ReceiveThrows, UseThrows, WorkerFails,
     CleanupAct, FreeHbm, CleanupSlot, CleanupLocal,
     Silent, ArmParentDeathSignal, CheckParent, Exec, ExecFails, CloseFd, Return, Die, WorkerKilled,
     Acquires, Acquire, AclInit, SetDevice, Reserve, SetupHbm, Trying, Live, Forking, Leaving,
     Works, Create, Map, BeginWrite, Ends, EndWrite, Read, Unmap, Talks, Export, ReceiveToken,
     ImportThrows, Arrive, Pass
  <2>5. QED
    BY <2>4
<1>2. CASE Coordinates
  <2>1. \/ cpc = "done" /\ cresult = 0
        \/ WaitChildren
    BY <1>2 DEF Coordinates, Fork, Serves, CollectToken, SendToken, Gather, Release, NextSocket,
         MoreBarriers, Stops, CoordThrows, CloseSockets, KillChildren, CoordFails, CoordKilled,
         vars, coord
  <2>2. CASE WaitChildren
    <3>1. \A r \in Rank : Succeeded(r)
      BY ONLY <2>2, cresult' = 0 DEF WaitChildren
    <3>2. QED
      BY <2>2, <3>1 DEF WaitChildren, workers, outcome, Succeeded
  <2>3. CASE cpc = "done" /\ cresult = 0
    <3>1. Succeeded(s) /\ result' = result /\ pc' = pc
      BY <1>2, <2>3, CoordFrame DEF VerdictInv, outcome
    <3>2. QED
      BY <3>1 DEF Succeeded
  <2>4. QED
    BY <2>1, <2>2, <2>3
<1> QED
  BY <1>1, <1>2, TwoKinds DEF IInv

-----------------------------------------------------------------------------
\* A run without a fault.

\* A worker in the try block has barriers ahead of it.
LEMMA BarriersAhead ==
  ASSUME IInv, NEW r \in Rank, pc[r] \in Trying
  PROVE  /\ returned[r] < Barriers
         /\ pc[r] # "wait" => entered[r] = returned[r]
         /\ pc[r] = "wait" => entered[r] = returned[r] + 1
<1>1. WorkerInv(r) /\ phase[r] \in Phase /\ round[r] \in Int /\ Rounds \in Int
  BY DEF IInv, TypeOK, ProgramType
<1>2. phase[r] # "final"
  BY ONLY <1>1, pc[r] \in Trying DEF WorkerInv
<1>3. returned[r] < Barriers
  BY ONLY <1>1, <1>2, RoundsAssumption DEF WorkerInv, Phase, Barriers
<1> QED
  BY ONLY <1>1, <1>3, pc[r] \in Trying DEF WorkerInv

\* Whoever reads finds in every slice the allocation of its rank, with the
\* content its owner wrote in this round.
LEMMA RoundData ==
  ASSUME IInv, \A o \in Rank : SlotInv(o) /\ MemInv(o), NEW r \in Rank, pc[r] = "read",
         NEW o \in Rank
  PROVE  slice[r][o] = o /\ mem[o] = Seed(round[r], o)
<1>1. /\ WorkerInv(r) /\ WorkerInv(o) /\ returned[r] <= entered[o] /\ returned[o] <= entered[r]
      /\ \A s \in Rank : round[s] \in Int /\ 0 <= round[s] /\ entered[s] \in Int /\ returned[s] \in Int
      /\ Rounds \in Int
  BY DEF IInv, InStep, TypeOK, ProgramType, Barriers
<1>2. /\ phase[r] = "read" /\ round[r] < Rounds /\ returned[r] = 3 + 2 * round[r]
      /\ entered[r] = returned[r]
  BY ONLY <1>1, pc[r] = "read" DEF WorkerInv, Trying
<1>3. round[r] \in 0 .. Rounds-1
  BY ONLY <1>1, <1>2, r \in Rank
<1>4. mem[o] = Seed(round[r], o)
  BY ONLY <1>1, <1>2, <1>3, MemInv(o) DEF MemInv
<1>5. slice[r][o] = o
  BY ONLY <1>2, pc[r] = "read", o \in Rank, SlotInv(r)
     DEF SlotInv, PastImport, BeforeToken, Importing, Forking, Trying
<1> QED
  BY <1>4, <1>5

\* Nobody leaves before the last barrier.
LEMMA LeavesLast ==
  ASSUME IInv, DataInv, faults = 0, NEW r \in Rank, pc[r] \in Leaving \cup {"exited"}
  PROVE  returned[r] = Barriers /\ phase[r] = "final"
<1>1. result[r] = 0 /\ CleanInv(r) /\ WorkerInv(r)
  BY DEF DataInv, QuietInv, WorkerData, IInv
<1>2. phase[r] = "final"
  BY <1>1 DEF CleanInv
<1> QED
  BY <1>1, <1>2 DEF WorkerInv, Barriers

\* The allocation of a rank stays while anybody has a barrier left to enter.
LEMMA StillAllocated ==
  ASSUME IInv, DataInv, faults = 0, NEW r \in Rank, entered[r] < Barriers,
         NEW o \in Rank, pc[o] \notin BeforeToken
  PROVE  Allocated(o)
<1>1. returned[o] <= entered[r] /\ entered[r] \in Int /\ returned[o] \in Int /\ Barriers \in Int
      /\ pc[o] \in Step /\ pc[o] # "killed" /\ SlotInv(o)
  BY DEF IInv, InStep, TypeOK, ProgramType, Barriers, DataInv, QuietInv, WorkerData
<1>2. pc[o] \notin Leaving \cup {"exited"}
  BY <1>1, LeavesLast
<1>3. pc[o] \in OwnsBlock /\ pc[o] \in Live
  BY ONLY <1>1, <1>2, pc[o] \notin BeforeToken
     DEF OwnsBlock, BeforeToken, Step, Live, Gone, Trying
<1> QED
  BY ONLY <1>1, <1>3 DEF SlotInv, Allocated

\* A token is sent when all of them have been collected.
LEMMA TokensMeanCreated ==
  ASSUME IInv, DataInv, faults = 0, NEW r \in Rank,
         pc[r] = "map" \/ (pc[r] = "receive" /\ down[r] # <<>>), NEW o \in Rank
  PROVE  pc[o] \notin BeforeToken
<1>1. /\ entered[r] \in Int /\ returned[r] \in Int /\ Barriers \in Int /\ idx[r] \in Rank
      /\ down[r] \in Seq(Word) /\ WorkerInv(r)
      /\ cpc \in {"fork", "tokens", "bcast", "gather", "release", "close", "wait",
                  "error", "kill", "reap", "done", "dead"}
  BY DEF IInv, TypeOK, ProgramType, ChannelType, CoordType, Barriers
<1>2. pc[r] \in Trying /\ pc[r] \in Importing /\ pc[r] # "wait"
  BY DEF Trying, Importing
<1>3. entered[r] = 0
  BY ONLY <1>1, <1>2 DEF WorkerInv
<1>4. cpc \in Serving
  <2>1. entered[r] < Barriers
    BY <1>1, <1>2, BarriersAhead
  <2>2. cpc \notin {"error", "kill", "reap", "dead", "close", "wait", "done"}
    BY <1>1, <2>1 DEF DataInv, QuietInv
  <2>3. QED
    BY <1>1, <2>2 DEF Serving, Starting
<1>5. SocketInv(r) /\ SocketInv(o)
  BY <1>4 DEF IInv, CoordInv
<1>6. TokensTaken(r) + Len(down[r]) = TokensSent(r)
  BY <1>2, <1>3, <1>5 DEF SocketInv
<1>7. TokensTaken(r) + Len(down[r]) > 0
  <2>1. Len(down[r]) \in Nat /\ (Len(down[r]) = 0 <=> down[r] = <<>>)
    BY <1>1, Queues
  <2>2. idx[r] \in Int /\ idx[r] >= 0
    BY <1>1, RankFacts
  <2>3. /\ pc[r] = "map" => TokensTaken(r) = idx[r] + 1
        /\ pc[r] = "receive" => TokensTaken(r) = idx[r]
    BY DEF TokensTaken, BeforeToken, Forking
  <2>4. QED
    BY <2>1, <2>2, <2>3
<1>8. cpc \notin {"fork", "tokens"}
  BY ONLY <1>6, <1>7 DEF TokensSent
<1> QED
  BY ONLY <1>4, <1>5, <1>8 DEF SocketInv, Serving, Starting

\* So no call of a worker and no socket operation fails by itself.
LEMMA NothingThrows ==
  ASSUME IInv, DataInv, faults = 0, NEW r \in Rank
  PROVE  ~SendThrows(r) /\ ~ReceiveThrows(r) /\ ~UseThrows(r) /\ ~ImportThrows(r)
<1>0. /\ cpc \in {"wait", "done"} => entered[r] = Barriers
      /\ cpc \in {"wait", "done"} => returned[r] = Barriers \/ down[r] = <<Sync>>
      /\ cpc \notin {"wait", "done"} => open
  BY DEF DataInv, QuietInv
<1>1. ASSUME pc[r] \in {"export", "arrive", "receive"}, ~CoordEndOpen(r) PROVE FALSE
  <2>1. pc[r] \in Trying /\ pc[r] # "wait"
    BY <1>1 DEF Trying
  <2>2. entered[r] < Barriers /\ entered[r] \in Int /\ Barriers \in Int
    BY <2>1, BarriersAhead DEF IInv, TypeOK, ProgramType, Barriers
  <2>3. QED
    BY <1>0, <1>1, <2>2 DEF CoordEndOpen
<1>2. ASSUME pc[r] = "wait", down[r] = <<>>, ~CoordEndOpen(r) PROVE FALSE
  <2>1. returned[r] < Barriers /\ returned[r] \in Int /\ Barriers \in Int
    BY <1>2, BarriersAhead DEF IInv, TypeOK, ProgramType, Barriers, Trying
  <2>2. QED
    BY <1>0, <1>2, <2>1, Singletons DEF CoordEndOpen
<1>3. ASSUME pc[r] \in {"read", "map", "receive"} PROVE entered[r] < Barriers
  BY <1>3, BarriersAhead DEF Trying
<1>4. ASSUME pc[r] = "read" PROVE BlockVerified(r) /\ Allocated(slice[r][idx[r]])
  <2>1. \A o \in Rank : slice[r][o] = o /\ mem[o] = Seed(round[r], o)
    BY <1>4, RoundData DEF DataInv, WorkerData
  <2>2. idx[r] \in Rank
    BY DEF IInv, TypeOK, ProgramType
  <2>3. BlockVerified(r)
    BY <2>1, <2>2 DEF BlockVerified
  <2>4. pc[idx[r]] \notin BeforeToken
    <3>1. WorkerInv(r) /\ WorkerInv(idx[r]) /\ returned[r] <= entered[idx[r]] /\ round[r] \in Nat
          /\ entered[idx[r]] \in Int /\ returned[idx[r]] \in Int
      BY <2>2 DEF IInv, InStep, TypeOK, ProgramType, Barriers
    <3>2. returned[r] = 3 + 2 * round[r]
      BY ONLY <1>4, <3>1 DEF WorkerInv
    <3>3. ASSUME pc[idx[r]] \in BeforeToken PROVE entered[idx[r]] = 0
      BY ONLY <3>1, <3>3 DEF WorkerInv
    <3>4. QED
      BY ONLY <3>1, <3>2, <3>3
  <2>5. Allocated(idx[r])
    BY <1>3, <1>4, <2>2, <2>4, StillAllocated
  <2>6. QED
    BY <2>1, <2>2, <2>3, <2>5
<1>5. ASSUME pc[r] = "map" PROVE Allocated(handle[r][idx[r]])
  <2>1. handle[r][idx[r]] = idx[r] /\ idx[r] \in Rank
    BY <1>5 DEF DataInv, WorkerData, SlotInv, IInv, TypeOK, ProgramType
  <2>2. QED
    BY <1>3, <1>5, <2>1, StillAllocated, TokensMeanCreated
<1>6. ASSUME ImportThrows(r) PROVE FALSE
  <2>1. /\ pc[r] = "receive" /\ down[r] # <<>> /\ Head(down[r]) = idx[r] /\ idx[r] \in Rank
        /\ ~Allocated(Head(down[r]))
    BY <1>6, TakenToken DEF DataInv, ImportThrows
  <2>2. QED
    BY <1>3, <2>1, StillAllocated, TokensMeanCreated
<1> QED
  BY <1>1, <1>2, <1>4, <1>5, <1>6 DEF SendThrows, ReceiveThrows, UseThrows

LEMMA NoSocketThrows ==
  ASSUME IInv, DataInv, faults = 0
  PROVE  ~SocketThrows
<1> SUFFICES ASSUME SocketThrows PROVE FALSE
  OBVIOUS
<1>1. cpc \in {"tokens", "bcast", "gather", "release"} /\ ~WorkerEndOpen(cidx)
  BY DEF SocketThrows
<1>2. CoordLoop /\ \A r \in Rank : SocketInv(r)
  BY <1>1 DEF IInv, CoordInv, Serving, Starting
<1>3. cidx \in Rank
  BY <1>1, <1>2 DEF CoordLoop, IInv, TypeOK, CoordType, Rank
<1>4. pc[cidx] # "absent" /\ pc[cidx] \in Step /\ pc[cidx] # "killed"
  BY <1>1, <1>2, <1>3 DEF SocketInv, IInv, TypeOK, ProgramType, DataInv, QuietInv
<1>5. pc[cidx] \in Leaving \cup {"exited"}
  BY ONLY <1>1, <1>4 DEF WorkerEndOpen, Step, Live, Gone, Leaving
<1>6. returned[cidx] = Barriers
  BY <1>3, <1>5, LeavesLast
<1>7. returned[cidx] <= Released(cidx) /\ Released(cidx) = cphase
  <2>1. ~(cidx < cidx) /\ cphase \in Nat
    BY <1>3, RankFacts DEF IInv, TypeOK, CoordType
  <2>2. Released(cidx) = cphase
    BY ONLY <2>1 DEF Released, Bit
  <2>3. returned[cidx] <= Released(cidx)
    BY <1>1, <1>3, Counts DEF Serving, Starting
  <2>4. QED
    BY <2>2, <2>3
<1>8. cphase < Barriers /\ cphase \in Nat /\ Barriers \in Nat
  BY <1>1, <1>2 DEF CoordLoop, Starting, IInv, TypeOK, CoordType, Barriers
<1> QED
  BY ONLY <1>6, <1>7, <1>8

\* A step of a worker that is not a fault, in a run without one.
LEMMA QuietWorker ==
  ASSUME IInv, DataInv, faults = 0, faults' = 0, NEW r \in Rank, Acts(r)
  PROVE  /\ result'[r] = 0 /\ pc'[r] # "killed" /\ ~cleanupFailed'[r]
         /\ cpc \in {"close", "wait", "done"} =>
              /\ entered'[r] = Barriers
              /\ returned'[r] = Barriers \/ down'[r] = <<Sync>>
         /\ pc'[r] \in BeforeToken => pc[r] \in BeforeToken
         /\ \A o \in Rank : slice'[r][o] # NoAlloc => slice[r][o] # NoAlloc \/ pc[r] = "map"
<1>0. /\ pc \in [Rank -> Step] /\ result \in [Rank -> {0, 1, 125, 127}] /\ r \in Rank
      /\ cleanupFailed \in [Rank -> BOOLEAN] /\ idx[r] \in Rank
      /\ slice \in [Rank -> [Rank -> Word \cup {NoAlloc}]]
      /\ entered \in [Rank -> 0 .. Barriers] /\ returned \in [Rank -> 0 .. Barriers]
      /\ Barriers \in Int
  BY DEF IInv, TypeOK, ProgramType, ResourceType, Barriers
<1>1. /\ result[r] = 0 /\ pc[r] # "killed" /\ ~sig[r] /\ ~cleanupFailed[r] /\ cpc # "dead"
      /\ cpc \in {"close", "wait", "done"} =>
           entered[r] = Barriers /\ (returned[r] = Barriers \/ down[r] = <<Sync>>)
  BY DEF DataInv, QuietInv
<1>2. ~Throws(r) /\ ~ImportThrows(r)
  <2>1. ~WorkerFails(r)
    BY DEF WorkerFails, Inject
  <2>2. QED
    BY <2>1, NothingThrows DEF Throws
<1>3. ASSUME Local(r) PROVE /\ UNCHANGED <<entered, returned, down>>
                            /\ pc'[r] \in BeforeToken => pc[r] \in BeforeToken
  BY <1>3, LocalStep DEF PcMove
<1>4. CASE Silent(r)
  <2>1. /\ UNCHANGED <<slice, cleanupFailed>> /\ result'[r] = 0 /\ pc'[r] # "killed"
    BY ONLY <1>0, <1>1, <1>4, faults = 0, faults' = 0
       DEF Silent, ArmParentDeathSignal, CheckParent, ParentGone, Exec, ExecFails, Inject, CloseFd,
           Return, Die, WorkerKilled, Goto, res, outcome
  <2>2. QED
    BY <1>1, <1>3, <1>4, <2>1 DEF Local
<1>5. CASE Acquires(r)
  <2>1. UNCHANGED <<slice, cleanupFailed, result>> /\ pc'[r] # "killed"
    BY ONLY <1>0, <1>5
       DEF Acquires, AclInit, SetDevice, Reserve, SetupHbm, Acquire, Goto, outcome
  <2>2. QED
    BY <1>1, <1>3, <1>5, <2>1 DEF Local
<1>6. CASE Works(r)
  <2>1. UNCHANGED <<cleanupFailed, result>> /\ pc'[r] # "killed"
    <3>1. CASE Ends(r)
      <4>1. PICK leak : EndWrite(r, leak)
        BY ONLY <3>1 DEF Ends
      <4>2. cleanupFailed' = cleanupFailed
        BY ONLY <4>1, faults = 0, faults' = 0 DEF EndWrite, Leak
      <4>3. QED
        BY ONLY <1>0, <4>1, <4>2 DEF EndWrite, Goto
    <3>2. CASE ~Ends(r)
      BY ONLY <1>0, <1>6, <3>2 DEF Works, Create, Map, BeginWrite, Read, Unmap, AfterUnmap,
         Loop, Goto, outcome
    <3>3. QED
      BY <3>1, <3>2
  <2>2. \A o \in Rank : slice'[r][o] # NoAlloc => slice[r][o] # NoAlloc \/ pc[r] = "map"
    BY ONLY <1>0, <1>6 DEF Works, Create, Map, BeginWrite, Ends, EndWrite, Read, Unmap, res
  <2>3. QED
    BY <1>1, <1>3, <1>6, <2>1, <2>2 DEF Local
<1>7. CASE CleanupAct(r)
  <2>0. ASSUME NEW leak, Leak(r, leak) PROVE cleanupFailed' = cleanupFailed
    BY ONLY <2>0, faults = 0, faults' = 0 DEF Leak
  <2>1. UNCHANGED <<cleanupFailed, result>> /\ pc'[r] # "killed"
    BY ONLY <1>0, <1>7, <2>0 DEF CleanupAct, FreeHbm, CleanupSlot, CleanupLocal, Loop, Goto
  <2>2. \A o \in Rank : slice'[r][o] # NoAlloc => slice[r][o] # NoAlloc
    BY ONLY <1>0, <1>7 DEF CleanupAct, FreeHbm, CleanupSlot, CleanupLocal
  <2>3. QED
    BY <1>1, <1>3, <1>7, <2>1, <2>2 DEF Local
<1>8. CASE Export(r) \/ ReceiveToken(r) \/ Arrive(r)
  <2>1. pc[r] \in Trying /\ pc[r] # "wait"
    BY <1>8 DEF Export, ReceiveToken, Arrive, Trying
  <2>2. entered[r] < Barriers
    BY <2>1, BarriersAhead
  <2>3. cpc \notin {"close", "wait", "done"}
    BY <1>0, <1>1, <2>2
  <2>4. /\ UNCHANGED <<slice, cleanupFailed, result>> /\ pc'[r] \in {"receive", "map", "wait"}
    BY ONLY <1>0, <1>8 DEF Export, ReceiveToken, Arrive, Goto, res, outcome
  <2>5. QED
    BY <1>1, <2>3, <2>4 DEF BeforeToken, Forking
<1>9. CASE Pass(r)
  <2>1. /\ UNCHANGED <<slice, cleanupFailed, result, entered>> /\ pc[r] = "wait"
        /\ returned'[r] = returned[r] + 1
        /\ pc'[r] \in {"cpu", "hbm", "fill", "read", "freehbm", "unmap", "cleanup"}
    BY ONLY <1>0, <1>9 DEF Pass, AfterBarrier, Goto, res, outcome
  <2>2. entered[r] = returned[r] + 1
    BY <2>1, BarriersAhead DEF Trying
  <2>3. QED
    BY <1>0, <1>1, <2>1, <2>2 DEF BeforeToken, Forking
<1> QED
  BY <1>2, <1>4, <1>5, <1>6, <1>7, <1>8, <1>9 DEF Acts, Talks

\* The coordinator stops serving when every worker has its last word.
LEMMA LastRelease ==
  ASSUME IInv, IInv', Release, cpc' = "close"
  PROVE  \A s \in Rank : /\ entered'[s] = Barriers
                         /\ returned'[s] = Barriers \/ down'[s] = <<Sync>>
<1>1. cpc = "release" /\ CoordLoop /\ cphase \in Nat /\ Barriers \in Nat /\ cphase < Barriers
  BY DEF Release, IInv, TypeOK, CoordType, CoordInv, CoordLoop, Serving, Starting, Barriers
<1>2. cidx \in Rank /\ cidx = N-1 /\ ~(cphase + 1 < Barriers)
  <2>1. cidx \in Rank
    BY <1>1 DEF CoordLoop, IInv, TypeOK, CoordType, Rank
  <2>2. ~(cidx < N-1) /\ ~(cphase + 1 < Barriers)
    BY <1>1 DEF Release, NextSocket, MoreBarriers
  <2>3. QED
    BY <2>1, <2>2, RankOrder
<1>3. cphase + 1 = Barriers
  BY ONLY <1>1, <1>2
<1>4. UNCHANGED <<entered, returned>> /\ down' = [down EXCEPT ![cidx] = Append(@, Sync)]
  BY DEF Release, workers, prog
<1>5. ASSUME NEW s \in Rank PROVE entered[s] = Barriers
  <2>1. Gathered(s) = Barriers
    BY ONLY <1>1, <1>3 DEF Gathered, Bit
  <2>2. entered[s] = IF up[s] = <<Sync>> THEN Gathered(s) + 1 ELSE Gathered(s)
    BY <1>1, Counts DEF Serving
  <2>3. entered[s] \in 0 .. Barriers
    BY DEF IInv, TypeOK, ProgramType
  <2>4. QED
    BY ONLY <1>1, <2>1, <2>2, <2>3
<1>6. ASSUME NEW s \in Rank, s # cidx PROVE returned[s] = Barriers \/ down'[s] = <<Sync>>
  <2>1. s < cidx
    BY <1>2, <1>6, RankOrder
  <2>2. Released(s) = Barriers
    BY ONLY <1>1, <1>3, <2>1 DEF Released, Bit
  <2>3. returned[s] = IF down[s] = <<Sync>> THEN Released(s) - 1 ELSE Released(s)
    BY <1>1, Counts DEF Serving
  <2>4. down'[s] = down[s]
    BY <1>4, <1>6 DEF IInv, TypeOK, ChannelType
  <2>5. QED
    BY ONLY <2>2, <2>3, <2>4
<1>7. down'[cidx] = <<Sync>>
  <2>1. down[cidx] \in Seq(Word) /\ down'[cidx] = Append(down[cidx], Sync)
    BY <1>2, <1>4 DEF IInv, TypeOK, ChannelType
  <2>2. ASSUME down'[cidx] \in Seq(Rank) PROVE FALSE
    <3>1. Len(down'[cidx]) = Len(down[cidx]) + 1 /\ Len(down[cidx]) \in Nat
      BY <2>1, Queues DEF Word
    <3>2. down'[cidx][Len(down'[cidx])] = Sync
      BY <2>1, <3>1
    <3>3. down'[cidx][Len(down'[cidx])] \in Rank
      BY <2>2, <3>1
    <3>4. QED
      BY <3>2, <3>3, RankFacts DEF Sync
  <2>3. QED
    BY <1>2, <2>2 DEF IInv, ReleaseInv
<1> QED
  BY <1>4, <1>5, <1>6, <1>7

LEMMA QuietInvStep == IInv /\ DataInv /\ Next => QuietInv'
<1> SUFFICES ASSUME IInv, DataInv, Next, faults' = 0 PROVE QuietInv'
  BY DEF QuietInv
<1>1. faults = 0
  <2>1. faults \in Nat
    BY DEF IInv, TypeOK, CoordType
  <2>2. faults' = faults \/ faults' = faults + 1
    BY DEF Next, WorkerStep, CoordStep, Fault, CleanupFails, Inject, Leak,
       ArmParentDeathSignal, CheckParent, Exec, AclInit, SetDevice, Reserve, Acquire, Create, Export,
       SendThrows, ReceiveThrows, ReceiveToken, ImportThrows, Map, Arrive, Pass, BeginWrite, Ends, EndWrite,
       SetupHbm, Read, UseThrows, FreeHbm, Unmap, CleanupSlot, CleanupLocal, CloseFd, Return, Die,
       Fork, CollectToken, SendToken, Gather, Release, CoordThrows, CloseSockets, KillChildren,
       WaitChildren, WorkerFails, ExecFails, WorkerKilled, CoordFails, CoordKilled, vars
  <2>3. QED
    BY <2>1, <2>2
<1>2. /\ cpc \notin {"error", "kill", "reap", "dead"}
      /\ \A r \in Rank : result[r] = 0 /\ pc[r] # "killed" /\ ~sig[r] /\ ~cleanupFailed[r]
      /\ cpc \notin {"wait", "done"} => open
      /\ cpc \in {"close", "wait", "done"} =>
           \A r \in Rank : entered[r] = Barriers /\ (returned[r] = Barriers \/ down[r] = <<Sync>>)
      /\ \A r, o \in Rank : slice[r][o] # NoAlloc => pc[o] \notin BeforeToken
  BY <1>1 DEF DataInv, QuietInv
<1>3. ASSUME NEW r \in Rank, Acts(r) PROVE QuietInv'
  <2>1. /\ UNCHANGED <<sig, cpc, open>>
        /\ \A s \in Rank \ {r} :
             /\ pc'[s] = pc[s] /\ entered'[s] = entered[s] /\ returned'[s] = returned[s]
             /\ slice'[s] = slice[s] /\ result'[s] = result[s]
             /\ cleanupFailed'[s] = cleanupFailed[s] /\ down'[s] = down[s]
    BY <1>3, Framed DEF Frame, coord, IInv
  <2>2. /\ result'[r] = 0 /\ pc'[r] # "killed" /\ ~cleanupFailed'[r]
        /\ cpc \in {"close", "wait", "done"} =>
             /\ entered'[r] = Barriers
             /\ returned'[r] = Barriers \/ down'[r] = <<Sync>>
        /\ pc'[r] \in BeforeToken => pc[r] \in BeforeToken
        /\ \A o \in Rank : slice'[r][o] # NoAlloc => slice[r][o] # NoAlloc \/ pc[r] = "map"
    BY <1>1, <1>3, QuietWorker
  <2>3. ASSUME NEW s \in Rank, NEW o \in Rank, slice'[s][o] # NoAlloc
        PROVE  pc'[o] \notin BeforeToken
    <3>1. pc[o] \notin BeforeToken
      <4>1. CASE slice[s][o] # NoAlloc
        BY <1>2, <4>1
      <4>2. CASE slice[s][o] = NoAlloc
        BY <1>1, <2>1, <2>2, <2>3, <4>2, TokensMeanCreated
      <4>3. QED
        BY <4>1, <4>2
    <3>2. QED
      BY <2>1, <2>2, <3>1
  <2>4. QED
    BY ONLY <1>2, <2>1, <2>2, <2>3 DEF QuietInv
<1>4. ASSUME Coordinates PROVE QuietInv'
  <2>1. ~CoordThrows /\ ~KillChildren /\ ~CoordFails /\ ~CoordKilled
    BY <1>1, <1>2, NoSocketThrows DEF CoordThrows, KillChildren, CoordFails, CoordKilled, Inject
  <2>2. UNCHANGED <<entered, returned, slice, result, cleanupFailed>>
    BY <1>4, CoordFrame DEF prog, res, outcome
  <2>3. sig' = sig
    BY <1>4, <2>1 DEF Coordinates, Fork, Serves, CollectToken, SendToken, Gather, Release, Stops,
         CloseSockets, WaitChildren, vars
  <2>4. \A s \in Rank : /\ pc'[s] = "killed" => pc[s] = "killed"
                        /\ pc'[s] \in BeforeToken => pc[s] \in BeforeToken
    BY <1>4, ForkedPc DEF BeforeToken
  <2>5. /\ cpc' \notin {"error", "kill", "reap", "dead"}
        /\ cpc' \notin {"wait", "done"} => open'
    BY <1>2, <1>4, <2>1 DEF Coordinates, Fork, Serves, CollectToken, SendToken, Gather, Release,
         NextSocket, MoreBarriers, Stops, CloseSockets, WaitChildren, vars, coord
  <2>6. cpc' \in {"close", "wait", "done"} =>
          \A s \in Rank : entered'[s] = Barriers /\ (returned'[s] = Barriers \/ down'[s] = <<Sync>>)
    <3>1. CASE Release /\ cpc' = "close"
      BY <3>1, LastRelease, IInvStep
    <3>2. CASE ~(Release /\ cpc' = "close")
      <4>1. cpc' \in {"close", "wait", "done"} =>
              cpc \in {"close", "wait", "done"} /\ down' = down
        BY <1>2, <1>4, <2>1, <3>2 DEF Coordinates, Fork, Serves, CollectToken, SendToken, Gather,
           Release, NextSocket, MoreBarriers, Stops, CloseSockets, WaitChildren, vars, coord
      <4>2. QED
        BY <1>2, <2>2, <4>1
    <3>3. QED
      BY <3>1, <3>2
  <2>7. QED
    BY ONLY <1>2, <2>2, <2>3, <2>4, <2>5, <2>6 DEF QuietInv
<1> QED
  BY <1>3, <1>4, TwoKinds DEF IInv

-----------------------------------------------------------------------------
LEMMA InitDataInv == Init => DataInv
<1> SUFFICES ASSUME Init PROVE DataInv
  OBVIOUS
<1>1. TokenOrder
  BY DEF Init, TokenOrder
<1>2. ASSUME NEW r \in Rank PROVE InTransit(r) /\ SlotInv(r) /\ MemInv(r) /\ CleanInv(r)
  <2>1. /\ pc[r] = "absent" /\ phase[r] = "import" /\ down[r] = <<>> /\ entered[r] = 0
        /\ \A o \in Rank : handle[r][o] = NoAlloc /\ slice[r][o] = NoAlloc
    BY DEF Init
  <2>2. InTransit(r)
    BY <2>1 DEF InTransit
  <2>3. SlotInv(r)
    BY ONLY <2>1
       DEF SlotInv, OwnsBlock, PastImport, AtLoopStart, BeforeToken, Importing, Forking, Trying
  <2>4. \A k \in 0 .. Rounds-1 : ~(3 + 2 * k <= 0)
    OBVIOUS
  <2>5. MemInv(r)
    BY ONLY <2>1, <2>4 DEF MemInv
  <2>6. CleanInv(r)
    BY ONLY <2>1 DEF CleanInv, Leaving
  <2>7. QED
    BY <2>2, <2>3, <2>5, <2>6
<1>3. VerdictInv /\ NoOrphan
  BY DEF Init, VerdictInv, NoOrphan
<1>4. QuietInv
  BY DEF Init, QuietInv
<1> QED
  BY <1>1, <1>2, <1>3, <1>4 DEF DataInv, WorkerData

\* DataInv holds in every reachable state: the words on the sockets say whose
\* allocation is where, the barrier counts say which round's data it holds, and
\* the exit codes say what was given back.
THEOREM DataInvariance == Spec => []FullInv
<1>1. Init => IInv /\ DataInv
  BY InitIInv, InitDataInv
<1>2. IInv /\ DataInv /\ [Next]_vars => IInv' /\ DataInv'
  <2>1. ASSUME IInv, DataInv, Next PROVE IInv' /\ DataInv'
    <3>1. \A r \in Rank : SlotInv(r) /\ InTransit(r) /\ MemInv(r) /\ CleanInv(r)
      BY <2>1 DEF DataInv, WorkerData
    <3>2. TokenOrder' /\ \A r \in Rank : InTransit(r)'
      BY <2>1, <3>1, TokenOrderStep, InTransitStep DEF DataInv
    <3>3. \A r \in Rank : SlotInv(r)' /\ MemInv(r)' /\ CleanInv(r)'
      BY <2>1, <3>1, SlotInvStep, MemInvStep, CleanInvStep
    <3>4. VerdictInv' /\ NoOrphan' /\ QuietInv'
      BY <2>1, VerdictInvStep, NoOrphanStep, QuietInvStep DEF DataInv, IInv
    <3>5. IInv'
      BY <2>1, IInvStep
    <3>6. QED
      BY <3>2, <3>3, <3>4, <3>5 DEF DataInv, WorkerData
  <2>2. ASSUME IInv, DataInv, UNCHANGED vars PROVE IInv' /\ DataInv'
    <3>1. Coordinates
      BY <2>2 DEF Coordinates
    <3>2. /\ UNCHANGED <<pc, phase, round, idx, entered, returned, held, handle, slice, result>>
          /\ UNCHANGED <<cleanupFailed, sig, up, down, mem, cpc, cidx, cword, cphase, tokens>>
          /\ UNCHANGED <<open, cresult, faults>>
      BY <2>2 DEF vars, workers, prog, res, outcome, coord, loops
    <3>3. DataInv'
      BY ONLY <2>2, <3>2 DEF DataInv, TokenOrder, InTransit, TokensTaken, WorkerData, SlotInv, MemInv,
         CleanInv, Empty, VerdictInv, Succeeded, NoOrphan, QuietInv
    <3>4. IInv'
      BY <2>2, IInvStep
    <3>5. QED
      BY <3>3, <3>4
  <2>3. QED
    BY <2>1, <2>2
<1> QED
  BY <1>1, <1>2, PTL DEF Spec, FullInv

\* Slice o of every worker is the allocation of rank o: the order in which the
\* coordinator collects and broadcasts bare tokens is the order of the ranks.
THEOREM SlicesHoldOwners == Spec => []SliceHoldsOwner
<1>1. IInv /\ DataInv => SliceHoldsOwner
  BY DEF DataInv, WorkerData, SlotInv, SliceHoldsOwner
<1> QED
  BY <1>1, DataInvariance, PTL DEF FullInv

\* Every block a reader has still to copy holds what its owner wrote in this
\* round, whatever fails: the barriers before and after the reads keep the
\* owners' writes out.
THEOREM ReadersSee == Spec => []ReadersSeeRoundData
<1>1. ASSUME IInv, DataInv PROVE ReadersSeeRoundData
  <2>1. ASSUME NEW r \in Rank, pc[r] = "read", NEW o \in idx[r] .. N-1
        PROVE  mem[slice[r][o]] = Seed(round[r], o)
    <3>1. idx[r] \in Rank
      BY <1>1 DEF IInv, TypeOK, ProgramType
    <3>2. o \in Rank
      BY <2>1, <3>1 DEF Rank
    <3>3. QED
      BY <1>1, <2>1, <3>2, RoundData DEF DataInv, WorkerData
  <2>2. QED
    BY <2>1 DEF ReadersSeeRoundData
<1> QED
  BY <1>1, DataInvariance, PTL DEF FullInv

\* MULTI_RESULT PASS means that every worker exited by itself, after every
\* barrier, with everything given back.
THEOREM PassIsClean == Spec => []PassMeansClean
<1>1. ASSUME IInv, DataInv PROVE PassMeansClean
  <2>1. ASSUME cpc = "done", cresult = 0, NEW r \in Rank
        PROVE  /\ pc[r] = "exited" /\ returned[r] = Barriers
               /\ held[r] = {}
               /\ \A o \in Rank : handle[r][o] = NoAlloc /\ slice[r][o] = NoAlloc
    <3>1. pc[r] = "exited" /\ result[r] = 0 /\ CleanInv(r) /\ WorkerInv(r)
      BY <1>1, <2>1 DEF DataInv, VerdictInv, Succeeded, WorkerData, IInv
    <3>2. returned[r] = Barriers
      BY <3>1 DEF CleanInv, WorkerInv, Barriers
    <3>3. QED
      BY <3>1, <3>2 DEF CleanInv, Empty
  <2>2. QED
    BY <2>1 DEF PassMeansClean
<1> QED
  BY <1>1, DataInvariance, PTL DEF FullInv

\* No worker outlives a killed coordinator unnoticed: PR_SET_PDEATHSIG is armed
\* before getppid is compared.
THEOREM NobodyOrphaned == Spec => []NoOrphan
<1>1. IInv /\ DataInv => NoOrphan
  BY DEF DataInv
<1> QED
  BY <1>1, DataInvariance, PTL DEF FullInv

\* Without a fault nobody fails and the coordinator never takes its error path:
\* no end of file overtakes a barrier word and no allocation is imported, mapped
\* or read before it exists or after it is gone.
THEOREM NothingFailsByItself == Spec => []NoSpuriousFailure
<1>1. IInv /\ DataInv => NoSpuriousFailure
  BY DEF DataInv, QuietInv, NoSpuriousFailure
<1> QED
  BY <1>1, DataInvariance, PTL DEF FullInv

\* Without a fault no owner releases its allocation while anybody has it mapped:
\* the last barrier stands between the unmaps and the releases.
THEOREM ReleasedInOrder == Spec => []OrderlyRelease
<1>1. ASSUME IInv, DataInv, faults = 0, NEW r \in Rank, NEW o \in Rank, Maps(r, o)
      PROVE  Allocated(o)
  <2>1. pc[r] \in Live /\ slice[r][o] = o /\ SlotInv(r)
    BY <1>1, NoAllocFresh DEF Maps, DataInv, WorkerData, SlotInv
  <2>2. slice[r][o] # NoAlloc
    BY <2>1, NoAllocFresh
  <2>3. pc[o] \notin BeforeToken
    BY <1>1, <2>2 DEF DataInv, QuietInv
  <2>4. pc[r] \notin BeforeToken
    BY <2>1, <2>2 DEF SlotInv
  <2>5. pc[r] \notin Leaving
    BY <1>1, <2>1, <2>2, LeavesLast DEF SlotInv
  <2>6. pc[r] \in Trying
    BY ONLY <2>1, <2>4, <2>5 DEF Live, BeforeToken
  <2>7. entered[r] < Barriers
    <3>1. /\ returned[r] < Barriers /\ WorkerInv(r) /\ Rounds \in Int
          /\ pc[r] # "wait" => entered[r] = returned[r]
          /\ pc[r] = "wait" => entered[r] = returned[r] + 1
          /\ entered[r] \in Int /\ returned[r] \in Int /\ round[r] \in Int /\ phase[r] \in Phase
      BY <1>1, <2>6, BarriersAhead DEF IInv, TypeOK, ProgramType, Barriers
    <3>2. ASSUME pc[r] = "wait", returned[r] + 1 = Barriers PROVE FALSE
      <4>1. phase[r] # "final"
        BY ONLY <2>6, <3>1 DEF WorkerInv
      <4>2. phase[r] = "unmap"
        BY ONLY <3>1, <3>2, <4>1, RoundsAssumption DEF WorkerInv, Phase, Barriers
      <4>3. QED
        BY <2>1, <2>2, <3>2, <4>2 DEF SlotInv
    <3>3. Barriers \in Int
      BY DEF Barriers
    <3>4. QED
      BY ONLY <3>1, <3>2, <3>3
  <2>8. QED
    BY <1>1, <2>3, <2>7, StillAllocated
<1>2. IInv /\ DataInv => OrderlyRelease
  BY <1>1 DEF OrderlyRelease
<1> QED
  BY <1>2, DataInvariance, PTL DEF FullInv
=============================================================================
