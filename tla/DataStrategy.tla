---------------------------- MODULE DataStrategy ----------------------------
(***************************************************************************)
(* ucm_data_strategy: one process per rank.  DataStrategy::Setup allocates *)
(* host memory and maps it, prints a DESC line naming it, reads the DESC   *)
(* line of every other rank from standard input, and imports and maps      *)
(* their allocations.  main() then holds everything until it reads one     *)
(* more line.  Reset() gives everything back.                              *)
(*                                                                         *)
(* A person carries the DESC lines between the terminals (external).  The  *)
(* HAL is external too: hal[r] is what the driver holds for process r,     *)
(* mappings[r] is what the program remembers of it.                        *)
(***************************************************************************)
EXTENDS SlotLayout, Sequences

CONSTANTS
  N,             \* --ranks
  SlotsPerRank,  \* --slots-per-rank
  MaxFaults,     \* bound on calls that fail, streams closed and processes killed
  MaxStray       \* bound on lines typed that were not asked for

ASSUME NAssumption == N \in Nat \ {0}
ASSUME SlotsAssumption == SlotsPerRank \in Nat \ {0}
ASSUME BoundsAssumption == MaxFaults \in Nat /\ MaxStray \in Nat

Rank == 0 .. N-1
None == N           \* no allocation; as a line of input, anything but a DESC line
Line == 0 .. N      \* line q < N is "DESC q <handle of rank q's allocation>"

VARIABLES
  \* DataStrategy, per process
  pc, page, cur,    \* step of Setup and Reset, page type tried, loop index
  mappings,         \* mappings_
  desc,             \* peerHandle: whose allocation the accepted line names
  ready,            \* nSlotsPerRank_ # 0
  purpose,          \* why Reset() runs
  result,           \* result of main()
  \* the HAL, per process
  context, hal, leaked,
  \* terminals: what was printed, standard input
  printed, stdin, eof, stray,
  faults

control == <<pc, page, cur, purpose>>
terminal == <<printed, stdin, eof, stray>>
ledger == <<context, hal, leaked>>
vars == <<control, mappings, desc, ready, result, ledger, terminal, faults>>

\* Steps of Setup before and after the DESC line is printed, and of Reset.
LocalSteps == {"granularity", "reserve", "create", "map"}
CrossSteps == {"export", "whitelist", "publish", "read", "import", "reservepeer", "mappeer"}
SetupSteps == {"device", "done"} \cup LocalSteps \cup CrossSteps
ResetSteps == {"unmap", "cancel", "release", "free"}
Live == {"init", "hold", "failed", "finalize"} \cup SetupSteps \cup ResetSteps
Gone == {"exited", "killed"}

Mapping == [addr : BOOLEAN, handle : Line, mapped : BOOLEAN]
Driver == [va : BOOLEAN, ref : Line, view : Line]
Unset == [addr |-> FALSE, handle |-> None, mapped |-> FALSE]
Nothing == [va |-> FALSE, ref |-> None, view |-> None]

TypeOK ==
  /\ pc \in [Rank -> Live \cup Gone]
  /\ page \in [Rank -> {"huge", "normal"}]
  /\ cur \in [Rank -> 0 .. N]
  /\ mappings \in [Rank -> [Rank -> Mapping]]
  /\ desc \in [Rank -> Line]
  /\ ready \in [Rank -> BOOLEAN]
  /\ purpose \in [Rank -> {"retry", "failed", "destroy"}]
  /\ result \in [Rank -> {0, 1}]
  /\ context \in [Rank -> SUBSET {"acl", "device"}]
  /\ hal \in [Rank -> [Rank -> Driver]]
  /\ leaked \in [Rank -> BOOLEAN]
  /\ printed \in [Rank -> BOOLEAN]
  /\ stdin \in [Rank -> Seq(Line)]
  /\ eof \in [Rank -> BOOLEAN]
  /\ stray \in 0 .. MaxStray
  /\ faults \in 0 .. MaxFaults

Init ==
  /\ pc = [r \in Rank |-> "init"]
  /\ page = [r \in Rank |-> "huge"]
  /\ cur = [r \in Rank |-> 0]
  /\ mappings = [r \in Rank |-> [q \in Rank |-> Unset]]
  /\ desc = [r \in Rank |-> None]
  /\ ready = [r \in Rank |-> FALSE]
  /\ purpose = [r \in Rank |-> "destroy"]
  /\ result = [r \in Rank |-> 0]
  /\ context = [r \in Rank |-> {}]
  /\ hal = [r \in Rank |-> [q \in Rank |-> Nothing]]
  /\ leaked = [r \in Rank |-> FALSE]
  /\ printed = [r \in Rank |-> FALSE]
  /\ stdin = [r \in Rank |-> <<>>]
  /\ eof = [r \in Rank |-> FALSE]
  /\ stray = 0
  /\ faults = 0

Goto(r, step) == pc' = [pc EXCEPT ![r] = step]
Fail(r) == result' = [result EXCEPT ![r] = 1]

\* The physical memory of rank o exists until o releases it or is gone.
Allocated(o) == o \in Rank /\ hal[o][o].ref = o

-----------------------------------------------------------------------------
\* Device::Init, then Device::Setup as the first step of DataStrategy::Setup.
Prepare(r, step, what, next) ==
  /\ pc[r] = step
  /\ context' = [context EXCEPT ![r] = @ \cup {what}]
  /\ Goto(r, next)
  /\ UNCHANGED <<page, cur, purpose, mappings, desc, ready, result, hal, leaked, terminal, faults>>

AclInit(r) == Prepare(r, "init", "acl", "device")
SetDevice(r) == Prepare(r, "device", "device", "granularity")

\* LocalSetup: granularity, then reserve, create and map the rank's own memory.
Silent(r, step, next) ==
  /\ pc[r] = step
  /\ Goto(r, next)
  /\ UNCHANGED <<page, cur, purpose, mappings, desc, ready, result, ledger, terminal, faults>>

QueryGranularity(r) == Silent(r, "granularity", "reserve")

ReserveRankAddress(r, q) ==
  /\ mappings' = [mappings EXCEPT ![r][q].addr = TRUE]
  /\ hal' = [hal EXCEPT ![r][q].va = TRUE]
  /\ UNCHANGED <<page, cur, purpose, desc, ready, result, context, leaked, terminal, faults>>

Reserve(r) == pc[r] = "reserve" /\ Goto(r, "create") /\ ReserveRankAddress(r, r)

Create(r) ==
  /\ pc[r] = "create"
  /\ mappings' = [mappings EXCEPT ![r][r].handle = r]
  /\ hal' = [hal EXCEPT ![r][r].ref = r]
  /\ Goto(r, "map")
  /\ UNCHANGED <<page, cur, purpose, desc, ready, result, context, leaked, terminal, faults>>

MemMap(r, q) ==
  /\ mappings' = [mappings EXCEPT ![r][q].mapped = TRUE]
  /\ hal' = [hal EXCEPT ![r][q].view = mappings[r][q].handle]
  /\ UNCHANGED <<page, purpose, desc, ready, result, context, leaked, terminal, faults>>

Map(r) == pc[r] = "map" /\ Goto(r, "export") /\ UNCHANGED cur /\ MemMap(r, r)

-----------------------------------------------------------------------------
\* CrossRankSetup: export, lift the white list, print the DESC line.
Export(r) == Silent(r, "export", "whitelist")
DisableWhitelist(r) == Silent(r, "whitelist", "publish")

\* The peers in rank order: the first at or after q, if there is one.
PeerFrom(r, q) == IF q = r THEN q + 1 ELSE q
ReadPeer(r, q) ==
  /\ cur' = [cur EXCEPT ![r] = q]
  /\ Goto(r, IF q < N THEN "read" ELSE "done")

Unflushed(r) ==   \* mutant: the line stays in the buffer of the stream
  /\ pc[r] = "publish"
  /\ ReadPeer(r, PeerFrom(r, 0))
  /\ UNCHANGED <<page, purpose, mappings, desc, ready, result, ledger, terminal, faults>>

SetRankDesc(r) ==
  /\ pc[r] = "publish"
  /\ printed' = [printed EXCEPT ![r] = TRUE]
  /\ ReadPeer(r, PeerFrom(r, 0))
  /\ UNCHANGED <<page, purpose, mappings, desc, ready, result, ledger, stdin, eof, stray, faults>>

\* GetRankDesc takes one line after the other until the one of rank cur comes.
\* It blocks for as long as there is none, so the polling loop around it (and
\* with it timeoutMs) never takes a second turn.
AnyDescriptor(r, line) == line # None   \* mutant: the rank on the line is not compared
ExpectedDescriptor(r, line) == line = cur[r]

GetRankDesc(r) ==
  /\ pc[r] = "read"
  /\ stdin[r] # <<>>
  /\ stdin' = [stdin EXCEPT ![r] = Tail(@)]
  /\ IF ExpectedDescriptor(r, Head(stdin[r]))
       THEN desc' = [desc EXCEPT ![r] = Head(stdin[r])] /\ Goto(r, "import")
       ELSE UNCHANGED <<desc, pc>>
  /\ UNCHANGED <<page, cur, purpose, mappings, ready, result, ledger, printed, eof, stray, faults>>

Import(r) ==
  /\ pc[r] = "import"
  /\ Allocated(desc[r])
  /\ mappings' = [mappings EXCEPT ![r][cur[r]].handle = desc[r]]
  /\ hal' = [hal EXCEPT ![r][cur[r]].ref = desc[r]]
  /\ Goto(r, "reservepeer")
  /\ UNCHANGED <<page, cur, purpose, desc, ready, result, context, leaked, terminal, faults>>

ReservePeer(r) ==
  pc[r] = "reservepeer" /\ Goto(r, "mappeer") /\ ReserveRankAddress(r, cur[r])

MapPeer(r) ==
  pc[r] = "mappeer" /\ ReadPeer(r, PeerFrom(r, cur[r] + 1)) /\ MemMap(r, cur[r])

\* Setup returns OK and main() prints SETUP PASS.
SetupReturns(r) ==
  /\ pc[r] = "done"
  /\ ready' = [ready EXCEPT ![r] = TRUE]
  /\ Goto(r, "hold")
  /\ UNCHANGED <<page, cur, purpose, mappings, desc, result, ledger, terminal, faults>>

\* Any line, or the end of the input, ends the hold.
NoHold(r) == TRUE   \* mutant: main() does not wait
Acknowledged(r) == stdin[r] # <<>> \/ eof[r]

LeaveHold(r) ==
  /\ pc[r] = "hold"
  /\ Acknowledged(r)
  /\ IF stdin[r] # <<>>
       THEN stdin' = [stdin EXCEPT ![r] = Tail(@)] /\ UNCHANGED result
       ELSE Fail(r) /\ UNCHANGED stdin
  /\ purpose' = [purpose EXCEPT ![r] = "destroy"]
  /\ cur' = [cur EXCEPT ![r] = 0]
  /\ Goto(r, "unmap")
  /\ UNCHANGED <<page, mappings, desc, ready, ledger, printed, eof, stray, faults>>

-----------------------------------------------------------------------------
\* A failure inside Setup: LocalSetup with huge pages is tried again with
\* normal ones, everything else ends Setup; Reset() runs in both cases.
ResetFor(r, why) ==
  /\ purpose' = [purpose EXCEPT ![r] = why]
  /\ cur' = [cur EXCEPT ![r] = 0]
  /\ Goto(r, "unmap")

SetupFails(r) ==
  /\ ResetFor(r, IF pc[r] \in LocalSteps /\ page[r] = "huge" THEN "retry" ELSE "failed")
  /\ UNCHANGED <<page, mappings, desc, ready, result, ledger, terminal>>

\* End of input while a descriptor is awaited; the import of memory that is no
\* longer there, or its mapping, refused by the HAL.
EofIsNoLine(r) ==   \* mutant: the end of the input counts as one more bad line
  pc[r] = "read" /\ stdin[r] = <<>> /\ eof[r] /\ UNCHANGED vars

InputEnds(r) == pc[r] = "read" /\ stdin[r] = <<>> /\ eof[r] /\ SetupFails(r) /\ UNCHANGED faults
Refused(r) ==
  /\ \/ pc[r] = "import" /\ ~Allocated(desc[r])
     \/ pc[r] = "mappeer" /\ ~Allocated(mappings[r][cur[r]].handle)
  /\ SetupFails(r)
  /\ UNCHANGED faults

-----------------------------------------------------------------------------
\* Reset(): unmap whatever is mapped, release the imports, release the rank's
\* own memory, free the addresses.  The calls a loop has still to make:
OwnUnmapOnly(r) ==   \* mutant: only the rank's own memory is unmapped
  {q \in Rank : /\ q >= cur[r]
                /\ \/ pc[r] = "unmap" /\ q = r /\ mappings[r][q].mapped
                   \/ pc[r] = "cancel" /\ q # r /\ mappings[r][q].handle # None
                   \/ pc[r] = "release" /\ q = r /\ mappings[r][q].handle # None
                   \/ pc[r] = "free" /\ mappings[r][q].addr}
Pending(r) ==
  {q \in Rank : /\ q >= cur[r]
                /\ \/ pc[r] = "unmap" /\ mappings[r][q].mapped
                   \/ pc[r] = "cancel" /\ q # r /\ mappings[r][q].handle # None
                   \/ pc[r] = "release" /\ q = r /\ mappings[r][q].handle # None
                   \/ pc[r] = "free" /\ mappings[r][q].addr}

NextCall(r, q) == q \in Pending(r) /\ \A p \in Pending(r) : q <= p

AfterCall(step, entry) ==
  IF step = "unmap" THEN [entry EXCEPT !.view = None]
  ELSE IF step = "free" THEN [entry EXCEPT !.va = FALSE]
  ELSE [entry EXCEPT !.ref = None]

ResetCall(r) ==
  \E q \in Rank :
    /\ NextCall(r, q)
    /\ hal' = [hal EXCEPT ![r][q] = AfterCall(pc[r], @)]
    /\ cur' = [cur EXCEPT ![r] = q + 1]
    /\ UNCHANGED <<pc, page, purpose, mappings, desc, ready, result, context, leaked, terminal, faults>>

\* Mutant: imported handles are not released.
KeepImports(step) == IF step = "unmap" THEN "release" ELSE "free"
NextLoop(step) ==
  IF step = "unmap" THEN "cancel" ELSE IF step = "cancel" THEN "release" ELSE "free"

ResetLoop(r) ==
  /\ pc[r] \in ResetSteps \ {"free"}
  /\ Pending(r) = {}
  /\ cur' = [cur EXCEPT ![r] = 0]
  /\ Goto(r, NextLoop(pc[r]))
  /\ UNCHANGED <<page, purpose, mappings, desc, ready, result, ledger, terminal, faults>>

\* mappings_.clear(), and what follows the call of Reset().
ResetReturns(r) ==
  /\ pc[r] = "free"
  /\ Pending(r) = {}
  /\ mappings' = [mappings EXCEPT ![r] = [q \in Rank |-> Unset]]
  /\ cur' = [cur EXCEPT ![r] = 0]
  /\ \/ purpose[r] = "retry" /\ Goto(r, "granularity") /\ page' = [page EXCEPT ![r] = "normal"]
     \/ purpose[r] = "failed" /\ Goto(r, "failed") /\ UNCHANGED page
     \/ purpose[r] = "destroy" /\ Goto(r, "finalize") /\ UNCHANGED page
  /\ UNCHANGED <<purpose, desc, ready, result, ledger, terminal, faults>>

\* main() sees the status; the destructor runs Reset() once more, on nothing.
ReportFailure(r) ==
  /\ pc[r] = "failed"
  /\ Fail(r)
  /\ Goto(r, "finalize")
  /\ UNCHANGED <<page, cur, purpose, mappings, desc, ready, ledger, terminal, faults>>

\* The end of a process gives back whatever the HAL still holds for it.
Reclaim(r) ==
  /\ context' = [context EXCEPT ![r] = {}]
  /\ hal' = [hal EXCEPT ![r] = [q \in Rank |-> Nothing]]
  /\ UNCHANGED <<page, cur, purpose, mappings, desc, ready, leaked, terminal>>

Finalize(r) ==
  /\ pc[r] = "finalize"
  /\ Goto(r, "exited")
  /\ Reclaim(r)
  /\ UNCHANGED <<result, faults>>

-----------------------------------------------------------------------------
\* Injected faults.
Inject == faults < MaxFaults /\ faults' = faults + 1

\* A call of Setup fails; mappings_.resize() throws, which is not retried.
CallFails(r) ==
  /\ pc[r] \in {"device", "export", "whitelist", "import", "reservepeer", "mappeer"} \cup LocalSteps
  /\ Inject
  /\ SetupFails(r)

ResizeThrows(r) ==
  /\ pc[r] = "granularity"
  /\ Inject
  /\ ResetFor(r, "failed")
  /\ UNCHANGED <<page, mappings, desc, ready, result, ledger, terminal>>

\* Reset() logs a failing call and carries on.
CleanupFails(r) ==
  \E q \in Rank :
    /\ NextCall(r, q)
    /\ Inject
    /\ cur' = [cur EXCEPT ![r] = q + 1]
    /\ leaked' = [leaked EXCEPT ![r] = TRUE]
    /\ UNCHANGED <<pc, page, purpose, mappings, desc, ready, result, context, hal, terminal>>

\* aclInit fails, and main() returns at once; aclFinalize fails.
AclFails(r) ==
  /\ pc[r] \in {"init", "finalize"}
  /\ Inject
  /\ Fail(r)
  /\ Goto(r, "exited")
  /\ Reclaim(r)

Killed(r) ==
  /\ pc[r] \in Live
  /\ Inject
  /\ Goto(r, "killed")
  /\ Reclaim(r)
  /\ UNCHANGED result

-----------------------------------------------------------------------------
\* The person at the terminals (external), who pastes the line a terminal asks
\* for once it is printed elsewhere, presses Enter when every rank has printed
\* SETUP PASS or ended, and closes the input of a rank that waits for the line
\* of a rank that ended without printing one.
Type(t, line) ==
  /\ pc[t] \in Live /\ ~eof[t]
  /\ stdin' = [stdin EXCEPT ![t] = Append(@, line)]

Answer(t) ==
  /\ pc[t] = "read" /\ stdin[t] = <<>> /\ printed[cur[t]]
  /\ Type(t, cur[t])
  /\ UNCHANGED stray

PressEnter(t) ==
  /\ pc[t] = "hold" /\ stdin[t] = <<>>
  /\ \A q \in Rank : ready[q] \/ pc[q] \in Gone
  /\ Type(t, None)
  /\ UNCHANGED stray

\* A line nobody asked for, before SETUP PASS is printed: pasted twice, ahead of
\* time or in the wrong terminal, or an empty or garbled one.
Stray(t) ==
  /\ pc[t] # "hold"
  /\ stray < MaxStray
  /\ stray' = stray + 1
  /\ \E line \in Line : (line # None => printed[line]) /\ Type(t, line)
  /\ UNCHANGED <<control, mappings, desc, ready, result, ledger, printed, eof, faults>>

CloseStdin(t) ==
  /\ pc[t] \in Live /\ ~eof[t]
  /\ eof' = [eof EXCEPT ![t] = TRUE]
  /\ UNCHANGED <<control, mappings, desc, ready, result, ledger, printed, stdin, stray>>

GiveUp(t) ==
  /\ pc[t] = "read" /\ pc[cur[t]] \in Gone /\ ~printed[cur[t]]
  /\ CloseStdin(t)
  /\ UNCHANGED faults

Attend(t) ==
  \/ /\ Answer(t) \/ PressEnter(t)
     /\ UNCHANGED <<control, mappings, desc, ready, result, ledger, printed, eof, faults>>
  \/ GiveUp(t)

-----------------------------------------------------------------------------
Step(r) ==
  \/ AclInit(r) \/ SetDevice(r) \/ QueryGranularity(r) \/ Reserve(r) \/ Create(r) \/ Map(r)
  \/ Export(r) \/ DisableWhitelist(r) \/ SetRankDesc(r) \/ GetRankDesc(r) \/ Import(r) \/ ReservePeer(r) \/ MapPeer(r)
  \/ SetupReturns(r) \/ LeaveHold(r) \/ InputEnds(r) \/ Refused(r)
  \/ ResetCall(r) \/ ResetLoop(r) \/ ResetReturns(r) \/ ReportFailure(r) \/ Finalize(r)

Fault(r) ==
  \/ CallFails(r) \/ ResizeThrows(r) \/ CleanupFails(r) \/ AclFails(r) \/ Killed(r)
  \/ CloseStdin(r) /\ Inject

Terminated == \A r \in Rank : pc[r] \in Gone

Next ==
  \/ \E r \in Rank : Step(r) \/ Attend(r) \/ Stray(r) \/ Fault(r)
  \/ Terminated /\ UNCHANGED vars

Spec == Init /\ [][Next]_vars

\* Every process runs and the person attends to every terminal.
FairSpec ==
  /\ Spec
  /\ \A r \in Rank : WF_vars(Step(r)) /\ WF_vars(Attend(r))

-----------------------------------------------------------------------------
(***************************************************************************)
(* The accessors, once Setup has returned OK: the memory an address leads  *)
(* to and the offset in it, counted in slots.                              *)
(***************************************************************************)
Slot == 0 .. (N + 1) * SlotsPerRank - 1   \* one rank more than there are
Owner(slot) == RankOf(slot, SlotsPerRank)
Place(memory, slot) == <<memory, IndexInRank(slot, SlotsPerRank)>>
Null == <<None, 0>>
AddressIn(r, q, slot) ==
  IF q \in Rank /\ mappings[r][q].mapped THEN Place(hal[r][q].view, slot) ELSE Null

HostAccessibleOf(r, slot) == ready[r] /\ Owner(slot) = r
DataAt(r, slot) ==
  IF ready[r] /\ Owner(slot) = r THEN AddressIn(r, r, slot) ELSE Null
DeviceDataAt(r, slot) ==
  IF ready[r] /\ Owner(slot) # r THEN AddressIn(r, Owner(slot), slot) ELSE Null

-----------------------------------------------------------------------------
(***************************************************************************)
(* Properties.                                                             *)
(***************************************************************************)

\* While main() holds, every slot has an address by exactly one of the two
\* accessors, DataAt for the rank's own slots and DeviceDataAt for those of its
\* peers, it leads to the memory of the rank that owns the slot, whatever lines
\* were pasted, and no slot beyond the last has one (data_strategy.h:65-68).
EverySlotReachesItsRank ==
  \A r \in Rank : pc[r] = "hold" =>
    \A slot \in Slot :
      LET q == Owner(slot)
          own == Place(q, slot)
      IN /\ HostAccessibleOf(r, slot) <=> q = r
         /\ DataAt(r, slot) = IF q = r THEN own ELSE Null
         /\ DeviceDataAt(r, slot) = IF q \in Rank \ {r} THEN own ELSE Null

\* Whenever Reset() has returned, after any failure at any step of Setup, before
\* the second attempt with normal pages and at the end, the HAL holds nothing
\* for the process, unless a call of Reset() itself failed (lines 126-163).
Holding(r) == \E q \in Rank : hal[r][q] # Nothing
NothingLeft ==
  \A r \in Rank :
    pc[r] \in {"granularity", "failed", "finalize"} \cup Gone => leaked[r] \/ ~Holding(r)

\* No handle is released and no address freed under a mapping: whatever is
\* mapped is mapped at a reserved address from the handle it was mapped with.
MappingBacked ==
  \A r, q \in Rank :
    hal[r][q].view # None /\ ~leaked[r] =>
      hal[r][q].va /\ hal[r][q].ref = hal[r][q].view

\* "Keep this process alive until all peers finish Setup" (main.cpp:78): a rank
\* whose Setup passed keeps its memory while another is still in Setup.
HeldUntilAllReady ==
  \A r, q \in Rank :
    ready[r] /\ pc[q] \in SetupSteps => Allocated(r)

\* With nothing failing and a person who types what is asked, every rank gets
\* through Setup, though each blocks on its peers in turn, and returns 0.
EventuallyPass == <>(Terminated /\ \A r \in Rank : ready[r] /\ result[r] = 0)

\* Whatever fails, every process ends.
Termination == <>Terminated
=============================================================================
