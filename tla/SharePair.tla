------------------------------ MODULE SharePair -------------------------------
(***************************************************************************)
(* host_share, device_share and hal_map_probe: a launcher that becomes the *)
(* creator of one shared buffer, the importer it forks and execs, and the  *)
(* bare words they exchange over a socketpair.  What a worker does is a    *)
(* script, one entry per call in program order; the actions below run it.  *)
(* The HAL, the sockets and the processes are external: any call may fail, *)
(* a receive may time out, a process may be killed, at any step.           *)
(***************************************************************************)
EXTENDS Naturals, Sequences

CONSTANT MaxFaults   \* bound on failed calls, timeouts and deaths together

ASSUME MaxFaultsAssumption == MaxFaults \in Nat

Probe == {"host_share", "device_share", "hal_map_host", "hal_map_device"}
Role == {"creator", "importer"}
Peer(r) == IF r = "creator" THEN "importer" ELSE "creator"

Take(x) == <<"take", x>>         \* check(call); then the flag or pointer of x is set
Drop(x) == <<"drop", x>>         \* check(release); then the flag is cleared
Call == <<"call", "">>           \* a checked call that holds nothing
Fill(seed) == <<"fill", seed>>
Verify(seed) == <<"verify", seed>>
CopyIn(seed) == <<"copy_in", seed>>     \* halMemcpy into the mapping
CopyOut(seed) == <<"copy_out", seed>>   \* halMemcpy out of it, then verify
IoTests(seed) == <<"io", seed>>
Send(word) == <<"send", word>>
SendFailures == <<"send", "failures">>
Expect(word) == <<"expect", word>>      \* check(receive_word() == word)
AddFailures == <<"add", "">>            \* failures += receive_word()

Mapping == <<Take("va"), Take("handle"), Take("mapped")>>
Unmapping == <<Drop("mapped"), Drop("handle"), Drop("va")>>
Hbm == <<Take("hbm_va"), Take("hbm_handle"), Take("hbm_mapped")>>

HostShare ==
  LET open == <<Take("acl"), Take("device"), Call>> IN
  [creator  |-> open \o Mapping
                \o <<Fill(101), Verify(101), Call, Call, Send("token"), Expect("0"), Verify(202),
                     IoTests(303), Send("303"), AddFailures, Verify(404), Send("0"), Expect("0")>>,
   importer |-> open \o <<Expect("token")>> \o Mapping
                \o <<Verify(101), Fill(202), Verify(202), Send("0"), Expect("303"), Verify(303),
                     IoTests(404), SendFailures, Expect("0")>> \o Unmapping \o <<Send("0")>>]

DeviceShare ==
  LET open == <<Take("library"), Call, Take("tsd"), Take("device")>> IN
  [creator  |-> open \o Mapping \o <<Fill(101)>> \o Hbm
                \o <<CopyOut(101), Call, Call, Send("token"), Expect("0"), Verify(202),
                     Send("0"), Expect("0")>>,
   importer |-> open \o <<Expect("token")>> \o Mapping \o Hbm
                \o <<CopyOut(101), CopyIn(202), CopyOut(202), Send("0"), Expect("0")>>
                \o Unmapping \o <<Send("0")>>]

HalMap(host) ==
  LET When(calls) == IF host THEN calls ELSE <<>> IN
  [creator  |-> <<Take("device")>> \o Mapping \o <<Fill(101), Call, Call, Send("token"), Expect("0")>>
                \o When(<<Verify(202)>>) \o <<Send("0"), Expect("0")>>,
   importer |-> <<Take("device"), Expect("token"), Take("va")>> \o When(<<Call>>)
                \o <<Take("handle"), Take("mapped")>> \o When(<<Verify(101), Fill(202)>>)
                \o <<Send("0"), Expect("0")>> \o Unmapping \o <<Send("0")>>]

Programs == [host_share |-> HostShare, device_share |-> DeviceShare,
             hal_map_host |-> HalMap(TRUE), hal_map_device |-> HalMap(FALSE)]

Without(s, call) == SelectSeq(s, LAMBDA c : c # call)
NoTurnTaken == [p \in Probe |-> [Programs[p] EXCEPT !.importer = Without(@, Expect("303"))]]
                                   \* mutant: the importer does not wait for 303
Script == Programs

(***************************************************************************)
(* The destructors and the code after the catch, in order.  host_share and *)
(* device_share keep their Allocations inside the try block: the memory is *)
(* gone before the channel closes.  hal_map_probe closes the channel first.*)
(***************************************************************************)
Shared == {"va", "handle", "mapped"}
Allocation == <<"mapped", "handle", "va">>
HbmAllocation == <<"hbm_mapped", "hbm_handle", "hbm_va">>

Unwind ==
  [host_share     |-> Allocation \o <<"channel", "device", "acl">>,
   device_share   |-> HbmAllocation \o Allocation \o <<"channel", "device", "tsd", "library">>,
   hal_map_host   |-> <<"channel">> \o Allocation \o <<"device">>,
   hal_map_device |-> <<"channel">> \o Allocation \o <<"device">>]
-------------------------------------------------------------------------------
VARIABLES
  probe,                    \* the program under way
  phase, at, failed, exit,  \* each process: part of the code, script position, whether
                            \*   its result is a failure, and how it ended
  threw,                    \* the try block was left by an exception
  busy,                     \* inside an access of the shared buffer
  flag, held,               \* what the program's variables say, what the driver granted
  wire, ends,               \* words on their way to a process; who holds each socket end
  content,                  \* seed of the pattern in the buffer, 0 when it is none
  faults                    \* calls that failed, timed out, processes killed

process == <<phase, at, failed, exit, threw, busy>>
vars == <<probe, process, flag, held, wire, ends, content, faults>>

Resource == Shared \cup {"acl", "device", "library", "tsd", "hbm_va", "hbm_handle", "hbm_mapped"}
Word == {"token", "0", "1", "303"}

TypeOK ==
  /\ probe \in Probe
  /\ phase \in [Role -> {"unborn", "launch", "forked", "try", "unwind", "wait", "gone"}]
  /\ at \in [Role -> 1 .. 32]
  /\ failed \in [Role -> BOOLEAN] /\ threw \in [Role -> BOOLEAN] /\ busy \in [Role -> BOOLEAN]
  /\ exit \in [Role -> {"none", "pass", "fail", "launch_error", "killed"}]
  /\ flag \in [Role -> SUBSET Resource] /\ held \in [Role -> SUBSET Resource]
  /\ wire \in [Role -> Seq(Word)] /\ \A r \in Role : Len(wire[r]) <= 1   \* strict turns
  /\ ends \in [Role -> SUBSET Role]
  /\ content \in {0, 101, 202, 303, 404} /\ faults \in 0 .. MaxFaults

Init ==
  /\ probe \in Probe
  /\ phase = [r \in Role |-> IF r = "creator" THEN "launch" ELSE "unborn"]
  /\ at = [r \in Role |-> 1]
  /\ failed = [r \in Role |-> FALSE] /\ threw = failed /\ busy = failed
  /\ exit = [r \in Role |-> "none"]
  /\ flag = [r \in Role |-> {}] /\ held = flag /\ ends = flag
  /\ wire = [r \in Role |-> <<>>]
  /\ content = 0 /\ faults = 0

(***************************************************************************)
(* One more thing goes wrong, within the bound.                            *)
(***************************************************************************)
Fault == faults < MaxFaults /\ faults' = faults + 1

Ops(r) == Script[probe][r]
Op(r) == Ops(r)[at[r]][1]
Arg(r) == Ops(r)[at[r]][2]
In(r) == phase[r] = "try" /\ at[r] <= Len(Ops(r))

End(r, how) ==
  /\ phase' = [phase EXCEPT ![r] = "gone"] /\ exit' = [exit EXCEPT ![r] = how]

Advance(r) == at' = [at EXCEPT ![r] = @ + 1] /\ UNCHANGED <<phase, threw>>

(***************************************************************************)
(* An exception: the destructors run from the throwing point.              *)
(***************************************************************************)
Throw(r) ==
  /\ phase' = [phase EXCEPT ![r] = "unwind"] /\ at' = [at EXCEPT ![r] = 1]
  /\ threw' = [threw EXCEPT ![r] = TRUE] /\ failed' = [failed EXCEPT ![r] = TRUE]
-------------------------------------------------------------------------------
(***************************************************************************)
(* launch(): socketpair, its timeouts and fork, any of which may fail; the *)
(* child closes the creator's end and execs, the parent closes the         *)
(* importer's end and becomes the creator.                                 *)
(***************************************************************************)
Fork ==
  /\ phase["creator"] = "launch"
  /\ \/ /\ phase' = [phase EXCEPT !["creator"] = "forked", !["importer"] = "launch"]
        /\ ends' = [r \in Role |-> Role]
        /\ UNCHANGED <<exit, faults>>
     \/ End("creator", "launch_error") /\ Fault /\ UNCHANGED ends
  /\ UNCHANGED <<probe, at, failed, threw, busy, flag, held, wire, content>>

LeaveImporterEnd ==   \* mutant: close(sockets[1]) is forgotten
  /\ phase["creator"] = "forked" /\ phase' = [phase EXCEPT !["creator"] = "try"]
  /\ UNCHANGED <<probe, at, failed, exit, threw, busy, flag, held, wire, ends, content, faults>>

CloseImporterEnd ==
  /\ phase["creator"] = "forked"
  /\ ends' = [ends EXCEPT !["importer"] = @ \ {"creator"}]
  /\ phase' = [phase EXCEPT !["creator"] = "try"]
  /\ UNCHANGED <<probe, at, failed, exit, threw, busy, flag, held, wire, content, faults>>

Exec ==
  /\ phase["importer"] = "launch"
  /\ \/ /\ phase' = [phase EXCEPT !["importer"] = "try"]
        /\ ends' = [ends EXCEPT !["creator"] = @ \ {"importer"}]
        /\ UNCHANGED <<exit, faults>>
     \/ /\ End("importer", "fail") /\ Fault
        /\ ends' = [r \in Role |-> ends[r] \ {"importer"}]
  /\ UNCHANGED <<probe, at, failed, threw, busy, flag, held, wire, content>>

Acquire(r) ==
  /\ In(r) /\ Op(r) = "take"
  /\ \/ /\ held' = [held EXCEPT ![r] = @ \cup {Arg(r)}]
        /\ flag' = [flag EXCEPT ![r] = @ \cup {Arg(r)}]
        /\ Advance(r) /\ UNCHANGED <<failed, faults>>
     \/ Throw(r) /\ Fault /\ UNCHANGED <<held, flag>>
  /\ UNCHANGED <<probe, exit, busy, wire, ends, content>>

(***************************************************************************)
(* The importer's explicit release; what fails here is left to the         *)
(* destructor, what succeeded must not be released again.                  *)
(***************************************************************************)
FlagKept(r) == flag   \* mutant: mapped stays true
Cleared(r) == [flag EXCEPT ![r] = @ \ {Arg(r)}]

Release(r) ==
  /\ In(r) /\ Op(r) = "drop"
  /\ \/ /\ held' = [held EXCEPT ![r] = @ \ {Arg(r)}] /\ flag' = Cleared(r)
        /\ Advance(r) /\ UNCHANGED <<failed, faults>>
     \/ Throw(r) /\ Fault /\ UNCHANGED <<held, flag>>
  /\ UNCHANGED <<probe, exit, busy, wire, ends, content>>

CheckedCall(r) ==
  /\ In(r) /\ Op(r) = "call"
  /\ \/ Advance(r) /\ UNCHANGED <<failed, faults>>
     \/ Throw(r) /\ Fault
  /\ UNCHANGED <<probe, exit, busy, flag, held, wire, ends, content>>

(***************************************************************************)
(* An access of the buffer takes time: a write leaves no pattern until it  *)
(* is over, a read compares when it is over.                               *)
(***************************************************************************)
Writing == {"fill", "copy_in", "io"}
Reading == {"verify", "copy_out"}

BeginAccess(r) ==
  /\ In(r) /\ Op(r) \in Writing \cup Reading /\ ~busy[r]
  /\ busy' = [busy EXCEPT ![r] = TRUE]
  /\ content' = IF Op(r) \in Writing THEN 0 ELSE content
  /\ UNCHANGED <<probe, phase, at, failed, exit, threw, flag, held, wire, ends, faults>>

(***************************************************************************)
(* fill, a copy into the mapping, or io_tests, which ends by filling the   *)
(* buffer and reports the cases that failed, or throws (module IoTests).   *)
(* A copy that reports success may have moved nothing; into the mapping    *)
(* the pattern is then not there, and out of it the comparison, with a     *)
(* buffer cleared before, is as sure to throw as a copy that fails.        *)
(***************************************************************************)
EndWrite(r) ==
  /\ In(r) /\ busy[r] /\ Op(r) \in Writing
  /\ busy' = [busy EXCEPT ![r] = FALSE]
  /\ \/ /\ content' = Arg(r) /\ Advance(r) /\ UNCHANGED <<failed, faults>>
     \/ /\ Op(r) = "io" /\ content' = Arg(r) /\ Advance(r)
        /\ failed' = [failed EXCEPT ![r] = TRUE] /\ Fault
     \/ Op(r) = "copy_in" /\ Advance(r) /\ Fault /\ UNCHANGED <<failed, content>>
     \/ Op(r) # "fill" /\ Throw(r) /\ Fault /\ UNCHANGED content
  /\ UNCHANGED <<probe, exit, flag, held, wire, ends>>

EndRead(r) ==
  /\ In(r) /\ busy[r] /\ Op(r) \in Reading
  /\ busy' = [busy EXCEPT ![r] = FALSE]
  /\ \/ content = Arg(r) /\ Advance(r) /\ UNCHANGED <<failed, faults>>
     \/ content # Arg(r) /\ Throw(r) /\ UNCHANGED faults
     \/ Op(r) = "copy_out" /\ Throw(r) /\ Fault
  /\ UNCHANGED <<probe, exit, flag, held, wire, ends, content>>

(***************************************************************************)
(* The failure count leaves out a clean-up that failed inside io_tests.    *)
(***************************************************************************)
Spoken(r) == IF Arg(r) # "failures" THEN {Arg(r)} ELSE IF failed[r] THEN {"0", "1"} ELSE {"0"}

SendWord(r) ==
  /\ In(r) /\ Op(r) = "send"
  /\ IF ends[Peer(r)] = {} THEN Throw(r) /\ UNCHANGED wire
     ELSE /\ \E word \in Spoken(r) : wire' = [wire EXCEPT ![Peer(r)] = Append(@, word)]
          /\ Advance(r) /\ UNCHANGED failed
  /\ UNCHANGED <<probe, exit, busy, flag, held, ends, content, faults>>

(***************************************************************************)
(* receive_word: what was sent before the peer closed is still delivered;  *)
(* end-of-file comes only when nobody holds the peer's end any more.       *)
(***************************************************************************)
ReceiveWord(r) ==
  /\ In(r) /\ Op(r) \in {"expect", "add"}
  /\ \/ /\ wire[r] # <<>> /\ wire' = [wire EXCEPT ![r] = Tail(@)]
        /\ IF Op(r) = "expect" /\ Head(wire[r]) # Arg(r) THEN Throw(r)
           ELSE /\ Advance(r)
                /\ failed' = [failed EXCEPT ![r] = @ \/ (Op(r) = "add" /\ Head(wire[r]) # "0")]
     \/ wire[r] = <<>> /\ ends[Peer(r)] = {} /\ Throw(r) /\ UNCHANGED wire
  /\ UNCHANGED <<probe, exit, busy, flag, held, ends, content, faults>>

ReceiveTimeout(r) ==
  /\ In(r) /\ Op(r) \in {"expect", "add"} /\ wire[r] = <<>>
  /\ Throw(r) /\ Fault
  /\ UNCHANGED <<probe, exit, busy, flag, held, wire, ends, content>>

LeaveTry(r) ==
  /\ phase[r] = "try" /\ at[r] > Len(Ops(r))
  /\ phase' = [phase EXCEPT ![r] = "unwind"] /\ at' = [at EXCEPT ![r] = 1]
  /\ UNCHANGED <<probe, failed, exit, threw, busy, flag, held, wire, ends, content, faults>>

(***************************************************************************)
(* One entry of the destructors: nothing where the flag is not set; a      *)
(* release that fails, or finds nothing to release, is only noted.         *)
(***************************************************************************)
CleanUp(r) ==
  /\ phase[r] = "unwind" /\ at[r] <= Len(Unwind[probe])
  /\ LET x == Unwind[probe][at[r]] IN
     \/ /\ x = "channel" /\ ends' = [ends EXCEPT ![r] = @ \ {r}]
        /\ UNCHANGED <<flag, held, failed, faults>>
     \/ /\ x # "channel" /\ x \notin flag[r]
        /\ UNCHANGED <<flag, held, failed, ends, faults>>
     \/ /\ x \in flag[r] /\ flag' = [flag EXCEPT ![r] = @ \ {x}] /\ UNCHANGED ends
        /\ \/ x \in held[r] /\ held' = [held EXCEPT ![r] = @ \ {x}] /\ UNCHANGED <<failed, faults>>
           \/ x \notin held[r] /\ failed' = [failed EXCEPT ![r] = TRUE] /\ UNCHANGED <<held, faults>>
           \/ failed' = [failed EXCEPT ![r] = TRUE] /\ Fault /\ UNCHANGED held
  /\ Advance(r)
  /\ UNCHANGED <<probe, exit, busy, wire, content>>

Verdict(r) == IF failed[r] THEN "fail" ELSE "pass"

Unwound(r) == phase[r] = "unwind" /\ at[r] > Len(Unwind[probe])

ImporterReturns ==
  /\ Unwound("importer") /\ End("importer", Verdict("importer"))
  /\ UNCHANGED <<probe, at, failed, threw, busy, flag, held, wire, ends, content, faults>>

CreatorWaits ==
  /\ Unwound("creator") /\ phase' = [phase EXCEPT !["creator"] = "wait"]
  /\ UNCHANGED <<probe, at, failed, exit, threw, busy, flag, held, wire, ends, content, faults>>

(***************************************************************************)
(* waitpid returned: exit code 0 needs both results to be 0.               *)
(***************************************************************************)
OwnVerdict == Verdict("creator")   \* mutant: the wait status is ignored
CaseVerdict ==
  IF failed["creator"] \/ exit["importer"] # "pass" THEN "fail" ELSE "pass"

LauncherReturns ==
  /\ phase["creator"] = "wait" /\ phase["importer"] = "gone"
  /\ End("creator", CaseVerdict)
  /\ UNCHANGED <<probe, at, failed, threw, busy, flag, held, wire, ends, content, faults>>

(***************************************************************************)
(* A signal ends a process anywhere: the kernel closes its sockets and the *)
(* driver takes back what it held.                                         *)
(***************************************************************************)
Die(r) ==
  /\ phase[r] \notin {"unborn", "gone"}
  /\ End(r, "killed") /\ Fault
  /\ busy' = [busy EXCEPT ![r] = FALSE]
  /\ held' = [held EXCEPT ![r] = {}] /\ flag' = [flag EXCEPT ![r] = {}]
  /\ ends' = [e \in Role |-> ends[e] \ {r}]
  /\ UNCHANGED <<probe, at, failed, threw, wire, content>>

Step(r) ==
  \/ Acquire(r) \/ Release(r) \/ CheckedCall(r)
  \/ BeginAccess(r) \/ EndWrite(r) \/ EndRead(r)
  \/ SendWord(r) \/ ReceiveWord(r) \/ LeaveTry(r) \/ CleanUp(r)

CreatorStep == Fork \/ CloseImporterEnd \/ Step("creator") \/ CreatorWaits \/ LauncherReturns
ImporterStep == Exec \/ Step("importer") \/ ImporterReturns

Done == \A r \in Role : phase[r] \in {"unborn", "gone"}
Finished == Done /\ UNCHANGED vars

Next == CreatorStep \/ ImporterStep \/ Finished
          \/ \E r \in Role : ReceiveTimeout(r) \/ Die(r)

(***************************************************************************)
(* Calls return and the scheduler runs both processes.  No timeout and no  *)
(* death is owed to anyone.                                                *)
(***************************************************************************)
Spec == Init /\ [][Next]_vars /\ WF_vars(CreatorStep) /\ WF_vars(ImporterStep)
-------------------------------------------------------------------------------
(***************************************************************************)
(* The bare words hand the buffer back and forth.  The two processes are   *)
(* never inside an access of it together, whatever fails or times out, and *)
(* a creator that came through its conversation starts to release only     *)
(* after the importer has unmapped, released and freed its view            *)
(* (host_share.cpp 164-167, device_share.cpp 136-141): a 0 of another      *)
(* turn must never be taken for that last word.                            *)
(***************************************************************************)
OneAccessor == ~(busy["creator"] /\ busy["importer"])

ReleasesLast ==
  (phase["creator"] \in {"unwind", "wait", "gone"} /\ ~threw["creator"] /\ exit["creator"] \in {"none", "pass", "fail"})
    => held["importer"] \cap Shared = {}

BufferPassedInTurn == OneAccessor /\ ReleasesLast

(***************************************************************************)
(* The flags the destructors go by are what the driver has granted: within *)
(* the try block exactly, and nothing is left by a process that returned   *)
(* without noting a failure.                                               *)
(***************************************************************************)
FlagsAreGrants ==
  \A r \in Role :
    /\ flag[r] \subseteq held[r]
    /\ phase[r] = "try" => flag[r] = held[r]
    /\ exit[r] = "pass" => held[r] = {}

(***************************************************************************)
(* PROCESS_RESULT PASS: both scripts ran to their end, every word was      *)
(* used, and the last pattern written is in the buffer.  And with every    *)
(* call succeeding and nobody killed or timed out, no process throws or    *)
(* notes a failure: no word is misread, no pattern is missed and nothing   *)
(* is released twice.                                                      *)
(***************************************************************************)
LastSeed == CASE probe = "host_share" -> 404 [] probe = "hal_map_device" -> 101 [] OTHER -> 202

VerdictIsTrue ==
  /\ exit["creator"] = "pass" =>
       /\ exit["importer"] = "pass"
       /\ \A r \in Role : ~threw[r] /\ wire[r] = <<>>
       /\ content = LastSeed
  /\ faults = 0 => \A r \in Role : ~threw[r] /\ ~failed[r]

(***************************************************************************)
(* To its runner the pair is a case of CasePair.                           *)
(***************************************************************************)
StatusOf(r) == CASE phase[r] = "unborn" -> "none"
                 [] phase[r] = "gone" -> exit[r]
                 [] OTHER -> "running"
Case == INSTANCE CasePair WITH pair <- [parent |-> StatusOf("creator"), child |-> StatusOf("importer")]

(***************************************************************************)
(* The launcher's exit code 0 stands for both processes (cli.hpp 102-109), *)
(* and a pair left to itself ends, without any timeout: the death of one   *)
(* is end-of-file to the other, because neither keeps the other's end open.*)
(***************************************************************************)
ImplementsCasePair == Case!Spec
===============================================================================
