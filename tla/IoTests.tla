------------------------------- MODULE IoTests --------------------------------
(***************************************************************************)
(* io_tests of host_share.cpp and aio_operation of common.hpp: one process *)
(* moves the shared buffer ptr through an ACL stream and back, then        *)
(* through Linux AIO against a plain aligned buffer (control) as check.    *)
(* ACL and the kernel's AIO are external: a copy or request completes at   *)
(* any time and may move the data, leave its target untouched, garble it   *)
(* or report an error, and any call may fail.                              *)
(***************************************************************************)
EXTENDS Naturals, Sequences

CONSTANTS
  Requests,   \* n of aio_operation (4)
  Modes       \* values of direct that --aio asks for

ASSUME RequestsAssumption == Requests \in Nat \ {0}
ASSUME ModesAssumption == Modes \subseteq {0, 1}

VARIABLES
  pc, step, op,      \* place in the code; index into AclSteps; AIO operation under way
  direct,            \* the loop variable, 2 after the loop
  failures,
  ctx, kctx,         \* aio_context_t is not 0; the kernel has the context
  fd, stream,        \* what is open
  control,           \* the control buffer is allocated
  data,              \* content of ptr, control, the device memory and the file
  pending,           \* ACL copies under way: "none", "h2d" or "d2h"
  flight, outcome,   \* AIO requests in flight; the worst that its requests have done
  passed, real,      \* cases reported PASS; cases whose data did move (ACL: round trip)
  trouble            \* some call failed or some data did not move

place == <<pc, step, op, direct>>
vars == <<place, failures, ctx, kctx, fd, stream, control, data, pending, flight, outcome,
          passed, real, trouble>>

Content == {"seed", "other", "zero", "garbage"}    \* other: seed ^ 0xfedcba9876543210
Outcome == {"moved", "untouched", "garbled", "error"}
Ops == {"seed", "check", "read", "write", "back"}

AclSteps == <<"call", "stream", "call", "fill", "h2d", "sync", "zero", "d2h", "sync", "verify",
              "h2d", "sync", "d2h", "sync", "verify">>

Dump(o) == o \in {"seed", "write"}                  \* writes the file
Buffer(o) == IF o \in {"read", "write"} THEN "ptr" ELSE "control"
Target(o) == IF Dump(o) THEN "file" ELSE Buffer(o)
Source(o) == IF Dump(o) THEN Buffer(o) ELSE "file"
Acl == <<"acl", 0>>
CaseOf(o, d) == IF o = "read" THEN <<"read", d>> ELSE <<"write", d>>
Requested == {Acl} \cup ({"read", "write"} \X Modes)

TypeOK ==
  /\ pc \in {"acl", "acl_catch", "control", "open", "setup", "op", "events", "destroy",
             "inspect", "close", "leave", "returned", "thrown"}
  /\ step \in 1 .. Len(AclSteps) /\ op \in Ops /\ direct \in 0 .. 2 /\ failures \in 0 .. 7
  /\ \A flag \in {ctx, kctx, fd, stream, control, trouble} : flag \in BOOLEAN
  /\ data \in [{"ptr", "control", "device", "file"} -> Content]
  /\ pending \in {"none", "h2d", "d2h"} /\ flight \in 0 .. Requests /\ outcome \in Outcome
  /\ passed \subseteq Requested /\ real \subseteq Requested

Init ==
  /\ pc = "acl" /\ step = 1 /\ op = "seed" /\ direct = 0 /\ failures = 0
  /\ ctx = FALSE /\ kctx = FALSE /\ fd = FALSE /\ stream = FALSE /\ control = FALSE
  /\ data = [b \in {"ptr", "control", "device", "file"} |-> "garbage"]
  /\ pending = "none" /\ flight = 0 /\ outcome = "moved"
  /\ passed = {} /\ real = {} /\ trouble = FALSE

Goto(p) == pc' = p /\ UNCHANGED <<step, op, direct>>
-------------------------------------------------------------------------------
(***************************************************************************)
(* The ACL case: acquire, fill, copy to the device, clear, copy back and   *)
(* verify; then 32 copies each way.                                        *)
(***************************************************************************)
NextStep ==
  /\ UNCHANGED <<op, direct>>
  /\ IF step < Len(AclSteps) THEN step' = step + 1 /\ pc' = pc
     ELSE step' = step /\ pc' = "control"

AclFails == Goto("acl_catch") /\ trouble' = TRUE

AclAcquire ==
  /\ pc = "acl" /\ AclSteps[step] \in {"call", "stream"}
  /\ \/ NextStep /\ stream' = (stream \/ AclSteps[step] = "stream") /\ UNCHANGED trouble
     \/ AclFails /\ UNCHANGED stream
  /\ UNCHANGED <<failures, ctx, kctx, fd, control, data, pending, flight, outcome, passed, real>>

AclCpu ==
  /\ pc = "acl" /\ AclSteps[step] \in {"fill", "zero"} /\ NextStep
  /\ data' = [data EXCEPT !.ptr = IF AclSteps[step] = "fill" THEN "seed" ELSE "zero"]
  /\ UNCHANGED <<failures, ctx, kctx, fd, stream, control, pending, flight, outcome, passed, real, trouble>>

(***************************************************************************)
(* One copy, or the backlog of 32, of which a failing call leaves some.    *)
(***************************************************************************)
AclSubmit ==
  /\ pc = "acl" /\ AclSteps[step] \in {"h2d", "d2h"}
  /\ \/ NextStep /\ pending' = AclSteps[step] /\ UNCHANGED trouble
     \/ AclFails /\ pending' \in {"none", AclSteps[step]}
  /\ UNCHANGED <<failures, ctx, kctx, fd, stream, control, data, flight, outcome, passed, real>>

AclCompletes ==
  /\ pending # "none" /\ pending' = "none"
  /\ LET to == IF pending = "h2d" THEN "device" ELSE "ptr"
         from == IF pending = "h2d" THEN "ptr" ELSE "device"
     IN \E o \in Outcome \ {"error"} :
          /\ data' = [data EXCEPT ![to] = CASE o = "moved" -> data[from]
                                            [] o = "untouched" -> @
                                            [] OTHER -> "garbage"]
          /\ trouble' = (trouble \/ o # "moved")
  /\ UNCHANGED <<place, failures, ctx, kctx, fd, stream, control, flight, outcome, passed, real>>

(***************************************************************************)
(* aclrtSynchronizeStream, or the event calls after the backlog.           *)
(***************************************************************************)
AclSync ==
  /\ pc = "acl" /\ AclSteps[step] = "sync"
  /\ \/ pending = "none" /\ NextStep /\ UNCHANGED trouble
     \/ AclFails
  /\ UNCHANGED <<failures, ctx, kctx, fd, stream, control, data, pending, flight, outcome, passed, real>>

(***************************************************************************)
(* The case is real when the round trip was: ptr was cleared before the    *)
(* copy back.  It is not cleared before the backlog's copies, which put    *)
(* the seed where the seed is: the second verify sees a copy that garbled  *)
(* the data, and cannot see one that moved nothing.                        *)
(***************************************************************************)
AclVerify ==
  /\ pc = "acl" /\ AclSteps[step] = "verify"
  /\ IF data.ptr = "seed" THEN NextStep ELSE Goto("acl_catch")
  /\ passed' = IF data.ptr = "seed" /\ step = Len(AclSteps) THEN passed \cup {Acl} ELSE passed
  /\ real' = IF data.device = "seed" THEN real \cup {Acl} ELSE real
  /\ UNCHANGED <<failures, ctx, kctx, fd, stream, control, data, pending, flight, outcome, trouble>>

(***************************************************************************)
(* The catch waits for the stream before the CPU uses ptr again; if that   *)
(* fails the exception leaves io_tests, and ~AclResources destroys the     *)
(* stream with what is on it.                                              *)
(***************************************************************************)
NotDrained == TRUE   \* mutant: no aclrtSynchronizeStream in the catch
Drained == stream => pending = "none"

AclCatch ==
  /\ pc = "acl_catch"
  /\ \/ /\ Drained
        /\ failures' = failures + 1 /\ Goto("control") /\ UNCHANGED <<stream, pending, trouble>>
     \/ /\ stream /\ stream' = FALSE /\ pending' = "none"
        /\ Goto("thrown") /\ trouble' = TRUE /\ UNCHANGED failures
  /\ UNCHANGED <<ctx, kctx, fd, control, data, flight, outcome, passed, real>>
-------------------------------------------------------------------------------
(***************************************************************************)
(* posix_memalign, unless --aio none.                                      *)
(***************************************************************************)
AllocateControl ==
  /\ pc = "control"
  /\ \/ Modes = {} /\ Goto("leave") /\ UNCHANGED <<control, data, stream, trouble>>
     \/ /\ Modes # {} /\ control' = TRUE /\ data' = [data EXCEPT !.control = "seed"]
        /\ Goto("open") /\ UNCHANGED <<stream, trouble>>
     \/ /\ Modes # {} /\ Goto("thrown") /\ stream' = FALSE /\ trouble' = TRUE
        /\ UNCHANGED <<control, data>>
  /\ UNCHANGED <<failures, ctx, kctx, fd, pending, flight, outcome, passed, real>>

(***************************************************************************)
(* The head of the loop over direct, to unlink.                            *)
(***************************************************************************)
NextMode(p) == pc' = p /\ direct' = direct + 1 /\ UNCHANGED <<step, op>>

OpenFile ==
  /\ pc = "open"
  /\ \/ /\ direct = 2 /\ Goto("leave") /\ UNCHANGED <<data, fd, failures, control, stream, trouble>>
     \/ /\ direct < 2 /\ direct \notin Modes /\ NextMode("open")
        /\ UNCHANGED <<data, fd, failures, control, stream, trouble>>
     \/ /\ direct \in Modes /\ data' = [data EXCEPT !.control = "seed", !.file = "garbage"]
        /\ \/ fd' = TRUE /\ Goto("setup") /\ UNCHANGED <<failures, control, stream, trouble>>
           \/ /\ NextMode("open") /\ failures' = failures + 1 /\ trouble' = TRUE
              /\ UNCHANGED <<fd, control, stream>>
           \/ /\ Goto("thrown") /\ control' = FALSE /\ stream' = FALSE /\ trouble' = TRUE
              /\ UNCHANGED <<fd, failures>>
  /\ UNCHANGED <<ctx, kctx, pending, flight, outcome, passed, real>>

IoSetup ==
  /\ pc = "setup"
  /\ pc' \in {"op", "close"} /\ op' = "seed" /\ UNCHANGED <<step, direct>>
  /\ ctx' = (pc' = "op") /\ kctx' = ctx'
  /\ IF ctx' THEN UNCHANGED <<failures, trouble>> ELSE failures' = failures + 1 /\ trouble' = TRUE
  /\ UNCHANGED <<fd, stream, control, data, pending, flight, outcome, passed, real>>

(***************************************************************************)
(* What the CPU writes before each operation: the target of a read is      *)
(* cleared, the shared buffer gets a pattern of its own before a write.    *)
(***************************************************************************)
Unprepared == data   \* mutant: the buffers keep what the operation before left
Prepared ==
  CASE op = "write" -> [data EXCEPT !.ptr = "other"]
    [] op = "read" -> [data EXCEPT !.ptr = "zero"]
    [] op \in {"check", "back"} -> [data EXCEPT !.control = "zero"]
    [] OTHER -> data

(***************************************************************************)
(* io_submit takes all requests, some, or none.                            *)
(***************************************************************************)
Submit ==
  /\ pc = "op" /\ data' = Prepared /\ outcome' = "moved"
  /\ flight' \in 0 .. Requests
  /\ IF flight' = Requests THEN Goto("events") /\ UNCHANGED trouble
     ELSE Goto("destroy") /\ trouble' = TRUE
  /\ UNCHANGED <<failures, ctx, kctx, fd, stream, control, pending, passed, real>>

(***************************************************************************)
(* A request completes; with the last one the operation has had its effect.*)
(***************************************************************************)
Settled(o) == [data EXCEPT ![Target(op)] = CASE o = "moved" -> data[Source(op)]
                                             [] o = "untouched" -> @
                                             [] OTHER -> "garbage"]

RequestCompletes ==
  /\ flight > 0 /\ flight' = flight - 1
  /\ outcome' \in IF outcome = "moved" THEN Outcome ELSE {outcome}
  /\ data' = IF flight = 1 THEN Settled(outcome') ELSE data
  /\ trouble' = (trouble \/ outcome' # "moved")
  /\ UNCHANGED <<place, failures, ctx, kctx, fd, stream, control, pending, passed, real>>

(***************************************************************************)
(* io_getevents returns all events, or fewer when its ten seconds are over.*)
(***************************************************************************)
GetEvents ==
  /\ pc = "events"
  /\ \/ flight = 0 /\ Goto("inspect") /\ UNCHANGED trouble
     \/ Goto("destroy") /\ trouble' = TRUE
  /\ UNCHANGED <<failures, ctx, kctx, fd, stream, control, data, pending, flight, outcome, passed, real>>

(***************************************************************************)
(* An operation that threw.  Up to the control read it ends the mode; in a *)
(* case it is counted, and counted again when the context is gone.         *)
(***************************************************************************)
RethrownOnly(c) == IF c THEN 0 ELSE 1   \* mutant: the inner catch does not
Counted(c) == IF op \in {"read", "write", "back"} /\ ~c THEN 2 ELSE 1

OpThrows(c) ==
  /\ failures' = failures + Counted(c) /\ UNCHANGED <<step, direct>>
  /\ IF op = "read" /\ c THEN pc' = "op" /\ op' = "write" ELSE pc' = "close" /\ op' = op

(***************************************************************************)
(* io_destroy waits for the requests in flight; ctx is then 0.             *)
(***************************************************************************)
Forgotten == UNCHANGED <<flight, kctx>>   \* mutant: ctx = 0 without io_destroy
Quiesce == flight' = 0 /\ kctx' = FALSE

DestroyAndThrow ==
  /\ pc = "destroy" /\ Quiesce /\ ctx' = FALSE
  /\ data' = [data EXCEPT ![Target(op)] = "garbage"]
  /\ OpThrows(FALSE)
  /\ UNCHANGED <<fd, stream, control, pending, outcome, passed, real, trouble>>

(***************************************************************************)
(* All events are in: a bad one throws, then fdatasync and verify.         *)
(***************************************************************************)
Wanted == CASE op = "back" -> "other" [] OTHER -> "seed"

OpPasses ==
  /\ IF op = "back" THEN Goto("close")
     ELSE /\ pc' = "op" /\ UNCHANGED <<step, direct>>
          /\ op' = CASE op = "seed" -> "check" [] op = "check" -> "read"
                     [] op = "read" -> "write" [] op = "write" -> "back"
  /\ passed' = IF op \in {"read", "back"} THEN passed \cup {CaseOf(op, direct)} ELSE passed
  /\ UNCHANGED failures

Inspect ==
  /\ pc = "inspect"
  /\ real' = IF outcome = "moved" /\ op \in {"read", "write"} THEN real \cup {CaseOf(op, direct)} ELSE real
  /\ \/ outcome # "error" /\ (Dump(op) \/ data[Target(op)] = Wanted) /\ OpPasses /\ UNCHANGED trouble
     \/ /\ outcome = "error" \/ (~Dump(op) /\ data[Target(op)] # Wanted)
        /\ OpThrows(ctx) /\ UNCHANGED <<passed, trouble>>
     \/ Dump(op) /\ OpThrows(ctx) /\ trouble' = TRUE /\ UNCHANGED passed
  /\ UNCHANGED <<ctx, kctx, fd, stream, control, data, pending, flight, outcome>>

(***************************************************************************)
(* The end of a mode: the context if it is still there, then the file.     *)
(***************************************************************************)
CloseFile ==
  /\ pc = "close" /\ NextMode("open")
  /\ IF ctx THEN Quiesce /\ ctx' = FALSE ELSE UNCHANGED <<flight, kctx, ctx>>
  /\ fd' = FALSE
  /\ UNCHANGED <<failures, stream, control, data, pending, outcome, passed, real, trouble>>

Refilled == [data EXCEPT !.ptr = "seed"]

Leave ==
  /\ pc = "leave" /\ Goto("returned")
  /\ control' = FALSE /\ data' = Refilled /\ stream' = FALSE
  /\ UNCHANGED <<failures, ctx, kctx, fd, pending, flight, outcome, passed, real, trouble>>

Step ==
  \/ AclAcquire \/ AclCpu \/ AclSubmit \/ AclSync \/ AclVerify \/ AclCatch
  \/ AllocateControl \/ OpenFile \/ IoSetup \/ Submit \/ GetEvents \/ DestroyAndThrow
  \/ Inspect \/ CloseFile \/ Leave

External == AclCompletes \/ RequestCompletes

Over == pc \in {"returned", "thrown"}
Finished == Over /\ UNCHANGED vars

Next == Step \/ External \/ Finished

Spec == Init /\ [][Next]_vars
-------------------------------------------------------------------------------
(***************************************************************************)
(* While requests are in flight the program is inside aio_operation, and   *)
(* while an ACL copy is under way it does not touch ptr: no buffer is      *)
(* filled, cleared, verified, freed or handed to the peer under a transfer *)
(* (common.hpp 125, host_share.cpp 60), whatever failed before.            *)
(***************************************************************************)
NoTransferUnderTheCpu ==
  /\ flight > 0 => pc \in {"events", "destroy"}
  /\ pending # "none" => \/ pc = "acl_catch"
                         \/ pc = "acl" /\ AclSteps[step] \notin {"fill", "zero", "verify"}

(***************************************************************************)
(* A case is reported PASS only when its data moved: what an earlier       *)
(* transfer left in a buffer or in the file never passes for it.  Of the   *)
(* ACL case that is said of the round trip, not of the backlog after it.   *)
(***************************************************************************)
PassIsReal == passed \subseteq real

(***************************************************************************)
(* The count that goes to the creator: 0 exactly when every requested case *)
(* passed.                                                                 *)
(***************************************************************************)
ZeroMeansAllPassed == pc = "returned" => (failures = 0 <=> passed = Requested)

(***************************************************************************)
(* What SharePair takes io_tests to do: it returns with the seed in the    *)
(* buffer, or throws; either way nothing is left open, allocated or in     *)
(* flight, and without trouble it returns 0.  The program's context is the *)
(* kernel's throughout: it never uses or destroys one that is gone and     *)
(* never forgets one.                                                      *)
(***************************************************************************)
LeavesClean ==
  /\ ctx = kctx
  /\ pc = "returned" => data.ptr = "seed"
  /\ Over => ~ctx /\ ~fd /\ ~control /\ ~stream /\ flight = 0 /\ pending = "none"
  /\ ~trouble => pc # "thrown" /\ failures = 0
===============================================================================
