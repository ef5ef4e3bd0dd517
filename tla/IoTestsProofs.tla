----------------------------- MODULE IoTestsProofs -----------------------------
(***************************************************************************)
(* The properties of IoTests, for every number of requests and every       *)
(* choice of modes.  The invariant says where a transfer may be under way  *)
(* and what is held there, what a bad transfer leaves in its target, which *)
(* cases are over and how failures counts them, and how the data stands as *)
(* long as nothing went wrong.                                             *)
(***************************************************************************)
EXTENDS IoTests, TLAPS

Aclpc == {"acl", "acl_catch"}
InOperation == {"op", "events", "inspect", "destroy"}
InMode == {"setup", "close"} \cup InOperation

\* Transfers under way, and what is held for them.
HeldInv ==
  /\ pending = "h2d" => pc = "acl_catch" \/ (pc = "acl" /\ step \in {6, 12})
  /\ pending = "d2h" => pc = "acl_catch" \/ (pc = "acl" /\ step \in {9, 14})
  /\ (pc = "acl" /\ step > 2) \/ pending # "none" => stream
  /\ flight > 0 => pc \in {"events", "destroy"}
  /\ ctx = kctx
  /\ ctx => pc \in InOperation \cup {"close"}
  /\ pc \in InOperation => ctx
  /\ fd => pc \in InMode
  /\ control => pc \in {"open", "leave"} \cup InMode
  /\ stream => ~Over
  /\ pc = "returned" => data.ptr = "seed"

\* The loop over the modes.
ModeInv ==
  /\ pc \in Aclpc \cup {"control"} => direct = 0
  /\ pc \in InMode => direct \in Modes
  /\ pc \in {"leave", "returned"} => direct = 2 \/ Modes = {}

\* A transfer that does not move its data leaves something else in its target.
MoveInv ==
  /\ pc = "acl" /\ step \in 8 .. 10 /\ data.ptr = "seed" => data.device = "seed"
  /\ pc = "acl" /\ step > 10 => Acl \in real
  /\ pc \in {"events", "inspect"} /\ op = "read" =>
       \/ flight > 0 /\ data.ptr = "zero"
       \/ flight = 0 /\ (data.ptr = "seed" => outcome = "moved")
  /\ pc \in {"events", "inspect"} /\ op = "back" =>
       \/ flight > 0 /\ data.control = "zero"
       \/ flight = 0 /\ (data.control = "other" => data.file = "other")
  /\ pc = "setup" \/ (pc \in InOperation /\ op = "seed") =>
       data.control = "seed" /\ data.file # "other"
  /\ pc \in InOperation /\ op \in {"check", "read"} => data.file # "other"
  /\ pc = "op" /\ op = "write" => data.file # "other"
  /\ pc \in {"events", "inspect"} /\ op = "write" =>
       \/ flight > 0 /\ data.file # "other"
       \/ flight = 0 /\ (data.file = "other" => outcome = "moved")
  /\ pc \in InOperation \ {"destroy"} /\ op = "back" /\ data.file = "other" => <<"write", direct>> \in real

\* The cases that are over, passed or not.
Decided ==
  (IF pc \in Aclpc THEN {} ELSE {Acl})
    \cup {"read", "write"} \X {d \in Modes : d < direct \/ (d = direct /\ pc = "close")}
    \cup (IF pc \in InOperation /\ op \in {"write", "back"} THEN {<<"read", direct>>} ELSE {})

CountInv ==
  /\ passed \subseteq Decided
  /\ pc # "thrown" => (failures = 0 <=> passed = Decided)

\* At most one failure of the ACL case and three of each mode.
BoundInv ==
  failures <= (IF pc \in Aclpc THEN 0 ELSE 1) + 3 * direct
              + (IF pc = "close" THEN 3
                 ELSE IF pc \in InOperation /\ op \in {"write", "back"} THEN 1 ELSE 0)

\* While nothing goes wrong every check of the ACL case finds the seed.
AclSmooth ==
  /\ step \in 5 .. 7 \/ step > 9 => data.ptr = "seed"
  /\ step = 6 => pending = "h2d" \/ data.device = "seed"
  /\ step > 6 => data.device = "seed"
  /\ step = 9 => pending = "d2h" \/ data.ptr = "seed"

\* As long as nothing went wrong the data is where the next check looks for it.
SmoothInv ==
  ~trouble =>
    /\ pc \notin {"acl_catch", "destroy", "thrown"} /\ failures = 0 /\ outcome = "moved"
    /\ pc = "acl" => AclSmooth
    /\ pc \in {"op", "events", "inspect"} =>
         /\ op \in {"check", "read"} => data.file = "seed"
         /\ op = "back" => data.file = "other"
    /\ pc \in {"events", "inspect"} =>
         /\ op = "write" => data.ptr = "other"
         /\ flight = 0 => data[Target(op)] = data[Source(op)]

IInv ==
  /\ TypeOK /\ HeldInv /\ ModeInv /\ MoveInv /\ PassIsReal
  /\ CountInv /\ BoundInv /\ SmoothInv
-------------------------------------------------------------------------------
\* The fifteen steps of the ACL case.
LEMMA AclPlan ==
  ASSUME NEW i \in 1 .. 15
  PROVE  /\ Len(AclSteps) = 15
         /\ AclSteps[i] \in {"call", "stream"} <=> i \in 1 .. 3
         /\ AclSteps[i] = "fill" <=> i = 4
         /\ AclSteps[i] = "h2d" <=> i \in {5, 11}
         /\ AclSteps[i] = "sync" <=> i \in {6, 9, 12, 14}
         /\ AclSteps[i] = "zero" <=> i = 7
         /\ AclSteps[i] = "d2h" <=> i \in {8, 13}
         /\ AclSteps[i] = "verify" <=> i \in {10, 15}
         /\ AclSteps[i] \notin {"fill", "zero", "verify"} <=> i \notin {4, 7, 10, 15}
BY DEF AclSteps

LEMMA PlanLength == Len(AclSteps) = 15
BY AclPlan

\* What a step of each part of the program does to the place.
LEMMA Places ==
  ASSUME TypeOK, Next
  PROVE  /\ pc' \in {"acl", "acl_catch", "control", "open", "setup", "op", "events", "destroy",
                     "inspect", "close", "leave", "returned", "thrown"}
         /\ step' \in 1 .. Len(AclSteps) /\ op' \in Ops
         /\ direct' \in {direct, direct + 1} /\ failures' \in Nat
         /\ direct' = direct \/ (pc = "open" /\ direct # 2) \/ pc = "close"
<1> USE DEF TypeOK
<1>1. CASE AclAcquire \/ AclCpu \/ AclSubmit \/ AclSync \/ AclVerify \/ AclCatch
  BY <1>1, PlanLength DEF AclAcquire, AclCpu, AclSubmit, AclSync, AclVerify, AclCatch, AclFails,
     NextStep, Goto
<1>2. CASE AllocateControl \/ IoSetup
  BY <1>2 DEF AllocateControl, IoSetup, NextMode, Goto, Ops
<1>6. CASE OpenFile
  <2>1. /\ pc = "open" /\ pc' \in {"leave", "open", "setup", "thrown"} /\ UNCHANGED <<step, op>>
        /\ direct' = direct \/ (direct' = direct + 1 /\ direct # 2)
        /\ failures' \in {failures, failures + 1}
    BY <1>6, ModesAssumption DEF OpenFile, NextMode, Goto
  <2> QED BY <2>1
<1>3. CASE Submit \/ GetEvents \/ DestroyAndThrow \/ Inspect
  BY <1>3 DEF Submit, GetEvents, DestroyAndThrow, Inspect, OpThrows, OpPasses, Counted, Dump, Goto, Ops
<1>4. CASE CloseFile \/ Leave
  BY <1>4 DEF CloseFile, Leave, NextMode, Goto
<1>5. CASE External \/ Finished
  BY <1>5 DEF External, AclCompletes, RequestCompletes, Finished, place, vars
<1> QED BY <1>1, <1>2, <1>3, <1>4, <1>5, <1>6 DEF Next, Step

\* The buffers and the file hold known content.
Buffers == {"ptr", "control", "device", "file"}

LEMMA OneWritten ==
  ASSUME NEW d \in [Buffers -> Content], NEW b \in Buffers, NEW v \in Content
  PROVE  [d EXCEPT ![b] = v] \in [Buffers -> Content]
OBVIOUS

LEMMA Contents ==
  ASSUME TypeOK, Next
  PROVE  data' \in [Buffers -> Content]
<1> USE DEF TypeOK
<1>0. data \in [Buffers -> Content] /\ \A b \in Buffers : data[b] \in Content
  BY DEF Buffers
<1> USE DEF Buffers, Content
<1>1. CASE AclCpu
  <2>1. PICK v \in {"seed", "zero"} : data' = [data EXCEPT !["ptr"] = v]
    BY <1>1 DEF AclCpu
  <2> QED BY <1>0, <2>1
<1>2. CASE AclCompletes
  <2>1. PICK to \in {"device", "ptr"}, from \in {"device", "ptr"}, o \in Outcome :
          data' = [data EXCEPT ![to] = CASE o = "moved" -> data[from]
                                         [] o = "untouched" -> @
                                         [] OTHER -> "garbage"]
    BY <1>2, Zenon DEF AclCompletes
  <2>2. PICK v \in Content : data' = [data EXCEPT ![to] = v]
    BY <1>0, <2>1
  <2> QED BY <1>0, <2>2
<1>3. CASE RequestCompletes
  <2>1. Target(op) \in Buffers /\ Source(op) \in Buffers
    BY DEF Target, Source, Buffer
  <2>2. ASSUME NEW o PROVE Settled(o) \in [Buffers -> Content]
    <3>1. PICK v \in Content : Settled(o) = [data EXCEPT ![Target(op)] = v]
      BY <1>0, <2>1 DEF Settled
    <3> QED BY <1>0, <2>1, <3>1
  <2> QED BY <1>0, <1>3, <2>2 DEF RequestCompletes
<1>4. CASE Submit
  BY <1>4 DEF Submit, Prepared
<1>5. CASE DestroyAndThrow
  <2>1. Target(op) \in Buffers
    BY DEF Target, Source, Buffer
  <2> QED BY <1>0, <1>5, <2>1 DEF DestroyAndThrow
<1>6. CASE AllocateControl \/ OpenFile \/ Leave
  <2>1. \/ data' = data \/ data' = [data EXCEPT !["control"] = "seed"]
        \/ data' = [data EXCEPT !["control"] = "seed", !["file"] = "garbage"]
        \/ data' = [data EXCEPT !["ptr"] = "seed"]
    BY <1>6 DEF AllocateControl, OpenFile, Leave, Refilled
  <2> QED BY <1>0, <2>1
<1>7. data' = data \/ AclCpu \/ AclCompletes \/ RequestCompletes \/ Submit \/ DestroyAndThrow
      \/ AllocateControl \/ OpenFile \/ Leave
  BY DEF Next, Step, External, Finished, vars, AclAcquire, AclSubmit, AclSync, AclVerify, AclCatch,
     IoSetup, GetEvents, Inspect, CloseFile
<1> QED BY <1>0, <1>1, <1>2, <1>3, <1>4, <1>5, <1>6, <1>7

LEMMA Flags ==
  ASSUME TypeOK, Next
  PROVE  \A flag \in {ctx, kctx, fd, stream, control, trouble}' : flag \in BOOLEAN
<1>0. /\ ctx \in BOOLEAN /\ kctx \in BOOLEAN /\ fd \in BOOLEAN /\ stream \in BOOLEAN
      /\ control \in BOOLEAN /\ trouble \in BOOLEAN
  BY DEF TypeOK
<1>1. CASE AclAcquire \/ AclCpu \/ AclSubmit \/ AclSync \/ AclVerify \/ AclCatch
  BY <1>0, <1>1 DEF AclAcquire, AclCpu, AclSubmit, AclSync, AclVerify, AclCatch, AclFails
<1>2. CASE AllocateControl \/ OpenFile \/ IoSetup
  BY <1>0, <1>2 DEF AllocateControl, OpenFile, IoSetup
<1>3. CASE Submit \/ GetEvents \/ DestroyAndThrow \/ Inspect
  BY <1>0, <1>3 DEF Submit, GetEvents, DestroyAndThrow, Inspect, Quiesce
<1>4. CASE CloseFile \/ Leave
  BY <1>0, <1>4 DEF CloseFile, Leave, Quiesce
<1>5. CASE External \/ Finished
  BY <1>0, <1>5 DEF External, AclCompletes, RequestCompletes, Finished, vars
<1> QED BY <1>1, <1>2, <1>3, <1>4, <1>5 DEF Next, Step

\* The transfers: one backlog on the stream, at most Requests in flight.
LEMMA Transfers ==
  ASSUME TypeOK, Next
  PROVE  pending' \in {"none", "h2d", "d2h"} /\ flight' \in 0 .. Requests /\ outcome' \in Outcome
<1> USE RequestsAssumption DEF TypeOK, Outcome
<1>1. CASE AclAcquire \/ AclCpu \/ AclSubmit \/ AclSync \/ AclVerify \/ AclCatch
  BY <1>1 DEF AclAcquire, AclCpu, AclSubmit, AclSync, AclVerify, AclCatch
<1>2. CASE AllocateControl \/ OpenFile \/ IoSetup
  BY <1>2 DEF AllocateControl, OpenFile, IoSetup
<1>3. CASE GetEvents \/ Inspect
  BY <1>3 DEF GetEvents, Inspect
<1>8. CASE DestroyAndThrow
  <2>1. UNCHANGED <<pending, outcome>> /\ flight' = 0
    BY <1>8 DEF DestroyAndThrow, Quiesce
  <2> QED BY <2>1
<1>7. CASE Submit
  <2>1. pending' = pending /\ flight' \in 0 .. Requests /\ outcome' = "moved"
    BY <1>7 DEF Submit
  <2> QED BY <2>1
<1>4. CASE CloseFile \/ Leave
  BY <1>4 DEF CloseFile, Leave, Quiesce
<1>5. CASE AclCompletes \/ Finished
  BY <1>5 DEF AclCompletes, Finished, vars
<1>6. CASE RequestCompletes
  BY <1>6 DEF RequestCompletes
<1> QED BY <1>1, <1>2, <1>3, <1>4, <1>5, <1>6, <1>7, <1>8 DEF Next, Step, External

\* Only the ACL case and the case under way are ever recorded.
LEMMA Records ==
  ASSUME TypeOK, Next
  PROVE  \/ UNCHANGED <<passed, real>>
         \/ /\ AclVerify /\ passed' \in {passed, passed \cup {Acl}} /\ real' \in {real, real \cup {Acl}}
         \/ /\ Inspect /\ passed' \in {passed, passed \cup {CaseOf(op, direct)}}
            /\ real' \in {real, real \cup {CaseOf(op, direct)}}
<1>1. CASE AclVerify
  BY <1>1 DEF AclVerify
<1>2. CASE Inspect
  BY <1>2 DEF Inspect, OpPasses
<1>3. AclVerify \/ Inspect \/ UNCHANGED <<passed, real>>
  BY DEF Next, Step, External, Finished, vars, AclAcquire, AclCpu, AclSubmit, AclSync, AclCatch,
     AllocateControl, OpenFile, IoSetup, Submit, GetEvents, DestroyAndThrow, CloseFile, Leave,
     AclCompletes, RequestCompletes
<1> QED BY <1>1, <1>2, <1>3

LEMMA Recorded ==
  ASSUME TypeOK, ModeInv, Next
  PROVE  passed' \subseteq Requested /\ real' \subseteq Requested
<1>1. Acl \in Requested
  BY DEF Requested
<1>2. Inspect => CaseOf(op, direct) \in Requested
  BY DEF Inspect, ModeInv, InMode, InOperation, CaseOf, Requested
<1> QED BY <1>1, <1>2, Records DEF TypeOK

-------------------------------------------------------------------------------
LEMMA ModeKeeps ==
  ASSUME TypeOK, ModeInv, Next
  PROVE  ModeInv' /\ direct' \in 0 .. 2
<1> USE ModesAssumption DEF ModeInv, Aclpc, InMode, InOperation
<1>0. direct \in 0 .. 2 /\ (pc \in InMode => direct < 2)
  BY DEF TypeOK
<1>1. CASE AclAcquire \/ AclCpu \/ AclSubmit \/ AclSync \/ AclVerify \/ AclCatch
  BY <1>0, <1>1 DEF AclAcquire, AclCpu, AclSubmit, AclSync, AclVerify, AclCatch, AclFails, NextStep, Goto
<1>2. CASE AllocateControl \/ IoSetup
  BY <1>0, <1>2 DEF AllocateControl, IoSetup, Goto
<1>3. CASE OpenFile
  <2>1. \/ pc' = "leave" /\ direct' = 2
        \/ pc' = "open" /\ direct' = direct + 1 /\ direct < 2
        \/ pc' = "setup" /\ direct' = direct /\ direct \in Modes
        \/ pc' = "thrown" /\ direct' = direct
    BY <1>0, <1>3 DEF OpenFile, NextMode, Goto
  <2> QED BY <1>0, <2>1
<1>4. CASE Submit \/ GetEvents \/ DestroyAndThrow
  BY <1>0, <1>4 DEF Submit, GetEvents, DestroyAndThrow, OpThrows, Goto
<1>5. CASE Inspect
  <2>1. pc = "inspect" /\ direct' = direct /\ pc' \in {"op", "close"}
    BY <1>5 DEF Inspect, OpThrows, OpPasses, Goto
  <2> QED BY <1>0, <2>1
<1>6. CASE CloseFile \/ Leave
  BY <1>0, <1>6 DEF CloseFile, Leave, NextMode, Goto
<1>7. CASE External \/ Finished
  BY <1>0, <1>7 DEF External, AclCompletes, RequestCompletes, Finished, place, vars
<1> QED BY <1>1, <1>2, <1>3, <1>4, <1>5, <1>6, <1>7 DEF Next, Step

LEMMA BoundKeeps ==
  ASSUME TypeOK, ModeInv, HeldInv, BoundInv, Next
  PROVE  BoundInv'
<1>0. direct \in Nat /\ failures \in Nat /\ (pc \in InMode => direct \in {0, 1})
  BY ModesAssumption DEF TypeOK, ModeInv
<1> USE DEF BoundInv, Aclpc, InMode, InOperation
<1>1. CASE AclAcquire \/ AclCpu \/ AclSubmit \/ AclSync \/ AclVerify
  BY <1>0, <1>1 DEF AclAcquire, AclCpu, AclSubmit, AclSync, AclVerify, AclFails, NextStep, Goto
<1>2. CASE AclCatch
  BY <1>0, <1>2 DEF AclCatch, Goto
<1>3. CASE AllocateControl
  BY <1>0, <1>3 DEF AllocateControl, Goto
<1>10. CASE IoSetup
  <2>1. /\ pc = "setup" /\ direct' = direct
        /\ \/ pc' = "op" /\ op' = "seed" /\ failures' = failures
           \/ pc' = "close" /\ failures' = failures + 1
    BY <1>10 DEF IoSetup
  <2> QED BY <1>0, <2>1
<1>4. CASE OpenFile
  BY <1>0, <1>4 DEF OpenFile, NextMode, Goto
<1>5. CASE Submit \/ GetEvents
  BY <1>0, <1>5 DEF Submit, GetEvents, Goto
<1>6. CASE DestroyAndThrow
  BY <1>0, <1>6 DEF DestroyAndThrow, OpThrows, Counted
<1>7. CASE Inspect
  <2>1. pc = "inspect" /\ direct' = direct
        /\ \/ OpPasses
           \/ OpThrows(ctx)
    BY <1>7 DEF Inspect, OpThrows, OpPasses, Goto
  <2>2. CASE OpPasses
    BY <1>0, <2>1, <2>2 DEF OpPasses, Goto
  <2>3. CASE OpThrows(ctx)
    BY <1>0, <2>1, <2>3 DEF OpThrows, Counted
  <2> QED BY <2>1, <2>2, <2>3
<1>8. CASE CloseFile \/ Leave
  BY <1>0, <1>8 DEF CloseFile, Leave, NextMode, Goto
<1>9. CASE External \/ Finished
  BY <1>0, <1>9 DEF External, AclCompletes, RequestCompletes, Finished, place, vars
<1> QED BY <1>1, <1>2, <1>3, <1>4, <1>5, <1>6, <1>7, <1>8, <1>9, <1>10 DEF Next, Step

LEMMA TypeKeeps ==
  ASSUME TypeOK, ModeInv, HeldInv, BoundInv, Next
  PROVE  TypeOK'
<1>1. direct' \in 0 .. 2 /\ (pc' \in InMode => direct' \in {0, 1})
  BY ModeKeeps, ModesAssumption DEF ModeInv
<1>2. failures' \in 0 .. 7
  <2>1. failures' \in Nat
    BY Places
  <2>2. BoundInv'
    BY BoundKeeps
  <2>3. PICK a \in {0, 1}, b \in {0, 1, 3} :
          failures' <= a + 3 * direct' + b /\ (b # 0 => pc' \in InMode)
    BY <2>2, Zenon DEF BoundInv, InMode, InOperation
  <2>4. CASE direct' = 2
    <3>1. b = 0
      BY <1>1, <2>3, <2>4
    <3> QED BY <2>1, <2>3, <2>4, <3>1
  <2>5. CASE direct' = 0
    BY <2>1, <2>3, <2>5
  <2>6. CASE direct' = 1
    BY <2>1, <2>3, <2>6
  <2> QED BY <1>1, <2>4, <2>5, <2>6
<1> QED BY <1>1, <1>2, Places, Contents, Flags, Transfers, Recorded DEF TypeOK, Buffers

LEMMA HeldKeeps ==
  ASSUME TypeOK, HeldInv, Next
  PROVE  HeldInv'
<1>0. step \in 1 .. 15 /\ flight \in Nat /\ pending \in {"none", "h2d", "d2h"}
      /\ ctx \in BOOLEAN /\ kctx \in BOOLEAN /\ fd \in BOOLEAN
      /\ stream \in BOOLEAN /\ control \in BOOLEAN
  BY PlanLength, RequestsAssumption DEF TypeOK
<1> USE DEF HeldInv, InMode, InOperation, Over
<1>1. CASE AclAcquire
  <2>1. pc = "acl" /\ step \in 1 .. 3 /\ pending = "none" /\ flight = 0 /\ ~ctx /\ ~fd /\ ~control
    BY <1>0, <1>1, AclPlan DEF AclAcquire
  <2>2. /\ pending' = "none" /\ flight' = 0 /\ UNCHANGED <<ctx, kctx, fd, control>>
        /\ \/ pc' = "acl" /\ step' = step + 1 /\ stream' = (stream \/ AclSteps[step] = "stream")
           \/ pc' = "acl_catch"
    BY <1>1, <2>1, PlanLength DEF AclAcquire, AclFails, NextStep, Goto
  <2>3. step = 2 => AclSteps[step] = "stream"
    BY DEF AclSteps
  <2>4. pc' = "acl" /\ step' > 2 => stream'
    <3>1. CASE step = 2
      BY <2>2, <2>3, <3>1, Zenon
    <3>2. CASE step # 2
      <4>1. pc' = "acl" /\ step' > 2 => step > 2
        BY <2>1, <2>2, <3>2
      <4> QED BY <2>1, <2>2, <4>1, Zenon
    <3> QED BY <3>1, <3>2
  <2> QED BY <2>1, <2>2, <2>4
<1>2. CASE AclCpu
  <2>1. pc = "acl" /\ step \in {4, 7} /\ pending = "none" /\ flight = 0 /\ ~ctx /\ ~fd /\ ~control
    BY <1>0, <1>2, AclPlan DEF AclCpu
  <2>2. pc' = "acl" /\ pending' = "none" /\ flight' = 0 /\ UNCHANGED <<ctx, kctx, fd, control, stream>>
    BY <1>2, <2>1, PlanLength DEF AclCpu, NextStep
  <2> QED BY <2>1, <2>2
<1>3. CASE AclSubmit
  <2>1. /\ pc = "acl" /\ flight = 0 /\ ~ctx /\ ~fd /\ ~control
        /\ \/ step \in {5, 11} /\ AclSteps[step] = "h2d"
           \/ step \in {8, 13} /\ AclSteps[step] = "d2h"
    BY <1>0, <1>3, AclPlan DEF AclSubmit
  <2>2. /\ UNCHANGED <<flight, ctx, kctx, fd, control, stream>>
        /\ \/ pc' = "acl" /\ step' = step + 1 /\ pending' = AclSteps[step]
           \/ pc' = "acl_catch"
    BY <1>3, <2>1, PlanLength DEF AclSubmit, AclFails, NextStep, Goto
  <2>3. stream
    BY <2>1
  <2> QED BY <2>1, <2>2, <2>3
<1>4. CASE AclSync \/ AclVerify
  <2>1. pc = "acl" /\ step > 2 /\ flight = 0 /\ ~ctx /\ ~fd /\ ~control
    BY <1>0, <1>4, AclPlan DEF AclSync, AclVerify
  <2>2. /\ UNCHANGED <<flight, ctx, kctx, fd, control, stream, pending>>
        /\ pc' = "acl_catch" \/ (pending = "none" /\ pc' \in {"acl", "control"})
    BY <1>0, <1>4, AclPlan DEF AclSync, AclVerify, AclFails, NextStep, Goto
  <2> QED BY <2>1, <2>2
<1>5. CASE AclCatch
  <2>1. pc = "acl_catch" /\ flight = 0 /\ ~ctx /\ ~fd /\ ~control
    BY <1>0, <1>5 DEF AclCatch
  <2>2. /\ UNCHANGED <<flight, ctx, kctx, fd, control>>
        /\ pending' = "none" /\ (pc' = "control" \/ (pc' = "thrown" /\ ~stream'))
    BY <1>0, <1>5 DEF AclCatch, Drained, Goto
  <2> QED BY <2>1, <2>2
<1>6. CASE AllocateControl
  <2>1. pc = "control" /\ flight = 0 /\ pending = "none" /\ ~ctx /\ ~fd /\ ~control
    BY <1>0, <1>6 DEF AllocateControl
  <2>2. /\ UNCHANGED <<flight, pending, ctx, kctx, fd>>
        /\ \/ pc' = "leave" /\ control' = control
           \/ pc' = "open"
           \/ pc' = "thrown" /\ control' = control /\ ~stream'
    BY <1>6 DEF AllocateControl, Goto
  <2> QED BY <2>1, <2>2
<1>7. CASE OpenFile
  <2>1. pc = "open" /\ flight = 0 /\ pending = "none" /\ ~ctx /\ ~fd
    BY <1>0, <1>7 DEF OpenFile
  <2>2. /\ UNCHANGED <<flight, pending, ctx, kctx>>
        /\ \/ pc' \in {"leave", "open"} /\ UNCHANGED <<fd, stream>>
           \/ pc' = "setup"
           \/ pc' = "thrown" /\ fd' = fd /\ ~control' /\ ~stream'
    BY <1>7 DEF OpenFile, NextMode, Goto
  <2> QED BY <2>1, <2>2
<1>8. CASE IoSetup
  <2>1. pc = "setup" /\ flight = 0 /\ pending = "none" /\ ~ctx
    BY <1>0, <1>8 DEF IoSetup
  <2>2. /\ UNCHANGED <<flight, pending, fd, stream, control>>
        /\ kctx' = ctx' /\ ((pc' = "op" /\ ctx') \/ (pc' = "close" /\ ~ctx'))
    <3>1. UNCHANGED <<flight, pending, fd, stream, control>> /\ pc' \in {"op", "close"}
          /\ kctx' = ctx' /\ ctx' = (pc' = "op")
      BY <1>8, Zenon DEF IoSetup
    <3>2. CASE pc' = "op"
      BY <3>1, <3>2
    <3>3. CASE pc' = "close"
      BY <3>1, <3>3
    <3> QED BY <3>1, <3>2, <3>3
  <2> QED BY <2>1, <2>2
<1>9. CASE Submit \/ GetEvents
  <2>1. pc \in {"op", "events"} /\ pending = "none" /\ ctx
    BY <1>0, <1>9 DEF Submit, GetEvents
  <2>2. /\ UNCHANGED <<pending, ctx, kctx, fd, stream, control>>
        /\ pc' \in {"events", "destroy"} \/ (pc' = "inspect" /\ flight' = 0)
    BY <1>0, <1>9 DEF Submit, GetEvents, Goto
  <2>3. flight' > 0 => pc' # "inspect"
    BY <2>2
  <2> QED BY <2>1, <2>2, <2>3, Zenon
<1>10. CASE DestroyAndThrow
  <2>1. pc = "destroy" /\ pending = "none"
    BY <1>0, <1>10 DEF DestroyAndThrow
  <2>2. /\ UNCHANGED <<pending, fd, stream, control>> /\ pc' = "close" /\ ~(flight' > 0)
        /\ ctx' = FALSE /\ kctx' = FALSE
    BY <1>0, <1>10 DEF DestroyAndThrow, Quiesce, OpThrows
  <2> QED BY <2>1, <2>2, Zenon
<1>11. CASE Inspect
  <2>1. pc = "inspect" /\ flight = 0 /\ pending = "none"
    BY <1>0, <1>11 DEF Inspect
  <2>2. /\ UNCHANGED <<flight, pending, ctx, kctx, fd, stream, control>>
        /\ pc' = "close" \/ (pc' = "op" /\ ctx)
    <3>1. OpPasses \/ OpThrows(ctx)
      BY <1>11 DEF Inspect
    <3>2. OpThrows(ctx) => pc' = "close" \/ (pc' = "op" /\ ctx)
      BY DEF OpThrows
    <3>3. OpPasses => pc' \in {"op", "close"}
      BY DEF OpPasses, Goto
    <3>4. UNCHANGED <<flight, pending, ctx, kctx, fd, stream, control>>
      BY <1>11 DEF Inspect
    <3> QED BY <2>1, <3>1, <3>2, <3>3, <3>4
  <2> QED BY <2>1, <2>2
<1>12. CASE CloseFile
  <2>1. pc = "close" /\ flight = 0 /\ pending = "none"
    BY <1>0, <1>12 DEF CloseFile
  <2>2. /\ UNCHANGED <<pending, stream, control>> /\ pc' = "open" /\ flight' = 0
        /\ ctx' = FALSE /\ kctx' = FALSE /\ fd' = FALSE
    BY <1>0, <1>12, <2>1 DEF CloseFile, Quiesce, NextMode
  <2> QED BY <2>1, <2>2
<1>13. CASE Leave
  <2>1. pc = "leave" /\ flight = 0 /\ pending = "none" /\ ~ctx /\ ~fd
    BY <1>0, <1>13 DEF Leave
  <2>2. UNCHANGED <<flight, pending, ctx, kctx, fd>> /\ pc' = "returned"
        /\ control' = FALSE /\ stream' = FALSE /\ data'.ptr = "seed"
    BY <1>13 DEF Leave, Refilled, Goto, TypeOK
  <2> QED BY <2>1, <2>2
<1>14. CASE External
  <2>1. /\ UNCHANGED <<pc, step, ctx, kctx, fd, stream, control>>
        /\ pc # "returned"
        /\ pending' \in {pending, "none"} /\ (flight' > 0 => flight > 0)
    BY <1>0, <1>14 DEF External, AclCompletes, RequestCompletes, place
  <2> QED BY <2>1
<1>15. CASE Finished
  BY <1>15 DEF Finished, vars, place
<1> QED BY <1>1, <1>2, <1>3, <1>4, <1>5, <1>6, <1>7, <1>8, <1>9, <1>10, <1>11, <1>12, <1>13, <1>14,
  <1>15 DEF Next, Step

-------------------------------------------------------------------------------
\* A mode ends with both its cases over, and its write case was not before.
LEMMA ModeOver ==
  ASSUME TypeOK, ModeInv, direct \in Modes, pc \in {"open"} \cup InMode, pc # "close",
         \/ pc' = "close" /\ direct' = direct
         \/ pc' = "open" /\ direct' = direct + 1
  PROVE  /\ Decided' = Decided \cup {<<"read", direct>>, <<"write", direct>>}
         /\ <<"write", direct>> \notin Decided
<1>1. direct \in {0, 1} /\ \A d \in Modes : d < direct + 1 <=> d < direct \/ d = direct
  BY ModesAssumption
<1>2. <<"write", direct>> \notin Decided
  BY <1>1 DEF Decided, Acl, InOperation
<1>3. pc \notin Aclpc /\ pc' \notin Aclpc /\ pc' \notin InOperation
  BY DEF Aclpc, InMode, InOperation
<1>4. Decided' = {Acl} \cup {"read", "write"} \X {d \in Modes : d < direct \/ d = direct}
  <2>1. {d \in Modes : d < direct' \/ (d = direct' /\ pc' = "close")}
          = {d \in Modes : d < direct \/ d = direct}
    BY <1>1
  <2> QED BY <1>3, <2>1, Zenon DEF Decided
<1>5. Decided = {Acl} \cup {"read", "write"} \X {d \in Modes : d < direct}
        \cup (IF pc \in InOperation /\ op \in {"write", "back"} THEN {<<"read", direct>>} ELSE {})
  BY <1>3 DEF Decided
<1> QED BY <1>1, <1>2, <1>4, <1>5

\* Within a mode the read case is over when the write case begins.
LEMMA CaseOver ==
  ASSUME TypeOK, ModeInv, pc \in InOperation, pc' \in InOperation, direct' = direct
  PROVE  /\ op' = op => Decided' = Decided
         /\ op \in {"seed", "check"} /\ op' \in {"check", "read"} => Decided' = Decided
         /\ op = "write" /\ op' = "back" => Decided' = Decided
         /\ op = "read" /\ op' = "write" =>
              Decided' = Decided \cup {<<"read", direct>>} /\ <<"read", direct>> \notin Decided
<1>1. direct \in {0, 1} /\ pc # "close" /\ pc' # "close" /\ pc \notin Aclpc /\ pc' \notin Aclpc
  BY ModesAssumption DEF ModeInv, InMode, InOperation, Aclpc
<1> QED BY <1>1 DEF Decided, Acl

\* Between the modes nothing is decided.
LEMMA NothingOver ==
  ASSUME TypeOK, ModeInv, pc \notin Aclpc \cup {"close"} \cup InOperation,
         pc' \notin Aclpc \cup {"close"},
         direct' = direct \/ (direct \notin Modes /\ direct' = direct + 1),
         pc' \in InOperation => op' = "seed"
  PROVE  Decided' = Decided
<1>1. direct \in {0, 1, 2} /\ (direct \notin Modes => \A d \in Modes : d < direct + 1 <=> d < direct)
  BY ModesAssumption DEF TypeOK
<1>2. {d \in Modes : d < direct' \/ (d = direct' /\ pc' = "close")}
        = {d \in Modes : d < direct \/ (d = direct /\ pc = "close")}
  BY <1>1
<1> QED BY <1>2 DEF Decided

\* Before the ACL case is over, nothing is.
LEMMA AclOver ==
  ASSUME TypeOK, ModeInv, pc \in Aclpc, direct' = direct
  PROVE  /\ Decided = {}
         /\ pc' \in Aclpc => Decided' = {}
         /\ pc' = "control" => Decided' = {Acl} /\ Acl \notin Decided
<1>1. direct = 0 /\ \A d \in Modes : ~(d < 0)
  BY ModesAssumption DEF ModeInv
<1>2. Decided = {}
  BY <1>1 DEF Decided, Aclpc, InOperation
<1>3. pc' \in Aclpc \cup {"control"} =>
        {d \in Modes : d < direct' \/ (d = direct' /\ pc' = "close")} = {}
  BY <1>1 DEF Aclpc
<1> QED BY <1>2, <1>3 DEF Decided, Aclpc, InOperation

\* The count is right again when a case has been added to both sides, or only
\* to what is over while failures grows.
LEMMA CountStep ==
  ASSUME TypeOK, CountInv, pc # "thrown", Decided \subseteq Decided',
         \/ UNCHANGED <<failures, passed, Decided>>
         \/ \E c : /\ c \notin Decided /\ Decided' = Decided \cup {c} /\ passed' = passed \cup {c}
                   /\ failures' = failures
         \/ /\ \E c \in Decided' : c \notin Decided
            /\ passed' = passed /\ failures' \in Nat \ {0}
  PROVE  CountInv'
<1> USE DEF CountInv
<1>1. CASE UNCHANGED <<failures, passed, Decided>>
  BY <1>1
<1>2. CASE \E c : /\ c \notin Decided /\ Decided' = Decided \cup {c} /\ passed' = passed \cup {c}
                  /\ failures' = failures
  <2>1. PICK c : /\ c \notin Decided /\ Decided' = Decided \cup {c} /\ passed' = passed \cup {c}
                 /\ failures' = failures
    BY <1>2
  <2>2. passed' = Decided' <=> passed = Decided
    BY <2>1
  <2> QED BY <2>1, <2>2
<1>3. CASE \E c \in Decided' : c \notin Decided /\ passed' = passed /\ failures' \in Nat \ {0}
  BY <1>3
<1> QED BY <1>1, <1>2, <1>3

LEMMA CountKeeps ==
  ASSUME TypeOK, HeldInv, ModeInv, CountInv, Next
  PROVE  CountInv'
<1>0. failures \in Nat /\ step \in 1 .. 15 /\ failures + 1 \in Nat \ {0} /\ failures + 2 \in Nat \ {0}
  BY PlanLength DEF TypeOK
<1>1. CASE AclAcquire \/ AclCpu \/ AclSubmit \/ AclSync
  <2>1. pc = "acl" /\ pc' \in Aclpc \cup {"control"} /\ direct' = direct /\ UNCHANGED <<failures, passed>>
        /\ (pc' = "control" => step = 15)
    BY <1>0, <1>1, PlanLength DEF AclAcquire, AclCpu, AclSubmit, AclSync, AclFails, NextStep,
       Goto, Aclpc
  <2>2. pc' # "control"
    BY <1>0, <1>1, <2>1, AclPlan DEF AclAcquire, AclCpu, AclSubmit, AclSync
  <2> QED BY <2>1, <2>2, AclOver, CountStep DEF Aclpc
<1>2. CASE AclVerify
  <2>1. /\ pc = "acl" /\ UNCHANGED <<direct, failures>>
        /\ \/ pc' = "acl" /\ step < 15 /\ passed' = passed
           \/ pc' = "control" /\ step = 15 /\ passed' = passed \cup {Acl}
           \/ pc' = "acl_catch" /\ passed' = passed
    BY <1>0, <1>2, PlanLength DEF AclVerify, NextStep, Goto
  <2> QED BY <2>1, AclOver, CountStep DEF Aclpc
<1>3. CASE AclCatch
  <2>1. /\ pc = "acl_catch" /\ UNCHANGED <<direct, passed>>
        /\ (pc' = "control" /\ failures' = failures + 1) \/ pc' = "thrown"
    BY <1>3 DEF AclCatch, Goto
  <2>2. passed = {}
    BY <2>1, AclOver DEF CountInv, Aclpc
  <2>3. CASE pc' = "control"
    BY <1>0, <2>1, <2>3, AclOver, CountStep DEF Aclpc
  <2>4. CASE pc' = "thrown"
    BY <2>1, <2>2, <2>4 DEF CountInv
  <2> QED BY <2>1, <2>3, <2>4
<1>4. CASE AllocateControl \/ Leave
  <2>1. /\ pc \in {"control", "leave"} /\ UNCHANGED <<direct, failures, passed>>
        /\ pc' \in {"leave", "open", "thrown", "returned"}
    BY <1>4 DEF AllocateControl, Leave, Goto
  <2>2. Decided' = Decided
    BY <2>1, NothingOver DEF Aclpc, InOperation
  <2> QED BY <2>1, <2>2, CountStep
<1>5. CASE OpenFile
  <2>1. CASE pc' = "open" /\ direct \in Modes
    <3>1. pc = "open" /\ direct' = direct + 1 /\ passed' = passed /\ failures' = failures + 1
      BY <1>5, <2>1 DEF OpenFile, NextMode, Goto
    <3> QED BY <1>0, <2>1, <3>1, ModeOver, CountStep
  <2>2. CASE ~(pc' = "open" /\ direct \in Modes)
    <3>1. /\ pc = "open" /\ passed' = passed /\ failures' = failures
          /\ pc' \in {"leave", "open", "setup", "thrown"}
          /\ direct' = direct \/ (direct \notin Modes /\ direct' = direct + 1)
      BY <1>5, <2>2 DEF OpenFile, NextMode, Goto
    <3>2. Decided' = Decided
      BY <3>1, NothingOver DEF Aclpc, InOperation
    <3> QED BY <3>1, <3>2, CountStep
  <2> QED BY <2>1, <2>2
<1>6. CASE IoSetup
  <2>1. /\ pc = "setup" /\ op' = "seed" /\ UNCHANGED <<direct, passed>>
        /\ \/ pc' = "op" /\ failures' = failures
           \/ pc' = "close" /\ failures' = failures + 1
    BY <1>6 DEF IoSetup
  <2>2. CASE pc' = "op"
    BY <2>1, <2>2, NothingOver, CountStep DEF Aclpc, InOperation
  <2>3. CASE pc' = "close"
    BY <1>0, <2>1, <2>3, ModeOver, CountStep DEF ModeInv, InMode
  <2> QED BY <2>1, <2>2, <2>3
<1>7. CASE Submit \/ GetEvents
  <2>1. pc \in InOperation /\ pc' \in InOperation /\ UNCHANGED <<op, direct, failures, passed>>
    BY <1>7 DEF Submit, GetEvents, InOperation, Goto
  <2>2. pc # "thrown"
    BY <2>1 DEF InOperation
  <2> QED BY <2>1, <2>2, CaseOver, CountStep
<1>8. ASSUME NEW c, pc \in InOperation, OpThrows(c), passed' = passed
      PROVE  CountInv'
  <2>0. failures' = failures + 1 \/ failures' = failures + 2
    BY <1>8 DEF OpThrows, Counted
  <2>1. CASE op = "read" /\ c
    <3>1. pc' = "op" /\ op' = "write" /\ direct' = direct
      BY <1>8, <2>1 DEF OpThrows
    <3> QED BY <1>0, <1>8, <2>0, <2>1, <3>1, CaseOver, CountStep DEF InOperation
  <2>2. CASE ~(op = "read" /\ c)
    <3>1. pc' = "close" /\ direct' = direct
      BY <1>8, <2>2 DEF OpThrows
    <3> QED BY <1>0, <1>8, <2>0, <3>1, ModeOver, CountStep DEF ModeInv, InMode, InOperation
  <2> QED BY <2>1, <2>2
<1>9. CASE DestroyAndThrow
  <2>1. pc \in InOperation /\ OpThrows(FALSE) /\ passed' = passed
    BY <1>9 DEF DestroyAndThrow, InOperation
  <2> QED BY <1>8, <2>1, Zenon
<1>10. CASE Inspect
  <2>1. CASE OpThrows(ctx) /\ passed' = passed
    BY <1>8, <1>10, <2>1 DEF Inspect, InOperation
  <2>2. CASE OpPasses /\ op = "back"
    <3>1. /\ pc = "inspect" /\ pc' = "close" /\ direct' = direct /\ failures' = failures
          /\ passed' = passed \cup {<<"write", direct>>}
      BY <1>10, <2>2 DEF Inspect, OpPasses, CaseOf, Goto
    <3>2. direct \in Modes /\ pc \in InOperation
      BY <3>1 DEF ModeInv, InMode, InOperation
    <3>3. <<"read", direct>> \in Decided
      BY <2>2, <3>2 DEF Decided
    <3>4. Decided' = Decided \cup {<<"write", direct>>} /\ <<"write", direct>> \notin Decided
      BY <3>1, <3>2, <3>3, ModeOver DEF InMode, InOperation
    <3> QED BY <3>1, <3>4, CountStep
  <2>3. CASE OpPasses /\ op # "back"
    <3>1. /\ pc = "inspect" /\ pc' = "op" /\ direct' = direct /\ failures' = failures
          /\ \/ /\ \/ op = "seed" /\ op' = "check"
                   \/ op = "check" /\ op' = "read"
                   \/ op = "write" /\ op' = "back"
                /\ passed' = passed
             \/ op = "read" /\ op' = "write" /\ passed' = passed \cup {<<"read", direct>>}
      BY <1>10, <2>3 DEF Inspect, OpPasses, CaseOf, TypeOK, Ops
    <3>2. pc \in InOperation /\ pc' \in InOperation
      BY <3>1 DEF InOperation
    <3>3. CASE op = "read"
      BY <3>1, <3>2, <3>3, CaseOver, CountStep
    <3>4. CASE op # "read"
      BY <3>1, <3>2, <3>4, CaseOver, CountStep
    <3> QED BY <3>3, <3>4
  <2> QED BY <1>10, <2>1, <2>2, <2>3 DEF Inspect
<1>11. CASE CloseFile
  <2>1. pc = "close" /\ pc' = "open" /\ direct' = direct + 1 /\ UNCHANGED <<failures, passed>>
    BY <1>11 DEF CloseFile, NextMode
  <2>2. direct \in {0, 1} /\ \A d \in Modes : d < direct + 1 <=> d < direct \/ d = direct
    <3>1. direct \in Modes
      BY <2>1 DEF ModeInv, InMode
    <3> QED BY <3>1, ModesAssumption
  <2>3. {d \in Modes : d < direct' \/ (d = direct' /\ pc' = "close")}
          = {d \in Modes : d < direct \/ (d = direct /\ pc = "close")}
    BY <2>1, <2>2
  <2>4. Decided' = Decided
    BY <2>1, <2>3 DEF Decided, Aclpc, InOperation
  <2> QED BY <2>1, <2>4, CountStep
<1>12. CASE External \/ Finished
  BY <1>12 DEF External, AclCompletes, RequestCompletes, Finished, place, vars, CountInv, Decided
<1> QED BY <1>1, <1>2, <1>3, <1>4, <1>5, <1>6, <1>7, <1>9, <1>10, <1>11, <1>12 DEF Next, Step

-------------------------------------------------------------------------------
LEMMA MoveKeeps ==
  ASSUME TypeOK, HeldInv, ModeInv, MoveInv, Next
  PROVE  MoveInv'
<1>0. /\ step \in 1 .. 15 /\ flight \in Nat /\ op \in Ops /\ data \in [Buffers -> Content]
      /\ pending \in {"none", "h2d", "d2h"}
  BY PlanLength, RequestsAssumption DEF TypeOK, Buffers
<1> USE DEF MoveInv, InMode, InOperation
<1>1. CASE AclAcquire \/ AclSubmit \/ AclSync
  <2>1. /\ pc = "acl" /\ UNCHANGED <<data, real>>
        /\ \/ pc' = "acl" /\ step' = step + 1 /\ step \in 1 .. 15 \ {4, 7, 10, 15}
           \/ pc' = "acl_catch"
    BY <1>0, <1>1, AclPlan, PlanLength DEF AclAcquire, AclSubmit, AclSync, AclFails, NextStep, Goto
  <2>2. CASE pc' = "acl_catch"
    BY <2>2
  <2>3. CASE pc' = "acl" /\ step' = step + 1
    BY <1>0, <2>1, <2>3
  <2> QED BY <2>1, <2>2, <2>3
<1>2. CASE AclCpu
  <2>1. /\ pc = "acl" /\ pc' = "acl" /\ step \in {4, 7} /\ step' = step + 1
        /\ data' = [data EXCEPT !["ptr"] = IF AclSteps[step] = "fill" THEN "seed" ELSE "zero"]
    <3>1. pc = "acl" /\ step \in {4, 7}
      BY <1>0, <1>2, AclPlan DEF AclCpu
    <3>2. pc' = pc /\ step' = step + 1
      BY <1>0, <1>2, <3>1, PlanLength DEF AclCpu, NextStep
    <3> QED BY <1>2, <3>1, <3>2 DEF AclCpu
  <2>3. step = 7 => AclSteps[step] = "zero"
    BY AclPlan
  <2>2. step = 7 => data'.ptr = "zero"
    BY <1>0, <2>1, <2>3 DEF Buffers
  <2> QED BY <2>1, <2>2
<1>3. CASE AclVerify
  <2>1. /\ pc = "acl" /\ data' = data /\ step \in {10, 15}
        /\ real' = IF data.device = "seed" THEN real \cup {Acl} ELSE real
        /\ \/ pc' = "acl" /\ step = 10 /\ step' = 11 /\ data.ptr = "seed"
           \/ pc' \in {"acl_catch", "control"}
    BY <1>0, <1>3, AclPlan, PlanLength DEF AclVerify, NextStep, Goto
  <2>2. CASE pc' = "acl"
    <3>1. Acl \in real'
      BY <1>0, <2>1, <2>2
    <3> QED BY <2>1, <2>2, <3>1
  <2>3. CASE pc' \in {"acl_catch", "control"}
    BY <2>3
  <2> QED BY <2>1, <2>2, <2>3
<1>4. CASE AclCatch \/ AllocateControl \/ Leave \/ CloseFile \/ DestroyAndThrow
  <2>1. pc' \in {"control", "thrown", "leave", "open", "returned", "close"}
    BY <1>4 DEF AclCatch, AllocateControl, Leave, CloseFile, DestroyAndThrow, OpThrows, NextMode, Goto
  <2> QED BY <2>1
<1>5. CASE OpenFile
  <2>1. \/ pc' \in {"leave", "open", "thrown"}
        \/ pc' = "setup" /\ data' = [data EXCEPT !["control"] = "seed", !["file"] = "garbage"]
    BY <1>5 DEF OpenFile, NextMode, Goto
  <2>2. pc' = "setup" => data'.control = "seed" /\ data'.file = "garbage"
    BY <1>0, <2>1 DEF Buffers
  <2> QED BY <2>1, <2>2
<1>6. CASE IoSetup
  <2>1. pc = "setup" /\ pc' \in {"op", "close"} /\ op' = "seed" /\ data' = data
    BY <1>6 DEF IoSetup
  <2> QED BY <2>1
<1>7. CASE Submit
  <2>1. /\ pc = "op" /\ UNCHANGED <<op, direct, real>> /\ data' = Prepared
        /\ pc' = "destroy" \/ (pc' = "events" /\ flight' > 0)
    BY <1>7, RequestsAssumption DEF Submit, Goto
  <2>2. \/ op = "seed" /\ data' = data
        \/ op = "write" /\ data' = [data EXCEPT !["ptr"] = "other"]
        \/ op = "read" /\ data' = [data EXCEPT !["ptr"] = "zero"]
        \/ op \in {"check", "back"} /\ data' = [data EXCEPT !["control"] = "zero"]
    BY <1>0, <2>1 DEF Prepared, Ops
  <2>3. /\ data'.file = data.file
        /\ op = "seed" => data' = data
        /\ op = "read" => data'.ptr = "zero"
        /\ op = "back" => data'.control = "zero"
    BY <1>0, <2>2 DEF Buffers
  <2> QED BY <2>1, <2>3
<1>8. CASE GetEvents
  <2>1. pc = "events" /\ UNCHANGED <<op, direct, real, data, flight, outcome>>
        /\ pc' \in {"destroy", "inspect"}
    BY <1>8 DEF GetEvents, Goto
  <2> QED BY <2>1
<1>9. CASE Inspect
  <2>1. /\ pc = "inspect" /\ flight = 0 /\ UNCHANGED <<data, direct>> /\ pc' \in {"op", "close"}
    <3>1. pc = "inspect" /\ flight' = flight /\ data' = data
      BY <1>9 DEF Inspect
    <3>2. flight = 0
      BY <1>0, <3>1 DEF HeldInv
    <3>3. OpPasses \/ OpThrows(ctx)
      BY <1>9 DEF Inspect
    <3>4. direct' = direct /\ pc' \in {"op", "close"}
      BY <3>3 DEF OpPasses, OpThrows, Goto
    <3> QED BY <3>1, <3>2, <3>4
  <2>2. /\ real' = IF outcome = "moved" /\ op \in {"read", "write"} THEN real \cup {CaseOf(op, direct)} ELSE real
        /\ pc' = "op" => <<op, op'>> \in {<<"seed", "check">>, <<"check", "read">>, <<"read", "write">>,
                                         <<"write", "back">>}
    BY <1>0, <1>9 DEF Inspect, OpPasses, OpThrows, Goto, Ops
  <2>3. CASE pc' = "close"
    BY <2>3
  <2>4. CASE pc' = "op" /\ op = "write"
    BY <2>1, <2>2, <2>4 DEF CaseOf
  <2>5. CASE pc' = "op" /\ op # "write"
    BY <2>1, <2>2, <2>5
  <2> QED BY <2>1, <2>3, <2>4, <2>5
<1>10. CASE AclCompletes
  <2>1. UNCHANGED <<pc, step, op, direct, flight, outcome, real>> /\ pc \in Aclpc
    BY <1>0, <1>10 DEF AclCompletes, place, HeldInv, Aclpc
  <2>2. CASE pc = "acl" /\ step \in 8 .. 10
    <3>1. pending = "d2h"
      BY <1>0, <1>10, <2>2 DEF AclCompletes, HeldInv
    <3>2. PICK o \in Outcome : data' = [data EXCEPT !["ptr"] = CASE o = "moved" -> data["device"]
                                                               [] o = "untouched" -> @
                                                               [] OTHER -> "garbage"]
      BY <1>10, <3>1 DEF AclCompletes
    <3>3. data'.device = data.device /\ data'.ptr \in {data.device, data.ptr, "garbage"}
      BY <1>0, <3>2 DEF Buffers
    <3> QED BY <2>1, <2>2, <3>3 DEF Aclpc
  <2>3. CASE ~(pc = "acl" /\ step \in 8 .. 10)
    BY <2>1, <2>3 DEF Aclpc
  <2> QED BY <2>2, <2>3
<1>11. CASE RequestCompletes
  <2>1. UNCHANGED <<pc, step, op, direct, real>> /\ pc \in {"events", "destroy"} /\ flight > 0
        /\ flight' = flight - 1 /\ outcome' \in Outcome
    BY <1>0, <1>11 DEF RequestCompletes, place, HeldInv, TypeOK, Outcome
  <2>2. CASE flight # 1
    <3>1. data' = data /\ flight' > 0
      BY <1>0, <1>11, <2>1, <2>2 DEF RequestCompletes
    <3> QED BY <2>1, <3>1
  <2>3. CASE flight = 1
    <3>1. data' = [data EXCEPT ![Target(op)] = CASE outcome' = "moved" -> data[Source(op)]
                                                 [] outcome' = "untouched" -> @
                                                 [] OTHER -> "garbage"]
      BY <1>11, <2>3 DEF RequestCompletes, Settled
    <3>2. CASE op = "seed"
      <4>1. data'.control = data.control /\ data'.file \in {data.control, data.file, "garbage"}
        BY <1>0, <3>1, <3>2 DEF Target, Source, Dump, Buffer, Buffers
      <4> QED BY <2>1, <3>2, <4>1
    <3>3. CASE op = "check"
      <4>1. data'.file = data.file
        BY <1>0, <3>1, <3>3 DEF Target, Source, Dump, Buffer, Buffers
      <4> QED BY <2>1, <3>3, <4>1
    <3>4. CASE op = "read"
      <4>1. /\ data'.file = data.file
            /\ data'.ptr = CASE outcome' = "moved" -> data.file
                             [] outcome' = "untouched" -> data.ptr
                             [] OTHER -> "garbage"
        BY <1>0, <3>1, <3>4 DEF Target, Source, Dump, Buffer, Buffers
      <4> QED BY <1>0, <2>1, <2>3, <3>4, <4>1
    <3>5. CASE op = "write"
      <4>1. data'.file = CASE outcome' = "moved" -> data.ptr
                           [] outcome' = "untouched" -> data.file
                           [] OTHER -> "garbage"
        BY <1>0, <3>1, <3>5 DEF Target, Source, Dump, Buffer, Buffers
      <4> QED BY <1>0, <2>1, <2>3, <3>5, <4>1
    <3>6. CASE op = "back"
      <4>1. /\ data'.file = data.file
            /\ data'.control \in {data.file, data.control, "garbage"}
        BY <1>0, <3>1, <3>6 DEF Target, Source, Dump, Buffer, Buffers
      <4> QED BY <1>0, <2>1, <2>3, <3>6, <4>1
    <3> QED BY <1>0, <3>2, <3>3, <3>4, <3>5, <3>6 DEF Ops
  <2> QED BY <2>2, <2>3
<1>12. CASE Finished
  BY <1>12 DEF Finished, vars, place
<1> QED BY <1>1, <1>2, <1>3, <1>4, <1>5, <1>6, <1>7, <1>8, <1>9, <1>10, <1>11, <1>12
  DEF Next, Step, External

\* What is counted as passed has moved.
LEMMA PassKeeps ==
  ASSUME TypeOK, HeldInv, MoveInv, PassIsReal, Next
  PROVE  PassIsReal'
<1> USE DEF PassIsReal
<1>1. CASE AclVerify
  <2>1. step \in 1 .. 15 /\ pc = "acl"
    BY <1>1, PlanLength DEF AclVerify, TypeOK
  <2>2. step = 15 => Acl \in real
    BY <2>1 DEF MoveInv
  <2>3. passed' = (IF data.ptr = "seed" /\ step = 15 THEN passed \cup {Acl} ELSE passed)
        /\ real \subseteq real'
    BY <1>1, PlanLength DEF AclVerify
  <2> QED BY <2>2, <2>3
<1>2. CASE Inspect
  <2>1. pc = "inspect" /\ flight = 0
    BY <1>2, RequestsAssumption DEF Inspect, HeldInv, TypeOK
  <2>2. real' = IF outcome = "moved" /\ op \in {"read", "write"}
                THEN real \cup {CaseOf(op, direct)} ELSE real
    BY <1>2 DEF Inspect
  <2>3. CASE passed' = passed
    BY <2>2, <2>3
  <2>4. CASE passed' # passed
    <3>1. /\ op \in {"read", "back"} /\ passed' = passed \cup {CaseOf(op, direct)}
          /\ data[Target(op)] = Wanted
      BY <1>2, <2>4 DEF Inspect, OpPasses, Dump
    <3>2. CASE op = "read"
      <4>1. outcome = "moved"
        BY <2>1, <3>1, <3>2 DEF MoveInv, Target, Buffer, Dump, Wanted
      <4> QED BY <2>2, <3>1, <3>2, <4>1
    <3>3. CASE op = "back"
      <4>1. data.file = "other"
        BY <2>1, <3>1, <3>3 DEF MoveInv, Target, Buffer, Dump, Wanted
      <4>2. <<"write", direct>> \in real
        BY <2>1, <3>3, <4>1 DEF MoveInv, InOperation
      <4> QED BY <2>2, <3>1, <3>3, <4>2 DEF CaseOf
    <3> QED BY <3>1, <3>2, <3>3
  <2> QED BY <2>3, <2>4
<1> QED BY <1>1, <1>2, Records

-------------------------------------------------------------------------------
LEMMA TroubleStays ==
  ASSUME TypeOK, Next, ~trouble'
  PROVE  ~trouble
<1>0. trouble \in BOOLEAN
  BY DEF TypeOK
<1>1. CASE AclAcquire \/ AclCpu \/ AclSubmit \/ AclSync \/ AclVerify \/ AclCatch
  BY <1>1 DEF AclAcquire, AclCpu, AclSubmit, AclSync, AclVerify, AclCatch, AclFails
<1>2. CASE AllocateControl \/ OpenFile \/ IoSetup
  BY <1>2 DEF AllocateControl, OpenFile, IoSetup
<1>3. CASE Submit \/ GetEvents \/ DestroyAndThrow \/ Inspect \/ CloseFile \/ Leave
  BY <1>3 DEF Submit, GetEvents, DestroyAndThrow, Inspect, CloseFile, Leave
<1>4. CASE External \/ Finished
  BY <1>0, <1>4 DEF External, AclCompletes, RequestCompletes, Finished, vars
<1> QED BY <1>1, <1>2, <1>3, <1>4 DEF Next, Step

LEMMA AclSmoothKeeps ==
  ASSUME TypeOK, HeldInv, SmoothInv, Next, ~trouble', pc = "acl"
  PROVE  (pc' = "acl" /\ AclSmooth') \/ pc' = "control"
<1>0. /\ step \in 1 .. 15 /\ data \in [Buffers -> Content] /\ pending \in {"none", "h2d", "d2h"}
      /\ flight = 0
  BY PlanLength, RequestsAssumption DEF TypeOK, Buffers, HeldInv
<1>1. AclSmooth
  BY TroubleStays DEF SmoothInv
<1> USE DEF AclSmooth
<1>2. CASE AclAcquire
  <2>1. step \in 1 .. 3 /\ pc' = "acl" /\ step' = step + 1
    BY <1>0, <1>2, AclPlan, PlanLength DEF AclAcquire, AclFails, NextStep
  <2> QED BY <2>1
<1>3. CASE AclCpu
  <2>1. step \in {4, 7}
    BY <1>0, <1>3, AclPlan DEF AclCpu
  <2>2. pc' = "acl" /\ step' = step + 1 /\ AclSteps[4] = "fill"
        /\ data' = [data EXCEPT !["ptr"] = IF AclSteps[step] = "fill" THEN "seed" ELSE "zero"]
    BY <1>3, <2>1, PlanLength, AclPlan DEF AclCpu, NextStep
  <2>3. data'.device = data.device /\ (step = 4 => data'.ptr = "seed")
    BY <1>0, <2>2 DEF Buffers
  <2> QED BY <1>1, <2>1, <2>2, <2>3
<1>4. CASE AclSubmit
  <2>1. \/ step \in {5, 11} /\ AclSteps[step] = "h2d"
        \/ step \in {8, 13} /\ AclSteps[step] = "d2h"
    BY <1>0, <1>4, AclPlan DEF AclSubmit
  <2>2. pc' = "acl" /\ step' = step + 1 /\ pending' = AclSteps[step] /\ data' = data
    BY <1>4, <2>1, PlanLength DEF AclSubmit, AclFails, NextStep
  <2> QED BY <1>1, <2>1, <2>2
<1>5. CASE AclSync
  <2>1. step \in {6, 9, 12, 14} /\ pending = "none"
    BY <1>0, <1>5, AclPlan DEF AclSync, AclFails
  <2>2. pc' = "acl" /\ step' = step + 1 /\ UNCHANGED <<pending, data>>
    BY <1>5, <2>1, PlanLength DEF AclSync, AclFails, NextStep
  <2> QED BY <1>1, <2>1, <2>2
<1>6. CASE AclVerify
  <2>1. step \in {10, 15} /\ data.ptr = "seed"
    BY <1>0, <1>1, <1>6, AclPlan DEF AclVerify
  <2>2. /\ UNCHANGED <<pending, data>>
        /\ (step = 10 /\ pc' = "acl" /\ step' = 11) \/ pc' = "control"
    BY <1>6, <2>1, PlanLength DEF AclVerify, NextStep
  <2> QED BY <1>1, <2>1, <2>2
<1>7. CASE AclCompletes
  <2>1. UNCHANGED <<pc, step>> /\ pending' = "none"
    BY <1>7 DEF AclCompletes, place
  <2>2. CASE pending = "h2d"
    <3>1. step \in {6, 12} /\ data' = [data EXCEPT !["device"] = data["ptr"]]
      BY <1>7, <2>2 DEF AclCompletes, HeldInv
    <3>2. data'.device = data.ptr /\ data'.ptr = data.ptr
      BY <1>0, <3>1 DEF Buffers
    <3> QED BY <1>1, <2>1, <3>1, <3>2
  <2>3. CASE pending = "d2h"
    <3>1. step \in {9, 14} /\ data' = [data EXCEPT !["ptr"] = data["device"]]
      BY <1>7, <2>3 DEF AclCompletes, HeldInv
    <3>2. data'.device = data.device /\ data'.ptr = data.device
      BY <1>0, <3>1 DEF Buffers
    <3> QED BY <1>1, <2>1, <3>1, <3>2
  <2> QED BY <1>0, <1>7, <2>2, <2>3 DEF AclCompletes
<1>8. AclAcquire \/ AclCpu \/ AclSubmit \/ AclSync \/ AclVerify \/ AclCompletes
  BY <1>0 DEF Next, Step, External, Finished, Over, AclCatch, AllocateControl, OpenFile, IoSetup, Submit,
     GetEvents, DestroyAndThrow, Inspect, CloseFile, Leave, RequestCompletes
<1> QED BY <1>2, <1>3, <1>4, <1>5, <1>6, <1>7, <1>8

LEMMA SmoothKeeps ==
  ASSUME TypeOK, HeldInv, ModeInv, MoveInv, SmoothInv, Next
  PROVE  SmoothInv'
<1> SUFFICES ASSUME ~trouble'
             PROVE  SmoothInv'
  BY DEF SmoothInv
<1>0. /\ flight \in Nat /\ op \in Ops /\ data \in [Buffers -> Content]
      /\ pending \in {"none", "h2d", "d2h"} /\ Requests > 0
  BY RequestsAssumption DEF TypeOK, Buffers
<1>1. ~trouble /\ failures = 0 /\ outcome = "moved" /\ pc \notin {"acl_catch", "destroy", "thrown"}
  BY TroubleStays DEF SmoothInv
<1>2. CASE pc = "acl"
  <2>1. failures' = failures /\ outcome' = outcome
    BY <1>0, <1>2 DEF Next, Step, External, Finished, Over, AclAcquire, AclCpu, AclSubmit, AclSync,
       AclVerify, AclCatch, AllocateControl, OpenFile, IoSetup, Submit, GetEvents, DestroyAndThrow,
       Inspect, CloseFile, Leave, AclCompletes, RequestCompletes, HeldInv
  <2> QED BY <1>1, <1>2, <2>1, AclSmoothKeeps DEF SmoothInv
<1> USE DEF InOperation
<1>3. CASE AllocateControl \/ OpenFile \/ CloseFile \/ Leave
  <2>1. pc' \in {"leave", "open", "setup", "returned"} /\ failures' = failures /\ outcome' = outcome
    BY <1>1, <1>3 DEF AllocateControl, OpenFile, CloseFile, Leave, NextMode, Goto
  <2> QED BY <1>1, <2>1 DEF SmoothInv
<1>4. CASE IoSetup
  <2>1. pc' = "op" /\ op' = "seed" /\ failures' = failures /\ outcome' = outcome
    BY <1>1, <1>4 DEF IoSetup
  <2> QED BY <1>1, <2>1 DEF SmoothInv
<1>5. CASE Submit
  <2>1. pc = "op" /\ pc' = "events" /\ UNCHANGED <<op, failures>> /\ data' = Prepared
        /\ flight' = Requests /\ outcome' = "moved"
    BY <1>1, <1>5 DEF Submit, Goto
  <2>2. \/ op = "seed" /\ data' = data
        \/ op = "write" /\ data' = [data EXCEPT !["ptr"] = "other"]
        \/ op = "read" /\ data' = [data EXCEPT !["ptr"] = "zero"]
        \/ op \in {"check", "back"} /\ data' = [data EXCEPT !["control"] = "zero"]
    BY <1>0, <2>1 DEF Prepared, Ops
  <2>3. data'.file = data.file /\ (op = "write" => data'.ptr = "other")
    BY <1>0, <2>2 DEF Buffers
  <2> QED BY <1>0, <1>1, <2>1, <2>3 DEF SmoothInv
<1>6. CASE GetEvents
  <2>1. pc = "events" /\ pc' = "inspect" /\ UNCHANGED <<op, failures, data, outcome, flight>>
    BY <1>1, <1>6 DEF GetEvents, Goto
  <2> QED BY <1>1, <2>1 DEF SmoothInv
<1>7. CASE Inspect
  <2>1. pc = "inspect" /\ flight = 0 /\ UNCHANGED <<data, outcome, flight>>
    BY <1>0, <1>7 DEF Inspect, HeldInv
  <2>2. data[Target(op)] = data[Source(op)]
    BY <1>1, <2>1 DEF SmoothInv
  <2>3. Dump(op) \/ data[Target(op)] = Wanted
    BY <1>1, <2>1, <2>2 DEF SmoothInv, Target, Source, Dump, Wanted, Ops, TypeOK
  <2>4. OpPasses /\ failures' = failures
    BY <1>1, <1>7, <2>3 DEF Inspect, OpPasses
  <2>5. \/ pc' = "close"
        \/ pc' = "op" /\ <<op, op'>> \in {<<"seed", "check">>, <<"check", "read">>, <<"read", "write">>,
                                         <<"write", "back">>}
    BY <1>0, <2>4 DEF OpPasses, Goto, Ops
  <2>6. op = "seed" => data.file = "seed"
    BY <2>1, <2>2 DEF MoveInv, Target, Source, Dump, Buffer
  <2>7. op = "write" => data.file = "other"
    BY <1>1, <2>1, <2>2 DEF SmoothInv, Target, Source, Dump, Buffer
  <2> QED BY <1>1, <2>1, <2>4, <2>5, <2>6, <2>7 DEF SmoothInv
<1>8. CASE RequestCompletes
  <2>1. UNCHANGED <<pc, op, failures>> /\ flight' = flight - 1 /\ flight > 0 /\ outcome' = "moved"
        /\ data' = IF flight = 1 THEN Settled("moved") ELSE data
    BY <1>1, <1>8 DEF RequestCompletes, place
  <2>2. pc = "events"
    BY <1>1, <2>1 DEF HeldInv
  <2>3. CASE flight # 1
    BY <1>0, <1>1, <2>1, <2>2, <2>3 DEF SmoothInv
  <2>4. CASE flight = 1
    <3>1. data' = [data EXCEPT ![Target(op)] = data[Source(op)]]
      BY <2>1, <2>4 DEF Settled
    <3>2. /\ Target(op) \in Buffers /\ Target(op) # Source(op)
          /\ op \in {"check", "read", "back"} => Target(op) # "file"
          /\ op = "write" => Target(op) = "file"
      BY DEF Target, Source, Dump, Buffer, Buffers
    <3>3. data'[Target(op)] = data'[Source(op)]
      BY <1>0, <3>1, <3>2
    <3>4. /\ op \in {"check", "read", "back"} => data'.file = data.file
          /\ op = "write" => data'.ptr = data.ptr
      BY <1>0, <3>1, <3>2 DEF Buffers
    <3>5. data'[Target(op')] = data'[Source(op')]
      BY <2>1, <3>3
    <3> QED BY <1>1, <2>1, <2>2, <3>4, <3>5 DEF SmoothInv
  <2> QED BY <2>3, <2>4
<1>9. CASE Finished
  BY <1>9 DEF Finished, vars, place, SmoothInv, AclSmooth
<1>10. CASE pc # "acl" /\ (AclAcquire \/ AclCpu \/ AclSubmit \/ AclSync \/ AclVerify \/ AclCatch \/ AclCompletes)
  BY <1>0, <1>1, <1>10 DEF AclAcquire, AclCpu, AclSubmit, AclSync, AclVerify, AclCatch, AclCompletes, HeldInv
<1>11. ~DestroyAndThrow
  BY <1>1 DEF DestroyAndThrow
<1> QED BY <1>2, <1>3, <1>4, <1>5, <1>6, <1>7, <1>8, <1>9, <1>10, <1>11 DEF Next, Step, External

-------------------------------------------------------------------------------
LEMMA InvInit == Init => IInv
<1> SUFFICES ASSUME Init PROVE IInv
  OBVIOUS
<1> USE RequestsAssumption DEF Init
<1>1. TypeOK
  <2>1. 1 \in 1 .. Len(AclSteps) /\ 0 \in 0 .. 2 /\ 0 \in 0 .. 7 /\ 0 \in 0 .. Requests
    BY PlanLength
  <2>2. data \in [{"ptr", "control", "device", "file"} -> Content]
    BY DEF Content
  <2> QED BY <2>1, <2>2 DEF TypeOK, Ops, Outcome
<1>2. HeldInv /\ ModeInv
  <2>1. ModeInv /\ pc = "acl" /\ pc \notin InMode
    BY DEF ModeInv, Aclpc, InMode, InOperation
  <2>2. ~Over /\ ~(step > 2) /\ ~(flight > 0)
    BY DEF Over
  <2> QED BY <2>1, <2>2 DEF HeldInv, InMode, InOperation
<1>5. MoveInv /\ PassIsReal
  BY DEF MoveInv, PassIsReal, InOperation
<1>6. BoundInv
  BY DEF BoundInv, Aclpc, InOperation
<1>3. CountInv
  <2>1. {d \in Modes : d < direct \/ (d = direct /\ pc = "close")} = {}
    <3>1. \A d \in Modes : ~(d < 0)
      BY ModesAssumption
    <3> QED BY <3>1
  <2>2. Decided = {}
    BY <2>1 DEF Decided, Aclpc, InOperation
  <2> QED BY <2>2 DEF CountInv
<1>4. SmoothInv
  BY DEF SmoothInv, AclSmooth
<1> QED BY <1>1, <1>2, <1>3, <1>4, <1>5, <1>6 DEF IInv

LEMMA InvNext == IInv /\ [Next]_vars => IInv'
<1> SUFFICES ASSUME IInv, [Next]_vars PROVE IInv'
  OBVIOUS
<1>1. CASE Next
  BY <1>1, TypeKeeps, HeldKeeps, ModeKeeps, MoveKeeps, PassKeeps, CountKeeps, BoundKeeps,
     SmoothKeeps DEF IInv
<1>2. CASE UNCHANGED vars
  <2>1. TypeOK'
    BY <1>2 DEF IInv, TypeOK, vars, place
  <2>2. HeldInv' /\ ModeInv' /\ MoveInv' /\ PassIsReal'
    BY <1>2 DEF IInv, HeldInv, ModeInv, MoveInv, PassIsReal, Over, vars, place
  <2>3. CountInv' /\ BoundInv' /\ SmoothInv'
    BY <1>2 DEF IInv, CountInv, Decided, BoundInv, SmoothInv, AclSmooth, vars, place
  <2> QED BY <2>1, <2>2, <2>3 DEF IInv
<1> QED BY <1>1, <1>2

\* io_tests keeps the invariant, whatever completes, fails or never answers.
THEOREM Invariance == Spec => []IInv
BY InvInit, InvNext, PTL DEF Spec

\* common.hpp 125, host_share.cpp 60: no buffer is touched under a transfer.
THEOREM TransfersAreAlone == Spec => []NoTransferUnderTheCpu
<1>1. IInv => NoTransferUnderTheCpu
  <2> SUFFICES ASSUME IInv PROVE NoTransferUnderTheCpu
    OBVIOUS
  <2>1. step \in 1 .. 15 /\ pending \in {"none", "h2d", "d2h"}
    BY PlanLength DEF IInv, TypeOK
  <2>2. AclSteps[step] \notin {"fill", "zero", "verify"} <=> step \notin {4, 7, 10, 15}
    BY <2>1, AclPlan
  <2> QED BY <2>1, <2>2 DEF IInv, HeldInv, NoTransferUnderTheCpu
<1> QED BY <1>1, Invariance, PTL

\* host_share.cpp 42-53, 94-131: each buffer is prepared so that only the case's
\* own transfer can put there what is looked for.
THEOREM PassesAreReal == Spec => []PassIsReal
<1>1. IInv => PassIsReal
  BY DEF IInv
<1> QED BY <1>1, Invariance, PTL

\* host_share.cpp 55-72, 115-135: failures is 0 exactly when all cases passed.
THEOREM ZeroTells == Spec => []ZeroMeansAllPassed
<1>1. IInv => ZeroMeansAllPassed
  <2> SUFFICES ASSUME IInv, pc = "returned"
               PROVE  failures = 0 <=> passed = Requested
    BY DEF ZeroMeansAllPassed
  <2>1. Decided = Requested
    <3>1. {d \in Modes : d < direct \/ (d = direct /\ pc = "close")} = Modes
      <4>1. \A d \in Modes : d < 2
        BY ModesAssumption
      <4>2. direct = 2 \/ Modes = {}
        BY DEF IInv, ModeInv
      <4> QED BY <4>1, <4>2
    <3> QED BY <3>1 DEF Decided, Requested, Aclpc, InOperation
  <2> QED BY <2>1 DEF IInv, CountInv
<1> QED BY <1>1, Invariance, PTL

\* host_share.cpp 29-140, common.hpp 117-145: nothing is left behind, and no
\* failure is made up.
THEOREM IoTestsLeavesClean == Spec => []LeavesClean
<1>1. IInv => LeavesClean
  <2> SUFFICES ASSUME IInv PROVE LeavesClean
    OBVIOUS
  <2>1. flight \in Nat /\ pending \in {"none", "h2d", "d2h"}
    BY RequestsAssumption DEF IInv, TypeOK
  <2> QED BY <2>1 DEF IInv, HeldInv, SmoothInv, LeavesClean, Over, InMode, InOperation
<1> QED BY <1>1, Invariance, PTL
===============================================================================
