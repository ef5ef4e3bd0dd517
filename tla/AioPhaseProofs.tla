---------------------------- MODULE AioPhaseProofs ----------------------------
(***************************************************************************)
(* The safety properties of AioPhase, for every number of requests, every  *)
(* window and batch and whatever fails.  The invariant has one part per    *)
(* question: what is open where, which descriptors are, what the thread    *)
(* may touch, where each request is, what the counts say, what a phase     *)
(* that passes has seen, and why no event is forgotten.                    *)
(***************************************************************************)
EXTENDS AioPhase, FiniteSetTheorems, SequenceTheorems, TLAPS

Live == {"ctx", "event", "epoll"}

OpenInv ==
  /\ pc = "ctx" => open = {}
  /\ pc = "event" => open = {"ctx"}
  /\ pc = "epoll" => open = {"ctx", "event"}
  /\ pc \in {"ctl", "open", "spawn"} \cup Running \cup Closing => open = Live
  /\ pc \in {"~fds", "~epoll", "~event", "done"} => "ctx" \notin open
  /\ pc \in {"~event", "done"} => "epoll" \notin open
  /\ pc = "done" => "event" \notin open

\* Descriptors first(k) .. Count are open, those before k are closed.
ClosedBefore(k) ==
  /\ fds = k .. Count
  /\ \A r \in Request : closed[r] = IF r < k THEN 1 ELSE 0

FdsInv ==
  /\ pc \in {"ctx", "event", "epoll", "ctl"} => fds = {}
  /\ pc = "open" => \E k \in 0 .. Count - 1 : fds = 1 .. k
  /\ pc \in {"spawn", "join"} \cup Running => fds = Request
  /\ pc \in {"join"} \cup Setup \cup Running => \A r \in Request : closed[r] = 0
  /\ pc = "closing" => \E k \in Request : ClosedBefore(k)
  /\ \A r \in Request : closed[r] \in {0, 1} /\ (r \in fds => closed[r] = 0)
  /\ pc \in {"~epoll", "~event", "done"} => fds = {}

ThreadInv ==
  /\ tpc \in Polling \cup Reaping =>
       pc \in Running \cup {"join", "~stop", "~join"} /\ open = Live
  /\ tpc \in {"inspect", "tally"} => batch # <<>>
  /\ tpc = "tally" => Head(batch) \notin done

\* Where the requests accepted so far are: in flight, or past it.
AllIn(q, S) == \A i \in 1 .. Len(q) : q[i] \in S
Past == {r \in 1 .. Accepted : r \notin flight}

RequestInv ==
  /\ pc \in Setup => submitted = 0 /\ tpc = "none" /\ flight = {} /\ ring = <<>> /\ done = {}
  /\ pc \in {"check", "window", "submit", "count"} => submitted < Count
  /\ flight # {} =>
       open = Live /\ fds = Request /\ pc \in (Running \ {"stop"}) \cup {"~stop", "~join", "~ctx"}
  /\ flight \subseteq 1 .. Accepted /\ done \subseteq Past
  /\ AllIn(ring, Past) /\ AllIn(batch, Past)

CountInv ==
  /\ completed = Cardinality(done)
  /\ Accepted - completed <= Depth
  /\ pc = "submit" => submitted - completed < Depth

PassInv ==
  /\ pc = "final" => completed = Count
  /\ pc \in {"stop", "join", "closing"} \/ result = "pass" =>
       done = Request /\ bad = {} /\ flight = {}
  /\ result = "pass" => pc \in Dtor \cup {"done"}
  /\ bad \cap done # {} => failed
  /\ tpc = "tally" /\ Head(batch) \in bad => failed

WakeInv ==
  tpc \in {"loop", "poll"} \/ (tpc \in {"inspect", "tally"} /\ got # Batch) =>
    ring = <<>> \/ ticks + unsignalled > 0

IInv == TypeOK /\ OpenInv /\ FdsInv /\ ThreadInv /\ RequestInv /\ CountInv /\ PassInv /\ WakeInv
-------------------------------------------------------------------------------
USE DEF Live

LEMMA AppendEvent ==
  ASSUME NEW q \in Seq(Request), NEW S, AllIn(q, S), NEW r \in Request, r \in S
  PROVE  Append(q, r) \in Seq(Request) /\ Append(q, r) # <<>> /\ AllIn(Append(q, r), S)
BY AppendProperties, LenProperties DEF AllIn

LEMMA TailOfOne ==
  ASSUME NEW S, NEW q \in Seq(S), Len(q) > 1, Tail(q) = <<>>
  PROVE  FALSE
<1>1. Len(Tail(q)) = Len(q) - 1
  BY HeadTailProperties, EmptySeq, SMT
<1>2. Len(Tail(q)) = 0
  BY EmptySeq, Zenon
<1> QED BY <1>1, <1>2

LEMMA TailEvent ==
  ASSUME NEW q \in Seq(Request), q # <<>>, NEW S, AllIn(q, S)
  PROVE  /\ Head(q) \in S /\ Head(q) \in Request
         /\ Tail(q) \in Seq(Request) /\ AllIn(Tail(q), S)
         /\ Len(q) > 1 => Tail(q) # <<>>
<1>1. Len(q) \in Nat \ {0} /\ Len(q) \in Nat
  BY EmptySeq, LenProperties
<1>2. Head(q) = q[1]
  OBVIOUS
<1>3. Len(q) > 1 => Tail(q) # <<>>
  BY TailOfOne
<1>4. Head(q) \in S /\ Head(q) \in Request
  BY <1>1, <1>2, HeadTailProperties DEF AllIn
<1>5. Tail(q) \in Seq(Request) /\ Len(Tail(q)) = Len(q) - 1
      /\ \A i \in 1 .. Len(Tail(q)) : Tail(q)[i] = q[i+1]
  BY HeadTailProperties
<1>6. AllIn(Tail(q), S)
  BY <1>1, <1>5 DEF AllIn
<1> QED BY <1>3, <1>4, <1>5, <1>6

\* io_getevents: the first n events, and the rest of the ring.
Taken == IF Len(ring) < Batch THEN Len(ring) ELSE Batch

LEMMA TakeEvents ==
  ASSUME ring \in Seq(Request), NEW S, AllIn(ring, S)
  PROVE  /\ Taken \in 0 .. Batch
         /\ SubSeq(ring, 1, Taken) \in Seq(Request) /\ AllIn(SubSeq(ring, 1, Taken), S)
         /\ SubSeq(ring, Taken + 1, Len(ring)) \in Seq(Request)
         /\ AllIn(SubSeq(ring, Taken + 1, Len(ring)), S)
         /\ Taken # 0 => SubSeq(ring, 1, Taken) # <<>>
         /\ Taken # Batch => SubSeq(ring, Taken + 1, Len(ring)) = <<>>
<1>1. Len(ring) \in Nat /\ \A i \in 1 .. Len(ring) : ring[i] \in Request
  BY LenProperties, ElementOfSeq
<1>2. Taken \in 0 .. Batch /\ Taken <= Len(ring) /\ (Taken # Batch => Taken = Len(ring))
  BY <1>1, BatchAssumption DEF Taken
<1>3. /\ SubSeq(ring, 1, Taken) \in Seq(Request) /\ Len(SubSeq(ring, 1, Taken)) = Taken
      /\ \A i \in 1 .. Taken : SubSeq(ring, 1, Taken)[i] = ring[i]
  BY <1>1, <1>2, SubSeqProperties
<1>4. /\ SubSeq(ring, Taken + 1, Len(ring)) \in Seq(Request)
      /\ Len(SubSeq(ring, Taken + 1, Len(ring))) = Len(ring) - Taken
      /\ \A i \in 1 .. Len(ring) - Taken : SubSeq(ring, Taken + 1, Len(ring))[i] = ring[Taken + i]
  <2>1. /\ Taken + 1 \in Int /\ Len(ring) \in Int
        /\ \A i \in Taken + 1 .. Len(ring) : ring[i] \in Request
    BY <1>1, <1>2
  <2> QED BY <1>1, <1>2, <2>1, SubSeqProperties
<1>5. Taken # Batch => SubSeq(ring, Taken + 1, Len(ring)) = <<>>
  BY <1>1, <1>2, SubSeqEmpty
<1>6. Taken # 0 => SubSeq(ring, 1, Taken) # <<>>
  BY <1>3, EmptySeq
<1>7. AllIn(SubSeq(ring, 1, Taken), S)
  BY <1>1, <1>2, <1>3 DEF AllIn
<1>8. AllIn(SubSeq(ring, Taken + 1, Len(ring)), S)
  <2> SUFFICES ASSUME NEW i \in 1 .. Len(ring) - Taken PROVE ring[Taken + i] \in S
    BY <1>4 DEF AllIn
  <2>1. Taken + i \in 1 .. Len(ring)
    BY <1>1, <1>2
  <2> QED BY <2>1 DEF AllIn
<1> HIDE DEF AllIn, Taken
<1> QED BY <1>2, <1>3, <1>4, <1>5, <1>6, <1>7, <1>8

LEMMA OpenKeeps ==
  ASSUME IInv, Next
  PROVE  OpenInv'
<1> USE DEF IInv, TypeOK, OpenInv, Setup, Running, Closing, Dtor
<1>1. CASE MainStep
  <2>1. CASE IoSetup \/ EventFd \/ EpollCreate \/ EpollCtl \/ OpenRequest \/ Spawn
    BY <2>1 DEF IoSetup, EventFd, EpollCreate, EpollCtl, SetupCall, OpenRequest, Spawn, Goto, files
  <2>2. CASE Check \/ CheckFails \/ Window \/ Submit \/ CountSubmitted \/ Drain
    BY <2>2 DEF Check, CheckFails, Window, Submit, CountSubmitted, Drain, Goto, Throw, files
  <2>3. CASE Stop \/ Join
    BY <2>3 DEF Stop, Join, AfterJoin, Goto, files
  <2>4. CASE CloseRequest
    <3>1. pc = "closing" /\ pc' \in {"closing", "~stop"} /\ open' = open
      BY <2>4 DEF CloseRequest, Goto
    <3> QED BY <3>1
  <2>5. CASE DestroyContext \/ CloseLeft \/ CloseNotification
    BY <2>5 DEF DestroyContext, CloseLeft, CloseNotification, Goto
  <2> QED BY <1>1, <2>1, <2>2, <2>3, <2>4, <2>5 DEF MainStep
<1>2. CASE ThreadStep \/ KernelStep
  BY <1>2 DEF ThreadStep, KernelStep, LoopHead, Poll, ReadEventFd, GetEvents, Inspect, Tally,
     Complete, Signal, main, files
<1>3. CASE Fault
  BY <1>3 DEF Fault, Expire, CallFails, SubmitAgain, CloseFails, CleanupFails, ThreadFails,
     CompleteBadly, Complete, Repeat, Throw, Goto, main, files
<1> QED BY <1>1, <1>2, <1>3 DEF Next, vars, main, files

\* The loop of lines 337-345 is at request k: that is the one it closes next.
ToClose == CHOOSE q \in Request : closed[q] = 0 /\ \A p \in 1 .. q-1 : closed[p] > 0

LEMMA ClosesInTurn ==
  ASSUME NEW k \in Request, ClosedBefore(k)
  PROVE  ToClose = k
<1> USE CountAssumption DEF Request, ClosedBefore
<1>1. closed[k] = 0 /\ \A p \in 1 .. k-1 : closed[p] > 0
  OBVIOUS
<1>2. ASSUME NEW q \in Request, closed[q] = 0, \A p \in 1 .. q-1 : closed[p] > 0
      PROVE  q = k
  <2>1. ~(q < k)
    BY <1>2
  <2>2. ~(k < q)
    BY <1>2, k \in 1 .. q-1 \/ ~(k < q)
  <2> QED BY <2>1, <2>2
<1> QED BY <1>1, <1>2 DEF ToClose

LEMMA CloseKeeps ==
  ASSUME IInv, pc = "closing", closed' = [closed EXCEPT ![ToClose] = @ + 1],
         fds' = fds \ {ToClose},
         pc' = IF ToClose = Count THEN "~stop" ELSE "closing"
  PROVE  FdsInv'
<1> USE CountAssumption DEF Request
<1>1. PICK k \in Request : ClosedBefore(k)
  BY DEF IInv, FdsInv
<1>2. ToClose = k
  BY <1>1, ClosesInTurn
<1>3. \A r \in Request : closed'[r] = IF r < k + 1 THEN 1 ELSE 0
  BY <1>1, <1>2 DEF ClosedBefore, IInv, TypeOK
<1>4. fds' = k + 1 .. Count
  BY <1>1, <1>2 DEF ClosedBefore
<1>5. k # Count => k + 1 \in Request /\ ClosedBefore(k + 1)'
  BY <1>3, <1>4 DEF ClosedBefore
<1>6. pc' = IF k = Count THEN "~stop" ELSE "closing"
  BY <1>2
<1> QED BY <1>3, <1>4, <1>5, <1>6 DEF FdsInv, Setup, Running

LEMMA FdsKeeps ==
  ASSUME IInv, Next
  PROVE  FdsInv'
<1> USE CountAssumption DEF IInv, TypeOK, FdsInv, Request, Setup, Running, Closing, Dtor
<1>0. ASSUME UNCHANGED <<pc, fds, closed>>
      PROVE  FdsInv'
  BY <1>0 DEF ClosedBefore
<1>1. CASE MainStep
  <2>1. CASE IoSetup \/ EventFd \/ EpollCreate \/ EpollCtl \/ Spawn
    <3>1. 0 \in 0 .. Count - 1 /\ 1 .. 0 = {}
      OBVIOUS
    <3> QED BY <2>1, <3>1 DEF IoSetup, EventFd, EpollCreate, EpollCtl, SetupCall, Spawn, Goto, files
  <2>2. CASE OpenRequest
    <3>1. PICK k \in 0 .. Count - 1 : fds = 1 .. k
      BY <2>2 DEF OpenRequest
    <3>2. Cardinality(fds) = k
      BY <3>1, FS_Interval
    <3>3. fds' = 1 .. k + 1 /\ pc' = (IF k + 1 < Count THEN "open" ELSE "spawn")
          /\ UNCHANGED closed /\ pc = "open"
      BY <2>2, <3>1, <3>2 DEF OpenRequest, Goto
    <3>4. k + 1 < Count => k + 1 \in 0 .. Count - 1
      OBVIOUS
    <3> QED BY <3>3, <3>4
  <2>3. CASE Check \/ CheckFails \/ Window \/ Submit \/ CountSubmitted \/ Drain
    BY <2>3 DEF Check, CheckFails, Window, Submit, CountSubmitted, Drain, Goto, Throw, files
  <2>4. CASE Stop \/ Join
    <3>1. CASE pc = "join"
      BY <2>4, <3>1 DEF Stop, Join, Goto, files, ClosedBefore
    <3> QED BY <2>4, <3>1 DEF Stop, Join, AfterJoin, Goto, files
  <2>5. CASE CloseRequest
    BY <2>5, CloseKeeps DEF CloseRequest, RemainingFds, ToClose, Goto
  <2>6. CASE DestroyContext \/ CloseNotification
    BY <2>6 DEF DestroyContext, CloseNotification, Goto
  <2>7. CASE CloseLeft
    BY <2>7 DEF CloseLeft, Goto
  <2> QED BY <1>1, <2>1, <2>2, <2>3, <2>4, <2>5, <2>6, <2>7 DEF MainStep
<1>2. CASE ThreadStep \/ KernelStep
  BY <1>0, <1>2 DEF ThreadStep, KernelStep, LoopHead, Poll, ReadEventFd, GetEvents, Inspect, Tally,
     Complete, Signal, main, files
<1>3. CASE Fault
  <2>1. CASE CallFails \/ SubmitAgain
    BY <2>1 DEF CallFails, SubmitAgain, Throw, Goto, files
  <2>2. CASE CloseFails
    <3>1. PICK k \in Request : ClosedBefore(k)
      BY <2>2 DEF CloseFails
    <3>2. /\ closed' = [closed EXCEPT ![k] = @ + 1] /\ fds' = fds \ {k} /\ pc' = "~stop"
      BY <2>2, <3>1, ClosesInTurn DEF CloseFails, RemainingFds, ToClose, Throw, Goto
    <3> QED BY <3>1, <3>2 DEF ClosedBefore
  <2> QED BY <1>0, <1>3, <2>1, <2>2 DEF Fault, Expire, CleanupFails, ThreadFails,
     CompleteBadly, Complete, Repeat, main, files
<1> QED BY <1>0, <1>1, <1>2, <1>3 DEF Next, vars, main, files

-------------------------------------------------------------------------------
LEMMA ThreadKeeps ==
  ASSUME IInv, Next
  PROVE  ThreadInv'
<1> USE DEF IInv, TypeOK, ThreadInv, Setup, Running, Closing, Dtor, Polling, Reaping
<1>0. ASSUME UNCHANGED <<tpc, batch, done, pc, open>>
      PROVE  ThreadInv'
  BY <1>0
<1>1. CASE MainStep
  <2>1. CASE IoSetup \/ EventFd \/ EpollCreate \/ EpollCtl \/ OpenRequest \/ Spawn
    BY <2>1 DEF IoSetup, EventFd, EpollCreate, EpollCtl, SetupCall, OpenRequest, Spawn, Goto,
       files, thread, OpenInv
  <2>2. CASE Check \/ CheckFails \/ Window \/ Submit \/ CountSubmitted \/ Drain
    BY <2>2 DEF Check, CheckFails, Window, Submit, CountSubmitted, Drain, Goto, Throw, files, thread
  <2>3. CASE Stop \/ Join
    BY <2>3 DEF Stop, Join, ThreadGone, Goto, files, thread
  <2>4. CASE CloseRequest \/ DestroyContext \/ CloseLeft \/ CloseNotification
    BY <2>4 DEF CloseRequest, DestroyContext, CloseLeft, CloseNotification, thread
  <2> QED BY <1>1, <2>1, <2>2, <2>3, <2>4 DEF MainStep
<1>2. CASE ThreadStep
  <2>1. CASE LoopHead \/ Poll \/ ReadEventFd
    BY <2>1 DEF LoopHead, Poll, ReadEventFd, ThreadGoto, main, files
  <2>2. CASE GetEvents
    <3>1. Taken # 0 => SubSeq(ring, 1, Taken) # <<>>
      BY TakeEvents DEF RequestInv
    <3> QED BY <2>2, <3>1 DEF GetEvents, Taken, ThreadGoto, main, files
  <2>3. CASE Inspect
    BY <2>3 DEF Inspect, Repeated, ThreadGoto, main, files
  <2>4. CASE Tally
    <3>1. Len(batch) > 1 => Tail(batch) # <<>>
      BY <2>4, TailEvent DEF Tally, RequestInv
    <3> QED BY <2>4, <3>1 DEF Tally, ThreadGoto, main, files
  <2> QED BY <1>2, <2>1, <2>2, <2>3, <2>4 DEF ThreadStep
<1>3. CASE KernelStep
  BY <1>0, <1>3 DEF KernelStep, Complete, Signal, main, files, thread
<1>4. CASE Fault
  <2>1. CASE CallFails \/ SubmitAgain \/ CloseFails
    BY <2>1 DEF CallFails, SubmitAgain, CloseFails, Throw, Goto, files, thread, RequestInv
  <2>2. CASE ThreadFails
    BY <2>2 DEF ThreadFails, ThreadGoto, main, files
  <2> QED BY <1>0, <1>4, <2>1, <2>2 DEF Fault, Expire, CleanupFails,
     CompleteBadly, Complete, Repeat, main, files, thread
<1> QED BY <1>0, <1>1, <1>2, <1>3, <1>4 DEF Next, vars, main, files, thread

-------------------------------------------------------------------------------
\* What the main thread may do to the requests: accept one, or let the ring go
\* with the context.
LEMMA AcceptedStays ==
  ASSUME IInv, Next
  PROVE  /\ Accepted \in 0 .. Count /\ Accepted' \in 0 .. Count
         /\ Accepted' = IF pc = "submit" /\ pc' = "count" THEN Accepted + 1 ELSE Accepted
<1> USE CountAssumption DEF IInv, TypeOK, RequestInv, Accepted, Setup, Running, Closing, Dtor
<1>1. CASE MainStep
  <2>1. CASE IoSetup \/ EventFd \/ EpollCreate \/ EpollCtl \/ OpenRequest \/ Spawn
    BY <2>1 DEF IoSetup, EventFd, EpollCreate, EpollCtl, SetupCall, OpenRequest, Spawn, Goto
  <2>2. CASE Check \/ CheckFails \/ Window \/ Submit \/ CountSubmitted \/ Drain
    BY <2>2 DEF Check, CheckFails, Window, Submit, CountSubmitted, Drain, Goto, Throw
  <2>3. CASE Stop \/ Join \/ DestroyContext \/ CloseLeft \/ CloseNotification
    BY <2>3 DEF Stop, Join, AfterJoin, DestroyContext, CloseLeft, CloseNotification, Goto
  <2>4. CASE CloseRequest
    <3>1. pc = "closing" /\ pc' \in {"closing", "~stop"} /\ submitted' = submitted
      BY <2>4 DEF CloseRequest, Goto
    <3> QED BY <3>1
  <2> QED BY <1>1, <2>1, <2>2, <2>3, <2>4 DEF MainStep
<1>2. CASE ThreadStep \/ KernelStep
  BY <1>2 DEF ThreadStep, KernelStep, LoopHead, Poll, ReadEventFd, GetEvents, Inspect, Tally,
     Complete, Signal, main
<1>3. CASE Fault
  BY <1>3 DEF Fault, Expire, CallFails, SubmitAgain, CloseFails, CleanupFails, ThreadFails,
     CompleteBadly, Complete, Repeat, Throw, Goto, main
<1> QED BY <1>1, <1>2, <1>3 DEF Next, vars, main

\* The requests outside the kernel: io_submit adds none, a completion adds one.
LEMMA PastGrows ==
  ASSUME IInv, Next
  PROVE  /\ (\E r \in Request : Complete(r)) \/ Submit \/ flight' = flight
         /\ \A r \in Request : Complete(r) => Past' = Past \cup {r}
         /\ ~(\E r \in Request : Complete(r)) => Past' = Past
<1> USE DEF IInv, TypeOK, RequestInv, Past, Setup, Running, Closing, Dtor
<1>1. CASE MainStep
  <2>1. CASE Submit
    <3>1. /\ pc = "submit" /\ pc' = "count" /\ flight' = flight \cup {Accepted + 1}
          /\ Accepted' = Accepted + 1
      BY <2>1, AcceptedStays DEF Submit, Goto, Accepted
    <3>2. Past' = Past
      <4>1. Accepted \in Nat
        BY AcceptedStays, CountAssumption
      <4> HIDE DEF IInv, TypeOK, RequestInv
      <4>2. \A r : r \in 1 .. Accepted' <=> (r \in 1 .. Accepted \/ r = Accepted + 1)
        BY <3>1, <4>1
      <4>3. Accepted + 1 \notin 1 .. Accepted
        BY <4>1
      <4>4. \A r : r \in Past' <=> (r \in 1 .. Accepted' /\ r \notin flight')
        OBVIOUS
      <4> QED BY <3>1, <4>2, <4>3, <4>4
    <3>3. \A r \in Request : ~Complete(r)
      BY <3>1 DEF Complete, main
    <3> QED BY <2>1, <3>2, <3>3
  <2>2. CASE ~Submit
    <3>1. flight' = flight
      BY <1>1, <2>2 DEF MainStep, IoSetup, EventFd, EpollCreate, EpollCtl, SetupCall, OpenRequest,
         Spawn, Check, CheckFails, Window, CountSubmitted, Drain, Stop, Join, CloseRequest,
         DestroyContext, CloseLeft, CloseNotification, kernel
    <3>2. ~(pc = "submit" /\ pc' = "count")
      BY <1>1, <2>2 DEF MainStep, IoSetup, EventFd, EpollCreate, EpollCtl, SetupCall, OpenRequest,
         Spawn, Check, CheckFails, Window, CountSubmitted, Drain, Stop, Join, CloseRequest,
         DestroyContext, CloseLeft, CloseNotification
    <3> QED BY <3>1, <3>2, AcceptedStays DEF Complete
  <2> QED BY <2>1, <2>2
<1>2. CASE ~MainStep
  <2>1. ~(pc = "submit" /\ pc' = "count")
    BY <1>2 DEF Next, ThreadStep, KernelStep, LoopHead, Poll, ReadEventFd, GetEvents, Inspect, Tally,
       Complete, Signal, Fault, Expire, CallFails, SubmitAgain, CloseFails, CleanupFails, ThreadFails,
       CompleteBadly, Repeat, Throw, Goto, main, vars
  <2>2. \A r \in Request : Complete(r) => Past' = Past \cup {r}
    BY <2>1, AcceptedStays DEF Complete
  <2>3. (\E r \in Request : Complete(r)) \/ flight' = flight
    BY <1>2 DEF Next, ThreadStep, KernelStep, LoopHead, Poll, ReadEventFd, GetEvents, Inspect, Tally,
       Signal, Fault, Expire, CallFails, SubmitAgain, CloseFails, CleanupFails, ThreadFails,
       CompleteBadly, Repeat, kernel, vars
  <2> QED BY <2>1, <2>2, <2>3, AcceptedStays
<1> QED BY <1>1, <1>2

\* Once the count is complete so are the requests.
LEMMA AllCounted ==
  ASSUME IInv, completed = Count
  PROVE  done = Request /\ flight = {}
<1>1. IsFiniteSet(Request) /\ Cardinality(Request) = Count
  BY CountAssumption, FS_Interval DEF Request
<1>2. done = Request
  BY <1>1, FS_Subset DEF IInv, TypeOK, CountInv
<1> QED BY <1>2 DEF IInv, TypeOK, RequestInv, Past

LEMMA RequestKeeps ==
  ASSUME IInv, Next
  PROVE  RequestInv'
<1> DEFINE PlaceOK ==
      /\ pc \in Setup => submitted = 0 /\ tpc = "none" /\ flight = {} /\ ring = <<>> /\ done = {}
      /\ pc \in {"check", "window", "submit", "count"} => submitted < Count
    FlightOK ==
      flight # {} =>
        open = Live /\ fds = Request /\ pc \in (Running \ {"stop"}) \cup {"~stop", "~join", "~ctx"}
<1> USE CountAssumption DEF IInv, TypeOK, RequestInv, Setup, Running, Closing, Dtor
<1>1. PlaceOK' /\ FlightOK'
  <2>0. ASSUME UNCHANGED <<pc, submitted, open, fds>>, pc \notin Setup,
               flight' \subseteq flight
        PROVE  PlaceOK' /\ FlightOK'
    BY <2>0
  <2>1. CASE MainStep
    <3>1. CASE IoSetup \/ EventFd \/ EpollCreate \/ EpollCtl \/ OpenRequest \/ Spawn
      <4>1. /\ pc \in Setup /\ UNCHANGED <<submitted, kernel, done>>
            /\ (pc' \in Setup /\ tpc' = tpc) \/ pc' = "check"
        BY <3>1 DEF IoSetup, EventFd, EpollCreate, EpollCtl, SetupCall, OpenRequest, Spawn, Goto,
           thread
      <4> QED BY <4>1 DEF kernel
    <3>2. CASE Check \/ CheckFails \/ Window
      BY <3>2, AllCounted DEF Check, CheckFails, Window, Goto, Throw, files, kernel, PassInv
    <3>3. CASE Submit \/ CountSubmitted \/ Drain
      BY <3>3 DEF Submit, CountSubmitted, Drain, Goto, files, kernel, OpenInv, FdsInv
    <3>4. CASE Stop
      BY <3>4 DEF Stop, Goto, files, kernel, PassInv
    <3>5. CASE Join
      BY <3>5 DEF Join, AfterJoin, Goto, files, kernel
    <3>6. CASE CloseRequest
      <4>1. pc' \in {"closing", "~stop"} /\ flight = {} /\ flight' = flight /\ pc = "closing"
        BY <3>6 DEF CloseRequest, Goto, kernel, PassInv
      <4> QED BY <4>1
    <3>7. CASE DestroyContext \/ CloseLeft \/ CloseNotification
      BY <3>7 DEF DestroyContext, CloseLeft, CloseNotification, Goto, kernel, OpenInv
    <3> QED BY <2>1, <3>1, <3>2, <3>3, <3>4, <3>5, <3>6, <3>7 DEF MainStep
  <2>2. CASE ThreadStep
    BY <2>0, <2>2 DEF ThreadStep, LoopHead, Poll, ReadEventFd, GetEvents, Inspect, Tally,
       main, files, kernel, Polling, Reaping
  <2>3. CASE KernelStep
    BY <2>0, <2>3 DEF KernelStep, Complete, Signal, main, files, thread, WakeInv
  <2>4. CASE Fault
    <3>1. CASE CallFails \/ SubmitAgain \/ CloseFails
      BY <3>1 DEF CallFails, SubmitAgain, CloseFails, Throw, Goto, files, kernel, PassInv
    <3>2. CASE Expire \/ CleanupFails \/ ThreadFails
      BY <2>0, <3>2 DEF Expire, CleanupFails, ThreadFails, main, files, kernel
    <3>3. ASSUME NEW r \in Request, CompleteBadly(r) \/ Repeat(r)
          PROVE  PlaceOK' /\ FlightOK'
      BY <2>0, <3>3 DEF CompleteBadly, Complete, Repeat, main, files, kernel
    <3> QED BY <2>4, <3>1, <3>2, <3>3 DEF Fault
  <2> QED BY <2>1, <2>2, <2>3, <2>4 DEF Next, vars, main, files, thread, kernel
<1>2. flight' \subseteq 1 .. Accepted'
  <2>1. CASE Submit
    BY <2>1, AcceptedStays DEF Submit, Goto, Accepted
  <2>2. CASE ~Submit
    <3>1. flight' \subseteq flight
      BY <2>2, PastGrows DEF Complete
    <3>2. Accepted <= Accepted'
      BY AcceptedStays
    <3> QED BY <3>1, <3>2, AcceptedStays
  <2> QED BY <2>1, <2>2
<1>3. Past \subseteq Past'
  BY PastGrows
<1>4. done' \subseteq Past' /\ AllIn(ring, Past)' /\ AllIn(batch, Past)'
  <2>0. \A q : AllIn(q, Past) => AllIn(q, Past')
    BY <1>3 DEF AllIn
  <2>1. CASE UNCHANGED <<done, ring, batch>>
    BY <1>3, <2>0, <2>1 DEF AllIn
  <2>2. CASE DestroyContext
    BY <1>3, <2>0, <2>2, EmptySeq DEF DestroyContext, AllIn, thread
  <2>3. CASE GetEvents
    <3>1. AllIn(SubSeq(ring, 1, Taken), Past) /\ AllIn(SubSeq(ring, Taken + 1, Len(ring)), Past)
      BY TakeEvents
    <3>2. ring' = SubSeq(ring, Taken + 1, Len(ring)) /\ batch' = SubSeq(ring, 1, Taken) /\ done' = done
      BY <2>3 DEF GetEvents, Taken
    <3> QED BY <1>3, <2>0, <3>1, <3>2 DEF AllIn
  <2>4. CASE Tally
    <3>1. Head(batch) \in Past /\ AllIn(Tail(batch), Past)
      BY <2>4, TailEvent DEF Tally, ThreadInv
    <3>2. done' = done \cup {Head(batch)} /\ batch' = Tail(batch) /\ ring' = ring
      BY <2>4 DEF Tally, kernel
    <3> QED BY <1>3, <2>0, <3>1, <3>2 DEF AllIn
  <2>5. ASSUME NEW r \in Request, Complete(r)
        PROVE  done' \subseteq Past' /\ AllIn(ring, Past)' /\ AllIn(batch, Past)'
    <3>1. r \in Past'
      BY <2>5, PastGrows
    <3>2. AllIn(Append(ring, r), Past')
      BY <2>0, <3>1, AppendEvent
    <3>3. ring' = Append(ring, r) /\ UNCHANGED <<done, batch>>
      BY <2>5 DEF Complete, thread
    <3> QED BY <1>3, <2>0, <3>2, <3>3 DEF AllIn
  <2>6. ASSUME NEW r \in Request, Repeat(r)
        PROVE  done' \subseteq Past' /\ AllIn(ring, Past)' /\ AllIn(batch, Past)'
    <3>1. AllIn(Append(ring, r), Past')
      BY <1>3, <2>0, <2>6, AppendEvent DEF Repeat
    <3>2. ring' = Append(ring, r) /\ UNCHANGED <<done, batch>>
      BY <2>6 DEF Repeat, thread
    <3> QED BY <1>3, <2>0, <3>1, <3>2 DEF AllIn
  <2>7. \/ UNCHANGED <<done, ring, batch>> \/ DestroyContext \/ GetEvents \/ Tally
        \/ \E r \in Request : Complete(r) \/ Repeat(r)
    BY DEF Next, MainStep, IoSetup, EventFd, EpollCreate, EpollCtl, SetupCall, OpenRequest,
       Spawn, Check, CheckFails, Window, Submit, CountSubmitted, Drain, Stop, Join, CloseRequest,
       CloseLeft, CloseNotification, ThreadStep, LoopHead, Poll, ReadEventFd, Inspect, KernelStep,
       Signal, Fault, Expire, CallFails, SubmitAgain, CloseFails, CleanupFails, ThreadFails,
       CompleteBadly, thread, kernel, vars
  <2> QED BY <2>1, <2>2, <2>3, <2>4, <2>5, <2>6, <2>7
<1> QED BY <1>1, <1>2, <1>3, <1>4

-------------------------------------------------------------------------------
LEMMA CountStays ==
  ASSUME IInv, Next
  PROVE  /\ completed' = Cardinality(done') /\ completed' \in 0 .. Count
         /\ completed <= completed' /\ done \subseteq done' /\ done' \subseteq Request
         /\ UNCHANGED <<done, completed>> \/ Tally
<1> USE DEF IInv, TypeOK, CountInv
<1>1. CASE Tally
  <2>1. IsFiniteSet(Request) /\ Cardinality(Request) = Count
    BY CountAssumption, FS_Interval DEF Request
  <2>2. Head(batch) \in Request
    BY <1>1, TailEvent DEF Tally, ThreadInv, RequestInv
  <2>3. Head(batch) \notin done /\ done' = done \cup {Head(batch)} /\ completed' = completed + 1
    BY <1>1 DEF Tally, ThreadInv
  <2>4. IsFiniteSet(done)
    BY <2>1, FS_Subset
  <2>5. Cardinality(done') = completed'
    BY <2>3, <2>4, FS_AddElement
  <2>6. done' \subseteq Request /\ Cardinality(done') <= Count
    BY <2>1, <2>2, <2>3, FS_Subset
  <2> QED BY <1>1, <2>3, <2>5, <2>6
<1>2. CASE ~Tally
  BY <1>2 DEF Next, MainStep, IoSetup, EventFd, EpollCreate, EpollCtl, SetupCall, OpenRequest,
     Spawn, Check, CheckFails, Window, Submit, CountSubmitted, Drain, Stop, Join, CloseRequest,
     DestroyContext, CloseLeft, CloseNotification, ThreadStep, LoopHead, Poll, ReadEventFd,
     GetEvents, Inspect, KernelStep, Complete, Signal, Fault, Expire, CallFails, SubmitAgain,
     CloseFails, CleanupFails, ThreadFails, CompleteBadly, Repeat, thread, atomics, vars
<1> QED BY <1>1, <1>2

\* Where the main thread stands before it submits, drains and passes.
LEMMA Arrives ==
  ASSUME IInv, Next
  PROVE  /\ pc' = "submit" => pc = "submit" \/ (pc = "window" /\ ~WindowFull)
         /\ pc' = "final" => pc = "final" \/ (pc = "drain" /\ completed = Count)
         /\ pc' \in {"stop", "join", "closing"} =>
              pc \in {"stop", "join", "closing"} \/ (pc = "final" /\ ~failed)
         /\ result' = "pass" => pc' \in Dtor \cup {"done"} /\ (result = "pass" \/ pc = "closing")
<1> USE CountAssumption DEF IInv, TypeOK, PassInv, Setup, Running, Closing, Dtor
<1>1. CASE MainStep
  <2>1. CASE IoSetup \/ EventFd \/ EpollCreate \/ EpollCtl \/ OpenRequest \/ Spawn
    BY <2>1 DEF IoSetup, EventFd, EpollCreate, EpollCtl, SetupCall, OpenRequest, Spawn, Goto
  <2>2. CASE Check \/ CheckFails \/ Window \/ Submit \/ CountSubmitted \/ Drain
    BY <2>2 DEF Check, CheckFails, CheckThrows, Window, Submit, CountSubmitted, Drain, Goto, Throw
  <2>3. CASE Stop \/ Join \/ DestroyContext \/ CloseLeft \/ CloseNotification
    BY <2>3 DEF Stop, Join, AfterJoin, DestroyContext, CloseLeft, CloseNotification, Goto
  <2>4. CASE CloseRequest
    <3>1. /\ pc = "closing" /\ pc' \in {"closing", "~stop"}
          /\ result' = result \/ pc' = "~stop"
      BY <2>4 DEF CloseRequest, Goto
    <3> QED BY <3>1
  <2> QED BY <1>1, <2>1, <2>2, <2>3, <2>4 DEF MainStep
<1>2. CASE ThreadStep \/ KernelStep
  BY <1>2 DEF ThreadStep, KernelStep, LoopHead, Poll, ReadEventFd, GetEvents, Inspect, Tally,
     Complete, Signal, main
<1>3. CASE Fault
  BY <1>3 DEF Fault, Expire, CallFails, SubmitAgain, CloseFails, CleanupFails, ThreadFails,
     CompleteBadly, Complete, Repeat, Throw, Goto, main
<1> QED BY <1>1, <1>2, <1>3 DEF Next, vars, main

\* What an action may do to the sequences.
LEMMA QueuesKeepType ==
  ASSUME IInv, Next
  PROVE  ring' \in Seq(Request) /\ batch' \in Seq(Request) /\ got' \in 0 .. Batch
<1> USE DEF IInv, TypeOK
<1>1. CASE GetEvents
  BY <1>1, TakeEvents DEF GetEvents, Taken, RequestInv
<1>2. CASE Tally
  BY <1>2, TailEvent DEF Tally, ThreadInv, RequestInv, kernel
<1>3. CASE DestroyContext
  BY <1>3, EmptySeq DEF DestroyContext, thread
<1>4. ASSUME NEW r \in Request, Complete(r) \/ Repeat(r)
      PROVE  ring' \in Seq(Request) /\ batch' \in Seq(Request) /\ got' \in 0 .. Batch
  <2>1. ring' = Append(ring, r) /\ UNCHANGED <<batch, got>>
    BY <1>4 DEF Complete, Repeat, thread
  <2> QED BY <2>1, AppendProperties
<1>5. \/ UNCHANGED <<ring, batch, got>> \/ GetEvents \/ Tally \/ DestroyContext
      \/ \E r \in Request : Complete(r) \/ Repeat(r)
  BY DEF Next, MainStep, IoSetup, EventFd, EpollCreate, EpollCtl, SetupCall, OpenRequest,
     Spawn, Check, CheckFails, Window, Submit, CountSubmitted, Drain, Stop, Join, CloseRequest,
     CloseLeft, CloseNotification, ThreadStep, LoopHead, Poll, ReadEventFd, Inspect, KernelStep,
     Signal, Fault, Expire, CallFails, SubmitAgain, CloseFails, CleanupFails, ThreadFails,
     CompleteBadly, thread, kernel, vars
<1> QED BY <1>1, <1>2, <1>3, <1>4, <1>5

LEMMA FdsRequests ==
  ASSUME IInv, Next
  PROVE  fds' \in SUBSET Request
<1>1. CASE OpenRequest
  <2>1. PICK k \in 0 .. Count - 1 : fds = 1 .. k
    BY <1>1 DEF OpenRequest, IInv, FdsInv
  <2>2. Cardinality(fds) + 1 \in Request
    <3>1. Cardinality(1 .. k) = IF 1 > k THEN 0 ELSE k - 1 + 1
      BY FS_Interval, CountAssumption
    <3> QED BY <2>1, <3>1, CountAssumption DEF Request
  <2> QED BY <1>1, <2>2 DEF OpenRequest, IInv, TypeOK
<1>2. fds' \subseteq fds \/ OpenRequest
  BY DEF Next, MainStep, IoSetup, EventFd, EpollCreate, EpollCtl, SetupCall,
     Spawn, Check, CheckFails, Window, Submit, CountSubmitted, Drain, Stop, Join, CloseRequest,
     DestroyContext, CloseLeft, CloseNotification, ThreadStep, LoopHead, Poll, ReadEventFd,
     GetEvents, Inspect, Tally, KernelStep, Complete, Signal, Fault, Expire, CallFails,
     SubmitAgain, CloseFails, CleanupFails, ThreadFails, CompleteBadly, Repeat, RemainingFds,
     files, vars
<1> QED BY <1>1, <1>2 DEF IInv, TypeOK

LEMMA TypeKeeps ==
  ASSUME IInv, Next
  PROVE  TypeOK'
<1> USE DEF IInv, TypeOK
<1>1. /\ pc' \in Setup \cup Running \cup Closing \cup Dtor \cup {"done"}
      /\ submitted' \in 0 .. Count /\ result' \in {"none", "pass", "thrown"}
      /\ expired' \in BOOLEAN /\ cleanupFailed' \in BOOLEAN
      /\ open' \in SUBSET {"ctx", "event", "epoll"}
  <2> USE CountAssumption DEF Setup, Running, Closing, Dtor
  <2>1. CASE MainStep
    <3>1. CASE IoSetup \/ EventFd \/ EpollCreate \/ EpollCtl \/ OpenRequest \/ Spawn
      BY <3>1 DEF IoSetup, EventFd, EpollCreate, EpollCtl, SetupCall, OpenRequest, Spawn, Goto, files
    <3>2. CASE Check \/ CheckFails \/ Window \/ Submit \/ Drain
      BY <3>2 DEF Check, CheckFails, Window, Submit, Drain, Goto, Throw, files
    <3>6. CASE CountSubmitted
      BY <3>6 DEF CountSubmitted, Goto, files, RequestInv
    <3>3. CASE Stop \/ Join \/ DestroyContext \/ CloseLeft \/ CloseNotification
      BY <3>3 DEF Stop, Join, AfterJoin, DestroyContext, CloseLeft, CloseNotification, Goto, files
    <3>4. CASE CloseRequest
      <4>1. /\ pc' \in {pc, "~stop"} /\ result' \in {result, "pass"}
            /\ UNCHANGED <<submitted, expired, open, cleanupFailed>>
        BY <3>4 DEF CloseRequest, Goto
      <4> QED BY <4>1
    <3> QED BY <2>1, <3>1, <3>2, <3>3, <3>4, <3>6 DEF MainStep
  <2>2. CASE ThreadStep \/ KernelStep
    <3>1. UNCHANGED <<pc, submitted, result, expired, open, cleanupFailed>>
      <4>1. CASE LoopHead \/ Poll \/ ReadEventFd
        BY <4>1 DEF LoopHead, Poll, ReadEventFd, main, files
      <4>2. CASE GetEvents \/ Inspect \/ Tally
        BY <4>2 DEF GetEvents, Inspect, Tally, main, files
      <4>3. CASE KernelStep
        BY <4>3 DEF KernelStep, Complete, Signal, main, files
      <4> QED BY <2>2, <4>1, <4>2, <4>3 DEF ThreadStep
    <3> QED BY <3>1
  <2>3. CASE Fault
    <3>1. CASE Expire \/ CallFails \/ SubmitAgain \/ CleanupFails \/ ThreadFails
      BY <3>1 DEF Expire, CallFails, SubmitAgain, CleanupFails, ThreadFails, Throw, Goto, main, files
    <3>2. CASE CloseFails
      BY <3>2 DEF CloseFails, Throw, Goto
    <3>3. CASE \E r \in Request : CompleteBadly(r) \/ Repeat(r)
      BY <3>3 DEF CompleteBadly, Complete, Repeat, main, files
    <3> QED BY <2>3, <3>1, <3>2, <3>3 DEF Fault
  <2> QED BY <2>1, <2>2, <2>3 DEF Next, vars, main, files
<1>2. fds' \in SUBSET Request /\ closed' \in [Request -> Nat]
  <2>1. fds' \in SUBSET Request
    BY FdsRequests
  <2>2. CASE CloseRequest \/ CloseFails
    <3>1. PICK r : closed' = [closed EXCEPT ![r] = @ + 1]
      BY <2>2, Zenon DEF CloseRequest, CloseFails
    <3>2. CASE r \in Request
      <4>1. closed[r] + 1 \in Nat
        BY <3>2
      <4> QED BY <2>1, <3>1, <4>1
    <3>3. CASE r \notin Request
      <4>1. closed' \in [Request -> Nat]
        BY <3>1, <3>3
      <4> QED BY <2>1, <4>1
    <3> QED BY <3>2, <3>3
  <2>3. CASE CloseLeft
    BY <2>1, <2>3 DEF CloseLeft
  <2>4. CASE UNCHANGED closed
    BY <2>1, <2>4
  <2>5. CloseRequest \/ CloseFails \/ CloseLeft \/ UNCHANGED closed
    BY DEF Next, MainStep, IoSetup, EventFd, EpollCreate, EpollCtl, SetupCall, OpenRequest,
       Spawn, Check, CheckFails, Window, Submit, CountSubmitted, Drain, Stop, Join,
       DestroyContext, CloseNotification, ThreadStep, LoopHead, Poll, ReadEventFd,
       GetEvents, Inspect, Tally, KernelStep, Complete, Signal, Fault, Expire, CallFails,
       SubmitAgain, CleanupFails, ThreadFails, CompleteBadly, Repeat, files, vars
  <2> QED BY <2>1, <2>2, <2>3, <2>4, <2>5
<1>3. /\ tpc' \in {"none", "exit"} \cup Polling \cup Reaping
      /\ stop' \in BOOLEAN /\ failed' \in BOOLEAN /\ faults' \in 0 .. MaxFaults
      /\ ticks' \in Nat /\ unsignalled' \in Nat
  <2> USE MaxFaultsAssumption DEF Polling, Reaping
  <2>1. CASE MainStep
    <3>1. /\ tpc' \in {tpc, "loop"} /\ UNCHANGED <<failed, faults, ticks, unsignalled>>
          /\ stop' \in {stop, TRUE}
      BY <2>1 DEF MainStep, IoSetup, EventFd, EpollCreate, EpollCtl, SetupCall, OpenRequest,
         Spawn, Check, CheckFails, Window, Submit, CountSubmitted, Drain, Stop, Join, CloseRequest,
         DestroyContext, CloseLeft, CloseNotification, thread, atomics, kernel
    <3> QED BY <3>1
  <2>2. CASE ThreadStep
    <3>1. CASE LoopHead \/ Poll \/ ReadEventFd \/ Tally
      BY <3>1 DEF LoopHead, Poll, ReadEventFd, Tally, ThreadGoto, atomics, kernel
    <3>2. CASE GetEvents
      <4>1. tpc' \in {"loop", "inspect"} /\ UNCHANGED <<atomics, faults, ticks, unsignalled>>
        BY <3>2 DEF GetEvents, ThreadGoto
      <4> QED BY <4>1 DEF atomics
    <3>3. CASE Inspect
      <4>1. /\ failed' = TRUE \/ failed' = FailedAfter(Head(batch))
            /\ tpc' \in {"exit", "tally"} /\ UNCHANGED <<stop, kernel, faults>>
        BY <3>3 DEF Inspect, ThreadGoto
      <4>2. failed' \in BOOLEAN
        BY <4>1, Zenon DEF FailedAfter
      <4> QED BY <4>1, <4>2 DEF kernel
    <3> QED BY <2>2, <3>1, <3>2, <3>3 DEF ThreadStep
  <2>3. CASE KernelStep
    BY <2>3 DEF KernelStep, Complete, Signal, thread, atomics
  <2>4. CASE Fault
    <3>1. CASE Expire \/ CallFails \/ SubmitAgain \/ CloseFails \/ CleanupFails
      BY <3>1 DEF Expire, CallFails, SubmitAgain, CloseFails, CleanupFails, Inject, thread, atomics,
         kernel
    <3>2. CASE ThreadFails
      BY <3>2 DEF ThreadFails, ThreadGoto, Inject, kernel
    <3>3. CASE \E r \in Request : CompleteBadly(r) \/ Repeat(r)
      BY <3>3 DEF CompleteBadly, Complete, Repeat, Inject, thread, atomics
    <3> QED BY <2>4, <3>1, <3>2, <3>3 DEF Fault
  <2> QED BY <2>1, <2>2, <2>3, <2>4 DEF Next, vars, thread, atomics, kernel
<1>4. flight' \in SUBSET Request /\ bad' \in SUBSET Request
  <2>1. flight' \in SUBSET Request
    <3>1. Submit => submitted + 1 \in Request
      BY CountAssumption DEF Submit, RequestInv, Request
    <3> QED BY <3>1, PastGrows DEF Submit, Complete
  <2>2. bad' = bad \/ \E r \in Request : bad' = bad \cup {r}
    BY DEF Next, MainStep, IoSetup, EventFd, EpollCreate, EpollCtl, SetupCall, OpenRequest,
       Spawn, Check, CheckFails, Window, Submit, CountSubmitted, Drain, Stop, Join, CloseRequest,
       DestroyContext, CloseLeft, CloseNotification, ThreadStep, LoopHead, Poll, ReadEventFd,
       GetEvents, Inspect, Tally, KernelStep, Complete, Signal, Fault, Expire, CallFails,
       SubmitAgain, CloseFails, CleanupFails, ThreadFails, CompleteBadly, Repeat, kernel, vars
  <2> QED BY <2>1, <2>2
<1> QED BY <1>1, <1>2, <1>3, <1>4, QueuesKeepType, CountStays

LEMMA CountKeeps ==
  ASSUME IInv, Next
  PROVE  CountInv'
<1>0. submitted' \in 0 .. Count
  BY TypeKeeps, Zenon DEF TypeOK
<1>8. pc' = "submit" => Accepted' = submitted'
  <2>1. submitted' \in Nat
    BY <1>0, CountAssumption
  <2>2. ASSUME NEW n \in Nat, NEW p, p = "submit"
        PROVE  n + (IF p = "count" THEN 1 ELSE 0) = n
    BY <2>2
  <2>3. Accepted' = submitted' + (IF pc' = "count" THEN 1 ELSE 0)
    BY Zenon DEF Accepted
  <2> QED BY <2>1, <2>2, <2>3
<1> USE DEF IInv, TypeOK, CountInv
<1>1. completed' = Cardinality(done') /\ completed <= completed' /\ completed' \in 0 .. Count
  BY CountStays
<1>2. Accepted' - completed' <= Depth
  <2>1. CASE pc = "submit" /\ pc' = "count"
    <3>1. Accepted = submitted /\ Accepted' = Accepted + 1 /\ submitted - completed < Depth
      BY <2>1, AcceptedStays DEF Accepted
    <3> QED BY <1>1, <3>1, DepthAssumption
  <2>2. CASE ~(pc = "submit" /\ pc' = "count")
    BY <1>1, <2>2, AcceptedStays, DepthAssumption
  <2> QED BY <2>1, <2>2
<1>3. pc' = "submit" => submitted' - completed' < Depth
  <2> SUFFICES ASSUME pc' = "submit"
               PROVE  submitted' - completed' < Depth
    OBVIOUS
  <2>1. Accepted = submitted /\ submitted' = submitted
    <3>1. submitted' \in Nat /\ submitted \in Nat
      BY <1>0, CountAssumption
    <3>2. pc \in {"submit", "window"}
      BY Arrives
    <3>3. Accepted' = Accepted
      BY AcceptedStays
    <3>4. pc # "count" /\ Accepted = submitted
      BY <3>1, <3>2 DEF Accepted
    <3>5. Accepted' = submitted'
      BY <1>8
    <3> QED BY <3>3, <3>4, <3>5
  <2>2. submitted - completed < Depth
    BY Arrives, DepthAssumption DEF WindowFull
  <2> QED BY <1>1, <2>1, <2>2, DepthAssumption
<1> QED BY <1>1, <1>2, <1>3

LEMMA PassKeeps ==
  ASSUME IInv, Next
  PROVE  PassInv'
<1> USE DEF IInv, TypeOK, PassInv
<1>1. pc' = "final" => completed' = Count
  BY Arrives, CountStays, CountAssumption
<1>2. failed => failed'
  BY DEF Next, MainStep, IoSetup, EventFd, EpollCreate, EpollCtl, SetupCall, OpenRequest,
     Spawn, Check, CheckFails, Window, Submit, CountSubmitted, Drain, Stop, Join, CloseRequest,
     DestroyContext, CloseLeft, CloseNotification, ThreadStep, LoopHead, Poll, ReadEventFd,
     GetEvents, Inspect, FailedAfter, Tally, KernelStep, Complete, Signal, Fault, Expire, CallFails,
     SubmitAgain, CloseFails, CleanupFails, ThreadFails, CompleteBadly, Repeat, atomics, vars
<1>3. bad' = bad \/ \E r \in flight : bad' = bad \cup {r} /\ UNCHANGED <<thread, failed>>
  BY DEF Next, MainStep, IoSetup, EventFd, EpollCreate, EpollCtl, SetupCall, OpenRequest,
     Spawn, Check, CheckFails, Window, Submit, CountSubmitted, Drain, Stop, Join, CloseRequest,
     DestroyContext, CloseLeft, CloseNotification, ThreadStep, LoopHead, Poll, ReadEventFd,
     GetEvents, Inspect, Tally, KernelStep, Complete, Signal, Fault, Expire, CallFails,
     SubmitAgain, CloseFails, CleanupFails, ThreadFails, CompleteBadly, Repeat, kernel, atomics, vars
<1>4. pc' \in {"stop", "join", "closing"} \/ result' = "pass" =>
        done' = Request /\ bad' = {} /\ flight' = {}
  <2> SUFFICES ASSUME pc' \in {"stop", "join", "closing"} \/ result' = "pass"
               PROVE  done' = Request /\ bad' = {} /\ flight' = {}
    OBVIOUS
  <2>1. done = Request /\ bad = {} /\ flight = {}
    <3>1. CASE pc = "final" /\ ~failed
      <4>1. done = Request /\ flight = {}
        BY <3>1, AllCounted
      <4> QED BY <3>1, <4>1
    <3> QED BY <3>1, Arrives
  <2>2. ~Submit
    BY Arrives DEF Submit, Goto, Dtor
  <2> QED BY <2>1, <2>2, <1>3, CountStays, PastGrows DEF Complete
<1>5. result' = "pass" => pc' \in Dtor \cup {"done"}
  BY Arrives
<1>6. bad' \cap done' # {} => failed'
  <2>1. CASE Tally
    <3>1. bad' = bad /\ failed' = failed /\ done' = done \cup {Head(batch)} /\ tpc = "tally"
      BY <2>1 DEF Tally, kernel
    <3> QED BY <3>1
  <2>2. CASE ~Tally
    <3>1. done' = done
      BY <2>2, CountStays
    <3>2. flight \cap done = {}
      BY DEF RequestInv, Past
    <3> QED BY <1>2, <1>3, <3>1, <3>2
  <2> QED BY <2>1, <2>2
<1>7. (tpc' = "tally" /\ Head(batch') \in bad') => failed'
  <2>1. CASE Inspect
    BY <2>1 DEF Inspect, FailedAfter, ThreadGoto, thread, kernel
  <2>2. CASE bad' # bad
    <3>1. tpc = "tally" => Head(batch) \notin flight
      BY TailEvent DEF ThreadInv, RequestInv, Past
    <3> QED BY <1>3, <2>2, <3>1 DEF thread
  <2>3. ASSUME bad' = bad, tpc' = "tally", ~Inspect
        PROVE  tpc = "tally" /\ batch' = batch
    BY <2>3 DEF Next, MainStep, IoSetup, EventFd, EpollCreate, EpollCtl, SetupCall, OpenRequest,
       Spawn, Check, CheckFails, Window, Submit, CountSubmitted, Drain, Stop, Join, CloseRequest,
       DestroyContext, CloseLeft, CloseNotification, ThreadStep, LoopHead, Poll, ReadEventFd,
       GetEvents, Tally, ThreadGoto, KernelStep, Complete, Signal, Fault, Expire, CallFails,
       SubmitAgain, CloseFails, CleanupFails, ThreadFails, CompleteBadly, Repeat, thread, vars
  <2> QED BY <1>2, <2>1, <2>2, <2>3
<1> QED BY <1>1, <1>4, <1>5, <1>6, <1>7

LEMMA WakeKeeps ==
  ASSUME IInv, Next
  PROVE  WakeInv'
<1> USE DEF IInv, TypeOK, WakeInv, Polling, Reaping
<1>0. ASSUME UNCHANGED <<tpc, got, ring, ticks, unsignalled>>
      PROVE  WakeInv'
  BY <1>0
<1>1. CASE MainStep
  <2>1. CASE Spawn
    BY <2>1 DEF Spawn, RequestInv, Setup, kernel
  <2>2. CASE DestroyContext
    BY <2>2 DEF DestroyContext
  <2> QED BY <1>0, <1>1, <2>1, <2>2 DEF MainStep, IoSetup, EventFd, EpollCreate, EpollCtl, SetupCall,
     OpenRequest, Check, CheckFails, Window, Submit, CountSubmitted, Drain, Stop, Join, CloseRequest,
     CloseLeft, CloseNotification, thread, kernel
<1>2. CASE ThreadStep
  <2>1. CASE LoopHead \/ Poll \/ ReadEventFd
    BY <2>1 DEF LoopHead, Poll, ReadEventFd, ThreadGoto, kernel
  <2>2. CASE GetEvents
    <3>1. Taken \in 0 .. Batch /\ (Taken # Batch => SubSeq(ring, Taken + 1, Len(ring)) = <<>>)
      BY TakeEvents DEF RequestInv
    <3>2. got' = Taken /\ ring' = SubSeq(ring, Taken + 1, Len(ring))
          /\ ((tpc' = "loop" /\ Taken = 0) \/ tpc' = "inspect")
      BY <2>2, <3>1 DEF GetEvents, Taken, ThreadGoto
    <3> QED BY <3>1, <3>2, BatchAssumption
  <2>3. CASE Inspect
    BY <2>3 DEF Inspect, ThreadGoto, kernel
  <2>4. CASE Tally
    BY <2>4 DEF Tally, MoreEvents, ThreadGoto, kernel
  <2> QED BY <1>2, <2>1, <2>2, <2>3, <2>4 DEF ThreadStep
<1>3. CASE KernelStep
  BY <1>3 DEF KernelStep, Complete, Signal, thread
<1>4. CASE Fault
  <2>1. CASE ThreadFails
    BY <2>1 DEF ThreadFails, ThreadGoto, kernel
  <2>2. ASSUME NEW r \in Request, CompleteBadly(r) \/ Repeat(r)
        PROVE  WakeInv'
    BY <2>2 DEF CompleteBadly, Complete, Repeat, thread
  <2> QED BY <1>0, <1>4, <2>1, <2>2 DEF Fault, Expire, CallFails, SubmitAgain, CloseFails,
     CleanupFails, thread, kernel
<1> QED BY <1>0, <1>1, <1>2, <1>3, <1>4 DEF Next, vars, thread, kernel

-------------------------------------------------------------------------------
LEMMA InvInit == Init => IInv
<1> SUFFICES ASSUME Init PROVE IInv
  OBVIOUS
<1> USE CountAssumption, DepthAssumption, BatchAssumption, MaxFaultsAssumption DEF Init
<1>1. TypeOK
  <2>1. Count \in Nat /\ 0 \in 0 .. Count /\ 0 \in 0 .. Batch /\ 0 \in 0 .. MaxFaults
    OBVIOUS
  <2>2. <<>> \in Seq(Request)
    BY EmptySeq
  <2> QED BY <2>1, <2>2 DEF TypeOK, Setup
<1>2. OpenInv /\ ThreadInv /\ PassInv /\ WakeInv
  BY DEF OpenInv, ThreadInv, PassInv, WakeInv, Setup, Running, Closing, Dtor, Polling, Reaping
<1>3. FdsInv
  BY DEF FdsInv, Setup, Running
<1>4. RequestInv
  BY EmptySeq DEF RequestInv, Setup, AllIn, Past
<1>5. CountInv
  BY FS_EmptySet DEF CountInv, Accepted
<1> QED BY <1>1, <1>2, <1>3, <1>4, <1>5 DEF IInv

LEMMA InvNext == IInv /\ [Next]_vars => IInv'
<1> SUFFICES ASSUME IInv, [Next]_vars PROVE IInv'
  OBVIOUS
<1>1. CASE Next
  BY <1>1, TypeKeeps, OpenKeeps, FdsKeeps, ThreadKeeps, RequestKeeps, CountKeeps, PassKeeps,
     WakeKeeps DEF IInv
<1>2. CASE UNCHANGED vars
  <2>1. Accepted' = Accepted /\ Past' = Past
    BY <1>2 DEF Accepted, Past, vars, main, kernel
  <2>2. TypeOK' /\ OpenInv' /\ ThreadInv' /\ PassInv' /\ WakeInv'
    BY <1>2 DEF IInv, TypeOK, OpenInv, ThreadInv, PassInv, WakeInv, vars, main, files, thread,
       atomics, kernel
  <2>3. FdsInv'
    BY <1>2 DEF IInv, FdsInv, ClosedBefore, vars, main, files
  <2>4. RequestInv' /\ CountInv'
    BY <1>2, <2>1 DEF IInv, RequestInv, CountInv, AllIn, vars, main, files, thread, atomics, kernel
  <2> QED BY <2>2, <2>3, <2>4 DEF IInv
<1> QED BY <1>1, <1>2

\* Both threads and the kernel keep the invariant, whatever fails.
THEOREM Invariance == Spec => []IInv
BY InvInit, InvNext, PTL DEF Spec

\* cache2_hal_aio.cc 181: requests, descriptors and memory outlive io_destroy,
\* on every way out of Run.
THEOREM RequestsProtected == Spec => []InFlightProtected
<1>1. IInv => InFlightProtected
  BY DEF IInv, TypeOK, RequestInv, InFlightProtected, Running
<1> QED BY <1>1, Invariance, PTL

\* cache2_hal_aio.cc 194-204: the thread is joined before anything it uses goes.
THEOREM ThreadIsSafe == Spec => []ThreadSafe
<1>1. IInv => ThreadSafe
  BY DEF IInv, ThreadInv, ThreadSafe, Running, Setup
<1> QED BY <1>1, Invariance, PTL

\* cache2_hal_aio.cc 284-288, 331-336: the thread notes a bad result before it
\* counts the request, and Run looks at failed_ after completed_.
THEOREM PassIsEarned == Spec => []PassMeansAllComplete
<1>1. IInv => PassMeansAllComplete
  BY DEF IInv, PassInv, PassMeansAllComplete
<1> QED BY <1>1, Invariance, PTL

\* cache2_hal_aio.cc 311: what is in flight or not yet counted fits the context.
THEOREM WindowHolds == Spec => []WindowRespected
<1>1. IInv => WindowRespected
  <2> SUFFICES ASSUME IInv PROVE WindowRespected
    OBVIOUS
  <2>1. completed <= Accepted /\ Accepted \in Nat
    <3>1. Accepted \in Nat
      BY CountAssumption DEF Accepted, IInv, TypeOK
    <3>2. IsFiniteSet(1 .. Accepted) /\ Cardinality(1 .. Accepted) = Accepted
      BY <3>1, FS_Interval
    <3>3. done \subseteq 1 .. Accepted
      BY DEF IInv, RequestInv, Past
    <3> QED BY <3>1, <3>2, <3>3, FS_Subset DEF IInv, CountInv
  <2>2. pc = "window" => completed <= submitted
    BY <2>1, CountAssumption DEF Accepted, IInv, TypeOK
  <2> QED BY <2>2 DEF IInv, CountInv, WindowRespected
<1> QED BY <1>1, Invariance, PTL

\* cache2_hal_aio.cc 244-291: the counter is read before the ring, and a full
\* batch makes the thread look again.
THEOREM NobodySleepsOnEvents == Spec => []NoLostWakeup
<1>1. IInv => NoLostWakeup
  BY DEF IInv, TypeOK, WakeInv, NoLostWakeup
<1> QED BY <1>1, Invariance, PTL

\* cache2_hal_aio.cc 188-206, 337-347: the closing loop and the destructor share
\* the descriptors without overlap or gap.
THEOREM EachClosedOnce == Spec => []ClosedOnce
<1>1. IInv => ClosedOnce
  <2> SUFFICES ASSUME IInv PROVE ClosedOnce
    OBVIOUS
  <2>1. \A r \in Request : closed[r] + (IF r \in fds THEN 1 ELSE 0) <= 1
    BY DEF IInv, FdsInv
  <2>2. pc = "done" => fds = {} /\ open = {}
    BY DEF IInv, TypeOK, FdsInv, OpenInv
  <2> QED BY <2>1, <2>2 DEF ClosedOnce
<1> QED BY <1>1, Invariance, PTL
===============================================================================
