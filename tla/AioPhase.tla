------------------------------- MODULE AioPhase -------------------------------
(***************************************************************************)
(* class AioPhase of cache2_hal_aio.cc: the main thread submits Count      *)
(* requests through a window of Depth, a completion thread reaps them      *)
(* through eventfd, epoll and io_getevents, and the destructor tears both  *)
(* down whatever has failed.  The kernel's side of Linux AIO is external:  *)
(* a submitted request completes at any time, in any order, first by an    *)
(* event in the ring of the context and then by a tick of the eventfd.     *)
(***************************************************************************)
EXTENDS Integers, Sequences, FiniteSets

CONSTANTS
  Count,      \* opt.blocks * opt.shards (line 208)
  Depth,      \* opt.depth
  Batch,      \* events taken by one io_getevents (128, line 255)
  MaxFaults   \* bound on injected faults

ASSUME CountAssumption == Count \in Nat \ {0}
ASSUME DepthAssumption == Depth \in Nat \ {0}
ASSUME BatchAssumption == Batch \in Nat \ {0}
ASSUME MaxFaultsAssumption == MaxFaults \in Nat

Request == 1 .. Count

VARIABLES
  pc,             \* main thread: the step of Run, then of the destructor
  submitted,      \* requests counted at line 329
  result,         \* how Run ended
  expired,        \* Clock::now() >= deadline
  open,           \* ctx_, eventFd_, epollFd_ that are live
  fds, closed,    \* requests with req.fd >= 0; close() calls made per request
  cleanupFailed,
  tpc, batch, got, done,     \* completion thread: step, events[], n, req.done
  stop, failed, completed,   \* the atomics
  flight, ring, unsignalled, ticks, bad,   \* kernel
  faults

main == <<pc, submitted, result>>
files == <<open, fds, closed, cleanupFailed>>
thread == <<tpc, batch, got, done>>
atomics == <<stop, failed, completed>>
kernel == <<flight, ring, unsignalled, ticks, bad>>
vars == <<main, expired, files, thread, atomics, kernel, faults>>

Setup == {"ctx", "event", "epoll", "ctl", "open", "spawn"}
Running == {"check", "window", "submit", "count", "drain", "draincheck", "final", "stop"}
Closing == {"join", "closing"}
Dtor == {"~stop", "~join", "~ctx", "~fds", "~epoll", "~event"}
Polling == {"loop", "poll", "read"}
Reaping == {"get", "inspect", "tally"}

TypeOK ==
  /\ pc \in Setup \cup Running \cup Closing \cup Dtor \cup {"done"}
  /\ submitted \in 0 .. Count
  /\ result \in {"none", "pass", "thrown"}
  /\ expired \in BOOLEAN /\ cleanupFailed \in BOOLEAN
  /\ open \in SUBSET {"ctx", "event", "epoll"}
  /\ fds \in SUBSET Request /\ closed \in [Request -> Nat]
  /\ tpc \in {"none", "exit"} \cup Polling \cup Reaping
  /\ batch \in Seq(Request) /\ got \in 0 .. Batch /\ done \in SUBSET Request
  /\ stop \in BOOLEAN /\ failed \in BOOLEAN /\ completed \in 0 .. Count
  /\ flight \in SUBSET Request /\ ring \in Seq(Request)
  /\ unsignalled \in Nat /\ ticks \in Nat /\ bad \in SUBSET Request
  /\ faults \in 0 .. MaxFaults

Init ==
  /\ pc = "ctx" /\ submitted = 0 /\ result = "none" /\ expired = FALSE
  /\ open = {} /\ fds = {} /\ closed = [r \in Request |-> 0] /\ cleanupFailed = FALSE
  /\ tpc = "none" /\ batch = <<>> /\ got = 0 /\ done = {}
  /\ stop = FALSE /\ failed = FALSE /\ completed = 0
  /\ flight = {} /\ ring = <<>> /\ unsignalled = 0 /\ ticks = 0 /\ bad = {}
  /\ faults = 0

-----------------------------------------------------------------------------
\* Main thread: Run.
Goto(step) == pc' = step

\* An exception leaves Run: the destructor of the phase begins.
Throw == Goto("~stop") /\ result' = "thrown"

SetupCall(step, what, next) ==
  /\ pc = step
  /\ open' = open \cup what
  /\ Goto(next)
  /\ UNCHANGED <<submitted, result, expired, fds, closed, cleanupFailed, thread, atomics,
                 kernel, faults>>

IoSetup == SetupCall("ctx", {"ctx"}, "event")
EventFd == SetupCall("event", {"event"}, "epoll")
EpollCreate == SetupCall("epoll", {"epoll"}, "ctl")
EpollCtl == SetupCall("ctl", {}, "open")

OpenRequest ==
  /\ pc = "open"
  /\ LET r == Cardinality(fds) + 1
     IN fds' = fds \cup {r} /\ Goto(IF r < Count THEN "open" ELSE "spawn")
  /\ UNCHANGED <<submitted, result, expired, open, closed, cleanupFailed, thread, atomics,
                 kernel, faults>>

Spawn ==
  /\ pc = "spawn"
  /\ tpc' = "loop"
  /\ Goto("check")
  /\ UNCHANGED <<submitted, result, expired, files, batch, got, done, atomics, kernel, faults>>

NoticeDeadline == expired   \* mutant: check() does not look at failed_
CheckThrows == failed \/ expired

\* The lambda check, at its three call sites.
Check ==
  /\ \/ pc = "check" /\ ~CheckThrows /\ Goto("window")
     \/ pc = "draincheck" /\ ~CheckThrows /\ Goto("drain")
     \/ pc = "final" /\ ~CheckThrows /\ Goto("stop")
  /\ UNCHANGED <<submitted, result, expired, files, thread, atomics, kernel, faults>>

CheckFails ==
  /\ pc \in {"check", "draincheck", "final"}
  /\ CheckThrows
  /\ Throw
  /\ UNCHANGED <<submitted, expired, files, thread, atomics, kernel, faults>>

WindowPlusOne == submitted - completed > Depth   \* mutant: off by one
WindowFull == submitted - completed >= Depth

Window ==
  /\ pc = "window"
  /\ Goto(IF WindowFull THEN "check" ELSE "submit")
  /\ UNCHANGED <<submitted, result, expired, files, thread, atomics, kernel, faults>>

\* io_submit returns 1: from here on the kernel owns the request.
Submit ==
  /\ pc = "submit"
  /\ flight' = flight \cup {submitted + 1}
  /\ Goto("count")
  /\ UNCHANGED <<submitted, result, expired, files, thread, atomics, ring, unsignalled, ticks,
                 bad, faults>>

CountSubmitted ==
  /\ pc = "count"
  /\ submitted' = submitted + 1
  /\ Goto(IF submitted + 1 < Count THEN "check" ELSE "drain")
  /\ UNCHANGED <<result, expired, files, thread, atomics, kernel, faults>>

Drain ==
  /\ pc = "drain"
  /\ Goto(IF completed < Count THEN "draincheck" ELSE "final")
  /\ UNCHANGED <<submitted, result, expired, files, thread, atomics, kernel, faults>>

Stop ==
  /\ \/ pc = "stop" /\ Goto("join")
     \/ pc = "~stop" /\ Goto("~join")
  /\ stop' = TRUE
  /\ UNCHANGED <<submitted, result, expired, files, thread, failed, completed, kernel, faults>>

NotJoined == TRUE   \* mutant: the thread is not joined
ThreadGone == tpc \in {"none", "exit"}

SkipDestroy == "~fds"   \* mutant: the context is not destroyed
AfterJoin == "~ctx"

Join ==
  /\ \/ pc = "join" /\ Goto("closing")
     \/ pc = "~join" /\ Goto(AfterJoin)
  /\ ThreadGone
  /\ UNCHANGED <<submitted, result, expired, files, thread, atomics, kernel, faults>>

KeptFds(r) == fds   \* mutant: req.fd keeps its value
RemainingFds(r) == fds \ {r}

\* The loop that closes the files of a phase that passed, in request order.
CloseRequest ==
  /\ pc = "closing"
  /\ LET r == CHOOSE q \in Request : closed[q] = 0 /\ \A p \in 1 .. q-1 : closed[p] > 0
     IN /\ closed' = [closed EXCEPT ![r] = @ + 1]
        /\ fds' = RemainingFds(r)
        /\ IF r = Count THEN Goto("~stop") /\ result' = "pass"
                        ELSE UNCHANGED <<pc, result>>
  /\ UNCHANGED <<submitted, expired, open, cleanupFailed, thread, atomics, kernel, faults>>

-----------------------------------------------------------------------------
\* Main thread: the destructor.

\* io_destroy blocks until the kernel is done with every request.
DestroyContext ==
  /\ pc = "~ctx"
  /\ "ctx" \in open => flight = {} /\ unsignalled = 0
  /\ open' = open \ {"ctx"}
  /\ ring' = <<>>
  /\ Goto("~fds")
  /\ UNCHANGED <<submitted, result, expired, fds, closed, cleanupFailed, thread, atomics,
                 flight, unsignalled, ticks, bad, faults>>

CloseLeft ==
  /\ pc = "~fds"
  /\ closed' = [r \in Request |-> IF r \in fds THEN closed[r] + 1 ELSE closed[r]]
  /\ fds' = {}
  /\ Goto("~epoll")
  /\ UNCHANGED <<submitted, result, expired, open, cleanupFailed, thread, atomics, kernel, faults>>

CloseNotification ==
  /\ \/ pc = "~epoll" /\ open' = open \ {"epoll"} /\ Goto("~event")
     \/ pc = "~event" /\ open' = open \ {"event"} /\ Goto("done")
  /\ UNCHANGED <<submitted, result, expired, fds, closed, cleanupFailed, thread, atomics,
                 kernel, faults>>

-----------------------------------------------------------------------------
\* Completion thread.
ThreadGoto(step) == tpc' = step

LoopHead ==
  /\ tpc = "loop"
  /\ ThreadGoto(IF stop THEN "exit" ELSE "poll")
  /\ UNCHANGED <<main, expired, files, batch, got, done, atomics, kernel, faults>>

\* epoll_wait returns at once when the eventfd is readable, else after 10 ms.
Poll ==
  /\ tpc = "poll"
  /\ ThreadGoto(IF ticks > 0 THEN "read" ELSE "loop")
  /\ UNCHANGED <<main, expired, files, batch, got, done, atomics, kernel, faults>>

ReadEventFd ==
  /\ tpc = "read"
  /\ ticks' = 0
  /\ ThreadGoto("get")
  /\ UNCHANGED <<main, expired, files, batch, got, done, atomics, flight, ring, unsignalled,
                 bad, faults>>

GetEvents ==
  /\ tpc = "get"
  /\ LET n == IF Len(ring) < Batch THEN Len(ring) ELSE Batch
     IN /\ got' = n
        /\ batch' = SubSeq(ring, 1, n)
        /\ ring' = SubSeq(ring, n + 1, Len(ring))
        /\ ThreadGoto(IF n = 0 THEN "loop" ELSE "inspect")
  /\ UNCHANGED <<main, expired, files, done, atomics, flight, unsignalled, ticks, bad, faults>>

Repeated(r) == r \in done

ResultIgnored(r) == failed   \* mutant: ev.res is not compared
FailedAfter(r) == failed \/ r \in bad

\* One event of the batch: validate it and look at its result ...
Inspect ==
  /\ tpc = "inspect"
  /\ IF Repeated(Head(batch)) THEN failed' = TRUE /\ ThreadGoto("exit")
                              ELSE failed' = FailedAfter(Head(batch)) /\ ThreadGoto("tally")
  /\ UNCHANGED <<main, expired, files, batch, got, done, stop, completed, kernel, faults>>

NeverAgain == FALSE   \* mutant: io_getevents is called once per notification
MoreEvents == got = Batch

\* ... and only then count it.
Tally ==
  /\ tpc = "tally"
  /\ done' = done \cup {Head(batch)}
  /\ completed' = completed + 1
  /\ batch' = Tail(batch)
  /\ ThreadGoto(IF Len(batch) > 1 THEN "inspect" ELSE IF MoreEvents THEN "get" ELSE "loop")
  /\ UNCHANGED <<main, expired, files, got, stop, failed, kernel, faults>>

-----------------------------------------------------------------------------
\* Kernel.
Complete(r) ==
  /\ r \in flight
  /\ flight' = flight \ {r}
  /\ ring' = Append(ring, r)
  /\ unsignalled' = unsignalled + 1
  /\ UNCHANGED <<main, expired, files, thread, atomics, ticks>>

Signal ==
  /\ unsignalled > 0
  /\ unsignalled' = unsignalled - 1
  /\ ticks' = ticks + 1
  /\ UNCHANGED <<main, expired, files, thread, atomics, flight, ring, bad, faults>>

-----------------------------------------------------------------------------
\* Injected faults.
Inject == faults < MaxFaults /\ faults' = faults + 1

\* The deadline passes; it is only computed once the thread runs (line 296).
Expire ==
  /\ pc \in Running /\ ~expired
  /\ Inject
  /\ expired' = TRUE
  /\ UNCHANGED <<main, files, thread, atomics, kernel>>

\* A checked call of Run fails: a set-up call, open, the thread, io_submit.
CallFails ==
  /\ pc \in Setup \cup {"submit"}
  /\ Inject
  /\ Throw
  /\ UNCHANGED <<submitted, expired, files, thread, atomics, kernel>>

\* io_submit returns EAGAIN, EINTR or 0.
SubmitAgain ==
  /\ pc = "submit"
  /\ Inject
  /\ Goto("check")
  /\ UNCHANGED <<submitted, result, expired, files, thread, atomics, kernel>>

\* close() of a request fails after a successful phase: the descriptor is gone.
CloseFails ==
  /\ pc = "closing"
  /\ Inject
  /\ LET r == CHOOSE q \in Request : closed[q] = 0 /\ \A p \in 1 .. q-1 : closed[p] > 0
     IN closed' = [closed EXCEPT ![r] = @ + 1] /\ fds' = RemainingFds(r)
  /\ Throw
  /\ UNCHANGED <<submitted, expired, open, cleanupFailed, thread, atomics, kernel>>

\* A close() of the destructor fails: noted, and the destructor goes on.
CleanupFails ==
  /\ pc \in Dtor \ {"~stop", "~join", "~ctx"} /\ ~cleanupFailed
  /\ Inject
  /\ cleanupFailed' = TRUE
  /\ UNCHANGED <<main, expired, open, fds, closed, thread, atomics, kernel>>

\* epoll_wait, the read of the eventfd or io_getevents fails.
ThreadFails ==
  /\ tpc \in {"poll", "read", "get"}
  /\ Inject
  /\ failed' = TRUE
  /\ ThreadGoto("exit")
  /\ UNCHANGED <<main, expired, files, batch, got, done, stop, completed, kernel>>

\* A request completes with an error or short.
CompleteBadly(r) ==
  /\ Inject
  /\ Complete(r)
  /\ bad' = bad \cup {r}

\* An event is delivered twice.
Repeat(r) ==
  /\ r \in done /\ "ctx" \in open /\ pc \notin Dtor
  /\ Inject
  /\ ring' = Append(ring, r)
  /\ unsignalled' = unsignalled + 1
  /\ UNCHANGED <<main, expired, files, thread, atomics, flight, ticks, bad>>

-----------------------------------------------------------------------------
MainStep ==
  \/ IoSetup \/ EventFd \/ EpollCreate \/ EpollCtl \/ OpenRequest \/ Spawn
  \/ Check \/ CheckFails \/ Window \/ Submit \/ CountSubmitted \/ Drain
  \/ Stop \/ Join \/ CloseRequest
  \/ DestroyContext \/ CloseLeft \/ CloseNotification

ThreadStep == LoopHead \/ Poll \/ ReadEventFd \/ GetEvents \/ Inspect \/ Tally

KernelStep ==
  \/ \E r \in Request : Complete(r) /\ UNCHANGED <<bad, faults>>
  \/ Signal

Fault ==
  \/ Expire \/ CallFails \/ SubmitAgain \/ CloseFails \/ CleanupFails \/ ThreadFails
  \/ \E r \in Request : CompleteBadly(r) \/ Repeat(r)

Terminated == pc = "done" /\ ThreadGone

Next ==
  \/ MainStep \/ ThreadStep \/ KernelStep \/ Fault
  \/ Terminated /\ UNCHANGED vars

Spec == Init /\ [][Next]_vars

\* Both threads are scheduled, and the file system answers.
Fairness ==
  /\ WF_vars(MainStep) /\ WF_vars(ThreadStep)
  /\ \A r \in Request : WF_vars(Complete(r) /\ UNCHANGED <<bad, faults>>)
  /\ WF_vars(Signal)

FairSpec == Spec /\ Fairness

-----------------------------------------------------------------------------
(***************************************************************************)
(* Properties.                                                             *)
(***************************************************************************)

\* "Requests, descriptors and HAL memory must outlive io_destroy, including on
\* failure" (line 181): while the kernel holds a request, its descriptor and the
\* eventfd are open and the phase has not handed the buffer back, whether Run
\* passed, timed out or failed half-way.
InFlightProtected ==
  flight # {} =>
    /\ {"ctx", "event"} \subseteq open /\ flight \subseteq fds
    /\ pc \notin {"~fds", "~epoll", "~event", "done"}

\* The completion thread never touches a context or a descriptor that the main
\* thread has torn down (lines 194-204).
ThreadSafe ==
  tpc \in Polling \cup Reaping =>
    {"ctx", "event", "epoll"} \subseteq open /\ pc \notin Setup \cup {"done"}

\* A phase that passes has seen every request complete in full: the bad result
\* of line 285 cannot be overtaken by the count of line 288.
PassMeansAllComplete ==
  pc \in {"stop", "join", "closing"} \/ result = "pass" =>
    done = Request /\ bad = {} /\ flight = {}

\* The requests the kernel has accepted and the thread has not counted fit the
\* context, although completed_ is read while it grows; and the unsigned
\* difference of line 311 never wraps.
Accepted == submitted + IF pc = "count" THEN 1 ELSE 0
WindowRespected ==
  /\ Accepted - completed <= Depth
  /\ pc = "window" => completed <= submitted

\* A request whose event is in the ring is never forgotten: when the thread goes
\* back to epoll_wait, a tick is there or is about to come.
NoLostWakeup ==
  tpc \in {"loop", "poll"} /\ ticks = 0 /\ unsignalled = 0 => ring = <<>> \/ "ctx" \notin open

\* However the phase ends, every descriptor it opened is closed exactly once.
ClosedOnce ==
  /\ \A r \in Request : closed[r] + (IF r \in fds THEN 1 ELSE 0) <= 1
  /\ pc = "done" => fds = {} /\ open = {}

\* The phase ends, whatever fails.
Termination == <>Terminated
===============================================================================
