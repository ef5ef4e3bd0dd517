----------------------------- MODULE MultiShareInv -----------------------------
(***************************************************************************)
(* The inductive invariant behind ImplementsLockstep and PhaseAgreement.   *)
(***************************************************************************)
EXTENDS MultiShare

\* Where a worker's program counter may be, by what it has done with its socket.
BeforeToken == {"absent", "init", "device", "reserve", "create", "export"} \cup Forking
Importing == {"receive", "map"}

\* The phases and the round loop of a worker follow its barrier calls.
WorkerInv(r) ==
  /\ phase[r] = "import" => returned[r] = 0
  /\ phase[r] = "cpu" => returned[r] = 1
  /\ phase[r] = "write" => returned[r] = 2 + 2 * round[r]
  /\ phase[r] = "read" => returned[r] = 3 + 2 * round[r]
  /\ phase[r] = "free" => returned[r] = 2 + 2 * Rounds
  /\ phase[r] = "unmap" => returned[r] = 3 + 2 * Rounds
  /\ phase[r] = "final" => returned[r] = 4 + 2 * Rounds
  /\ phase[r] \in {"import", "cpu"} => round[r] = 0
  /\ phase[r] \in {"write", "read"} => round[r] < Rounds
  /\ phase[r] \in {"free", "unmap", "final"} => round[r] = Rounds
  /\ pc[r] \in Trying => phase[r] # "final"
  /\ pc[r] \in BeforeToken \cup (Trying \ {"wait"}) => entered[r] = returned[r]
  /\ pc[r] = "wait" => entered[r] = returned[r] + 1
  /\ pc[r] \in BeforeToken \cup Importing => phase[r] = "import"
  /\ pc[r] \in {"cpu", "aio"} => phase[r] = "cpu"
  /\ pc[r] \in {"hbm", "fill", "filling"} => phase[r] = "write"
  /\ pc[r] = "read" => phase[r] = "read"
  /\ pc[r] = "freehbm" => phase[r] = "free"
  /\ pc[r] = "unmap" => phase[r] = "unmap"
  /\ returned[r] <= entered[r] /\ entered[r] <= returned[r] + 1

\* A barrier word on its way to a worker is alone in its channel, and it was
\* sent after every worker had entered that barrier.
ReleaseInv(r) ==
  /\ down[r] = <<Sync>> \/ down[r] \in Seq(Rank)
  /\ down[r] = <<Sync>> => \A s \in Rank : returned[r] < entered[s]

\* The coordinator has taken g barrier words from worker s and sent it l.
Exchanged(s, g, l) ==
  /\ entered[s] = IF up[s] = <<Sync>> THEN g + 1 ELSE g
  /\ returned[s] = IF down[s] = <<Sync>> THEN l - 1 ELSE l

Bit(b) == IF b THEN 1 ELSE 0
Starting == {"fork", "tokens", "bcast"}
Serving == Starting \cup {"gather", "release"}

\* Tokens the coordinator has sent to r, and tokens r has taken.
TokensSent(r) ==
  IF cpc \in {"fork", "tokens"} THEN 0
  ELSE IF cpc # "bcast" \/ r < cidx THEN N
  ELSE IF r = cidx THEN cword ELSE 0
TokensTaken(r) ==
  IF pc[r] \in BeforeToken THEN 0
  ELSE IF pc[r] = "receive" THEN idx[r]
  ELSE IF pc[r] = "map" THEN idx[r] + 1 ELSE N

\* The coordinator's own loops.
CoordLoop ==
  /\ cpc # "fork" => cidx < N
  /\ cword < N
  /\ cpc \in {"gather", "release"} => cphase < Barriers
  /\ cpc \in Starting => cphase = 0
  /\ cpc \in {"fork", "tokens"} => cword = 0
  /\ cpc \in {"bcast", "gather", "release"} => Len(tokens) = N
  /\ cpc = "tokens" => Len(tokens) = cidx
  /\ cpc = "fork" => tokens = <<>>
  /\ tokens \in Seq(Rank)

\* What is on the socket of r, by how far both ends have come.
SocketInv(r) ==
  /\ up[r] \in {<<>>, <<r>>, <<Sync>>}
  /\ up[r] = <<r>> => cpc \in {"fork", "tokens"} /\ pc[r] \notin BeforeToken
  /\ cpc = "tokens" /\ r < cidx => up[r] = <<>> /\ pc[r] \notin BeforeToken
  /\ cpc \in {"bcast", "gather", "release"} => pc[r] \notin BeforeToken
  /\ cpc = "fork" /\ cidx <= r => pc[r] = "absent"
  /\ pc[r] = "absent" => cpc = "fork" /\ cidx <= r
  /\ pc[r] \in BeforeToken => up[r] = <<>>
  /\ entered[r] > 0 => TokensSent(r) = N /\ down[r] \in {<<>>, <<Sync>>}
  /\ pc[r] \in BeforeToken \cup Trying /\ entered[r] = 0 =>
       TokensTaken(r) + Len(down[r]) = TokensSent(r)
  /\ Exchanged(r, cphase + Bit(cpc = "release" \/ (cpc = "gather" /\ r < cidx)),
                  cphase + Bit(cpc = "release" /\ r < cidx))

\* While the coordinator serves the workers.
CoordInv == cpc \in Serving => CoordLoop /\ \A r \in Rank : SocketInv(r)

\* handle[r][r] is the token an owner exports.
OwnHandle(r) == pc[r] = "export" => handle[r][r] = r

\* Nobody has returned from a barrier that somebody has not entered.
InStep == \A r, s \in Rank : returned[r] <= entered[s]

IInv ==
  /\ TypeOK
  /\ \A r \in Rank : WorkerInv(r) /\ ReleaseInv(r) /\ OwnHandle(r)
  /\ InStep
  /\ CoordInv

-----------------------------------------------------------------------------
(***************************************************************************)
(* What the workers hold, and what they have written: the invariant behind *)
(* the properties about slices, contents, verdicts and clean-up.  It rests *)
(* on IInv.                                                                *)
(***************************************************************************)
\* Tokens are collected in rank order, and the tokens on their way to a worker
\* are those it has still to take, in that order.
TokenOrder == cpc \in Serving => \A i \in 1 .. Len(tokens) : tokens[i] = i - 1
InTransit(r) ==
  pc[r] \in BeforeToken \cup Trying /\ entered[r] = 0 =>
    \A i \in 1 .. Len(down[r]) : down[r][i] = TokensTaken(r) + i - 1

\* handles[] and mapped[] of a worker, by how far it has come.
Empty(r, o) == handle[r][o] = NoAlloc /\ slice[r][o] = NoAlloc
OwnsBlock == Trying \ {"init", "device", "reserve", "create"}
PastImport == Trying \ (BeforeToken \cup Importing)
AtLoopStart == PastImport \ {"read", "unmap"}
SlotInv(r) ==
  /\ \A o \in Rank : handle[r][o] \in {o, NoAlloc} /\ slice[r][o] \in {o, NoAlloc}
  /\ pc[r] \in OwnsBlock => handle[r][r] = r
  /\ pc[r] = "map" => handle[r][idx[r]] = idx[r]
  /\ pc[r] \in BeforeToken => \A o \in Rank : slice[r][o] = NoAlloc
  /\ pc[r] \in Importing =>
       \A o \in Rank : slice[r][o] = IF o < idx[r] THEN o ELSE NoAlloc
  /\ pc[r] \in PastImport /\ phase[r] # "unmap" => \A o \in Rank : slice[r][o] = o
  /\ pc[r] = "unmap" => \A o \in Rank : o < idx[r] => slice[r][o] = NoAlloc
  /\ phase[r] = "unmap" /\ pc[r] \in {"arrive", "wait"} =>
       \A o \in Rank : slice[r][o] = NoAlloc
  /\ phase[r] = "final" => \A o \in Rank : slice[r][o] = NoAlloc
  /\ pc[r] \in AtLoopStart => idx[r] = 0

\* From the owner's barrier after its write in round k until it returns from the
\* barrier after the reads, its allocation holds the seed of round k.
MemInv(r) ==
  /\ pc[r] = "arrive" /\ phase[r] = "write" => mem[r] = Seed(round[r], r)
  /\ \A k \in 0 .. Rounds-1 :
       3 + 2 * k <= entered[r] /\ returned[r] <= 3 + 2 * k => mem[r] = Seed(k, r)

\* Only a worker that went through every phase leaves with result 0, and as long
\* as no clean-up call has failed everything it has passed is given back.
CleanInv(r) ==
  /\ pc[r] \in Leaving \cup {"exited"} /\ result[r] = 0 => phase[r] = "final"
  /\ ~cleanupFailed[r] =>
       /\ pc[r] = "cleanup" => \A o \in Rank : o < idx[r] => Empty(r, o)
       /\ pc[r] \in {"cleanlocal", "close", "return"} => \A o \in Rank : Empty(r, o)
       /\ pc[r] \in {"close", "return"} => held[r] = {}
  /\ pc[r] = "exited" /\ result[r] = 0 =>
       held[r] = {} /\ \A o \in Rank : Empty(r, o)

\* The coordinator's verdict is that of the exit codes.
VerdictInv == cpc = "done" /\ cresult = 0 => \A r \in Rank : Succeeded(r)

\* A run without a fault: nobody fails, the sockets stay open until every worker
\* has been sent its last word, and nothing is imported before it exists.
QuietInv ==
  faults = 0 =>
    /\ cpc \notin {"error", "kill", "reap", "dead"}
    /\ \A r \in Rank : result[r] = 0 /\ pc[r] # "killed" /\ ~sig[r] /\ ~cleanupFailed[r]
    /\ cpc \notin {"wait", "done"} => open
    /\ cpc \in {"close", "wait", "done"} =>
         \A r \in Rank : entered[r] = Barriers /\ (returned[r] = Barriers \/ down[r] = <<Sync>>)
    /\ \A r, o \in Rank : slice[r][o] # NoAlloc => pc[o] \notin BeforeToken

WorkerData(r) == SlotInv(r) /\ MemInv(r) /\ CleanInv(r)

DataInv ==
  /\ TokenOrder
  /\ \A r \in Rank : InTransit(r) /\ WorkerData(r)
  /\ VerdictInv
  /\ NoOrphan
  /\ QuietInv

\* The two together are inductive: words, barrier counts, tokens, contents and
\* what is given back are in line with each other, whatever fails.
FullInv == IInv /\ DataInv
=============================================================================
