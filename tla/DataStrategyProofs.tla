-------------------------- MODULE DataStrategyProofs --------------------------
(***************************************************************************)
(* For any number of ranks and slots, whatever fails and whatever lines    *)
(* are pasted: what DataStrategy's mappings_ says of a process is what the *)
(* driver holds for it, so that Reset() leaves nothing, takes nothing from *)
(* under a mapping, and each slot leads to its rank.  And without a fault  *)
(* or a stray line no rank releases memory that another still has to map.  *)
(***************************************************************************)
EXTENDS DataStrategy, TLAPS

(***************************************************************************)
(* Each process by itself.  While Setup builds mappings_, or main() holds  *)
(* them, Staged says what each entry contains at each step.                 *)
(***************************************************************************)
Unreserved == {"init", "device", "granularity", "reserve"}
Uncreated == Unreserved \cup {"create"}
Unmapped == Uncreated \cup {"map"}
PeerSteps == {"read", "import", "reservepeer", "mappeer"}
Building == {"init", "hold"} \cup SetupSteps

Staged(r, q) ==
  IF q = r
    THEN /\ mappings[r][q].addr <=> pc[r] \notin Unreserved
         /\ mappings[r][q].handle = IF pc[r] \in Uncreated THEN None ELSE r
         /\ mappings[r][q].mapped <=> pc[r] \notin Unmapped
    ELSE /\ mappings[r][q].addr <=> (q < cur[r] \/ (q = cur[r] /\ pc[r] = "mappeer"))
         /\ mappings[r][q].handle =
              IF q < cur[r] \/ (q = cur[r] /\ pc[r] \in {"reservepeer", "mappeer"}) THEN q ELSE None
         /\ mappings[r][q].mapped <=> q < cur[r]

\* What an entry says is held is held, after a failed clean-up too.
Backed(r, q) ==
  /\ mappings[r][q].addr => hal[r][q].va
  /\ mappings[r][q].handle # None => hal[r][q].ref = mappings[r][q].handle
  /\ mappings[r][q].mapped => hal[r][q].view = mappings[r][q].handle

CurInv(r) ==
  /\ pc[r] \in Building \ (PeerSteps \cup {"done", "hold"}) => cur[r] = 0
  /\ pc[r] \in PeerSteps => cur[r] \in Rank \ {r}
  /\ pc[r] \in {"done", "hold"} => cur[r] = N
  /\ pc[r] = "import" => desc[r] = cur[r]
  /\ pc[r] = "hold" => ready[r]

EntriesInv(r) ==
  /\ pc[r] \in Building => \A q \in Rank : Staged(r, q) /\ Backed(r, q)
  /\ pc[r] \in {"failed", "finalize"} => \A q \in Rank : mappings[r][q] = Unset
  /\ \A q \in Rank : mappings[r][q].mapped => mappings[r][q].addr

(***************************************************************************)
(* What the driver holds for an entry is what the entry says, less         *)
(* what the loops of Reset() have given back so far.                       *)
(***************************************************************************)
Released(r, q) ==
  \/ pc[r] = "free"
  \/ pc[r] = "release" /\ (q # r \/ q < cur[r])
  \/ pc[r] = "cancel" /\ q # r /\ q < cur[r]

Unviewed(r, q) ==
  \/ pc[r] \in {"cancel", "release", "free"}
  \/ pc[r] = "unmap" /\ q < cur[r]
  \/ ~mappings[r][q].mapped

Owed(r, q) ==
  /\ hal[r][q].va <=> (mappings[r][q].addr /\ ~(pc[r] = "free" /\ q < cur[r]))
  /\ hal[r][q].ref = IF Released(r, q) THEN None ELSE mappings[r][q].handle
  /\ hal[r][q].view = IF Unviewed(r, q) THEN None ELSE mappings[r][q].handle

LedgerInv(r) ==
  /\ pc[r] \in Gone => \A q \in Rank : hal[r][q] = Nothing
  /\ pc[r] \in Live /\ ~leaked[r] => \A q \in Rank : Owed(r, q)

ProcessInv(r) == CurInv(r) /\ EntriesInv(r) /\ LedgerInv(r)

IInv == TypeOK /\ \A r \in Rank : ProcessInv(r)

(***************************************************************************)
(* The ranks together, when nothing fails and nothing is typed that was    *)
(* not asked for: who has left Setup, and what may be in its input.        *)
(***************************************************************************)
After == ResetSteps \cup {"finalize", "exited"}
Published == PeerSteps \cup {"done", "hold"} \cup After

TogetherInv(r) ==
  /\ ~eof[r]
  /\ printed[r] <=> pc[r] \in Published
  /\ ready[r] <=> pc[r] \in After \cup {"hold"}
  /\ pc[r] \notin {"failed", "killed"}
  /\ pc[r] \in ResetSteps => purpose[r] = "destroy"
  /\ pc[r] \in After => \A q \in Rank : ready[q]
  /\ pc[r] = "hold" /\ stdin[r] # <<>> => \A q \in Rank : ready[q]
  /\ pc[r] = "read" /\ stdin[r] # <<>> => stdin[r] = <<cur[r]>> /\ printed[cur[r]]
  /\ pc[r] \notin {"read", "hold"} \cup After => stdin[r] = <<>>
  /\ pc[r] \in PeerSteps \ {"read"} => printed[cur[r]]

Together == \A r \in Rank : TogetherInv(r)
-------------------------------------------------------------------------------
(***************************************************************************)
(* Typing and frames: an action of rank r changes the state of r only.     *)
(***************************************************************************)
Same(s) ==
  /\ pc'[s] = pc[s] /\ cur'[s] = cur[s] /\ mappings'[s] = mappings[s] /\ desc'[s] = desc[s]
  /\ ready'[s] = ready[s] /\ hal'[s] = hal[s] /\ leaked'[s] = leaked[s]

LEMMA Others ==
  ASSUME NEW s \in Rank, ProcessInv(s), Same(s)
  PROVE  ProcessInv(s)'
BY DEF Same, ProcessInv, CurInv, EntriesInv, LedgerInv, Staged, Backed, Owed, Released, Unviewed

LEMMA Lines == /\ Rank \subseteq Line /\ None \in Line /\ None \notin Rank /\ 0 \in 0 .. N /\ Line = 0 .. N
               /\ Unset \in Mapping /\ Nothing \in Driver
BY NAssumption DEF Rank, Line, None, Unset, Nothing, Mapping, Driver

\* One entry of mappings_, or of the driver's ledger, changes.
LEMMA EntryUpdate ==
  ASSUME TypeOK, NEW r \in Rank, NEW q \in Rank, NEW m \in Mapping,
         mappings' = [mappings EXCEPT ![r][q] = m]
  PROVE  /\ mappings' \in [Rank -> [Rank -> Mapping]]
         /\ \A s \in Rank \ {r} : mappings'[s] = mappings[s]
         /\ \A p \in Rank \ {q} : mappings'[r][p] = mappings[r][p]
         /\ mappings'[r][q] = m
BY DEF TypeOK

LEMMA DriverUpdate ==
  ASSUME TypeOK, NEW r \in Rank, NEW q \in Rank, NEW h \in Driver,
         hal' = [hal EXCEPT ![r][q] = h]
  PROVE  /\ hal' \in [Rank -> [Rank -> Driver]]
         /\ \A s \in Rank \ {r} : hal'[s] = hal[s]
         /\ \A p \in Rank \ {q} : hal'[r][p] = hal[r][p]
         /\ hal'[r][q] = h
BY DEF TypeOK

\* While mappings_ is built or held, the driver owes exactly what it says.
Agrees(m, h) == /\ h.va <=> m.addr
                /\ h.ref = m.handle
                /\ h.view = IF m.mapped THEN m.handle ELSE None

LEMMA Buildings ==
  ASSUME NEW x, x \in Building
  PROVE  x \in Live /\ x \notin Gone \cup ResetSteps \cup {"failed", "finalize"}
BY DEF Building, Live, Gone, SetupSteps, LocalSteps, CrossSteps, ResetSteps

LEMMA OwedWhileBuilding ==
  ASSUME NEW r \in Rank, NEW q \in Rank, pc[r] \in Building
  PROVE  Owed(r, q) <=> Agrees(mappings[r][q], hal[r][q])
<1>1. ~(pc[r] = "free") /\ ~Released(r, q) /\ (Unviewed(r, q) <=> ~mappings[r][q].mapped)
  BY Buildings DEF ResetSteps, Released, Unviewed
<1> QED BY <1>1 DEF Owed, Agrees

LEMMA OwedStillBuilding ==
  ASSUME NEW r \in Rank, NEW q \in Rank, pc'[r] \in Building
  PROVE  Owed(r, q)' <=> Agrees(mappings'[r][q], hal'[r][q])
<1>1. ~(pc'[r] = "free") /\ ~Released(r, q)' /\ (Unviewed(r, q)' <=> ~mappings'[r][q].mapped)
  BY Buildings DEF ResetSteps, Released, Unviewed
<1> QED BY <1>1 DEF Owed, Agrees, None

\* A step that changes no entry keeps what the entries say.
LEMMA StageKept ==
  ASSUME NEW r \in Rank, ProcessInv(r), pc[r] \in Building, pc'[r] \in Building,
         mappings'[r] = mappings[r], hal'[r] = hal[r], leaked'[r] = leaked[r],
         CurInv(r)', \A q \in Rank : Staged(r, q)'
  PROVE  ProcessInv(r)'
<1>1. pc[r] \in Live /\ pc'[r] \notin Gone \cup {"failed", "finalize"}
  BY Buildings
<1>2. EntriesInv(r)'
  BY <1>1 DEF ProcessInv, EntriesInv, Backed
<1>3. LedgerInv(r)'
  BY <1>1, OwedWhileBuilding, OwedStillBuilding DEF ProcessInv, LedgerInv
<1> QED BY <1>2, <1>3 DEF ProcessInv

\* A step that fills in part of one entry, in the program and in the driver.
LEMMA StageFilled ==
  ASSUME NEW r \in Rank, NEW q \in Rank, ProcessInv(r), pc[r] \in Building, pc'[r] \in Building,
         \A p \in Rank \ {q} : mappings'[r][p] = mappings[r][p] /\ hal'[r][p] = hal[r][p],
         leaked'[r] = leaked[r], CurInv(r)', \A p \in Rank : Staged(r, p)', Backed(r, q)',
         mappings'[r][q].mapped => mappings'[r][q].addr,
         ~leaked[r] => Agrees(mappings'[r][q], hal'[r][q])
  PROVE  ProcessInv(r)'
<1>1. pc[r] \in Live /\ pc'[r] \notin Gone \cup {"failed", "finalize"}
  BY Buildings
<1>2. EntriesInv(r)'
  <2>1. \A p \in Rank : Backed(r, p)'
    BY DEF ProcessInv, EntriesInv, Backed
  <2>2. \A p \in Rank : mappings'[r][p].mapped => mappings'[r][p].addr
    BY DEF ProcessInv, EntriesInv
  <2> QED BY <1>1, <2>1, <2>2 DEF EntriesInv
<1>3. \A p \in Rank : ~leaked[r] => Owed(r, p)'
  <2> SUFFICES ASSUME NEW p \in Rank, ~leaked[r] PROVE Agrees(mappings'[r][p], hal'[r][p])
    BY OwedStillBuilding
  <2>1. CASE p = q
    BY <2>1
  <2>2. CASE p # q
    BY <1>1, <2>2, OwedWhileBuilding DEF ProcessInv, LedgerInv
  <2> QED BY <2>1, <2>2
<1>4. LedgerInv(r)'
  BY <1>1, <1>3 DEF LedgerInv
<1> QED BY <1>2, <1>4 DEF ProcessInv
-------------------------------------------------------------------------------
TerminalTypeOK ==
  /\ printed \in [Rank -> BOOLEAN] /\ stdin \in [Rank -> Seq(Line)]
  /\ eof \in [Rank -> BOOLEAN] /\ stray \in 0 .. MaxStray

LEMMA MoveOn ==
  ASSUME IInv, NEW r \in Rank, NEW step \in Building, NEW c \in 0 .. N, NEW d \in Line, NEW y \in BOOLEAN,
         pc[r] \in Building, pc' = [pc EXCEPT ![r] = step], cur' = [cur EXCEPT ![r] = c],
         desc' = [desc EXCEPT ![r] = d], ready' = [ready EXCEPT ![r] = y],
         UNCHANGED <<page, purpose, mappings, result, hal, leaked, faults>>,
         context' \in [Rank -> SUBSET {"acl", "device"}], TerminalTypeOK',
         CurInv(r)', \A q \in Rank : Staged(r, q)'
  PROVE  IInv'
<1> USE DEF IInv
<1>1. TypeOK'
  BY DEF TypeOK, TerminalTypeOK, Building, Live
<1>2. \A s \in Rank \ {r} : Same(s)
  BY DEF Same, TypeOK
<1>3. pc'[r] = step
  BY DEF TypeOK
<1>4. ProcessInv(r)'
  BY <1>3, StageKept
<1> QED BY <1>1, <1>2, <1>4, Others

LEMMA FillEntry ==
  ASSUME IInv, NEW r \in Rank, NEW q \in Rank, NEW m \in Mapping, NEW h \in Driver,
         NEW step \in Building, NEW c \in 0 .. N,
         mappings' = [mappings EXCEPT ![r][q] = m], hal' = [hal EXCEPT ![r][q] = h],
         pc[r] \in Building, pc' = [pc EXCEPT ![r] = step], cur' = [cur EXCEPT ![r] = c],
         UNCHANGED <<page, purpose, desc, ready, result, context, leaked, terminal, faults>>,
         CurInv(r)', \A p \in Rank : Staged(r, p)',
         m.addr => h.va, m.handle # None => h.ref = m.handle,
         m.mapped => m.addr /\ h.view = m.handle,
         ~leaked[r] => Agrees(m, h)
  PROVE  IInv'
<1> USE DEF IInv
<1>1. /\ mappings' \in [Rank -> [Rank -> Mapping]] /\ mappings'[r][q] = m
      /\ \A s \in Rank \ {r} : mappings'[s] = mappings[s]
      /\ \A p \in Rank \ {q} : mappings'[r][p] = mappings[r][p]
  BY EntryUpdate
<1>2. /\ hal' \in [Rank -> [Rank -> Driver]] /\ hal'[r][q] = h
      /\ \A s \in Rank \ {r} : hal'[s] = hal[s]
      /\ \A p \in Rank \ {q} : hal'[r][p] = hal[r][p]
  BY DriverUpdate
<1>3. TypeOK'
  BY <1>1, <1>2 DEF TypeOK, Building, Live, terminal
<1>4. \A s \in Rank \ {r} : Same(s)
  BY <1>1, <1>2 DEF Same, TypeOK
<1>5. pc'[r] = step
  BY DEF TypeOK
<1>6. Backed(r, q)'
  BY <1>1, <1>2 DEF Backed, None
<1>7. leaked'[r] = leaked[r] /\ (m.mapped => m.addr) /\ (~leaked[r] => Agrees(m, h))
  OBVIOUS
<1>8. ProcessInv(r)'
  BY <1>1, <1>2, <1>5, <1>6, <1>7, StageFilled
<1> QED BY <1>3, <1>4, <1>8, Others

\* The steps of Setup that fill no entry.
LEMMA QuietKeeps ==
  ASSUME IInv, NEW r \in Rank,
         AclInit(r) \/ SetDevice(r) \/ QueryGranularity(r) \/ Export(r) \/ DisableWhitelist(r)
  PROVE  IInv'
<1> USE DEF IInv
<1>1. PICK step \in {"device", "granularity", "reserve", "whitelist", "publish"} :
        /\ pc' = [pc EXCEPT ![r] = step]
        /\ <<pc[r], step>> \in {<<"init", "device">>, <<"device", "granularity">>,
             <<"granularity", "reserve">>, <<"export", "whitelist">>, <<"whitelist", "publish">>}
  BY DEF AclInit, SetDevice, QueryGranularity, Export, DisableWhitelist, Prepare, Silent, Goto
<1>2. /\ UNCHANGED <<page, cur, purpose, mappings, desc, ready, result, hal, leaked, terminal, faults>>
      /\ context' \in [Rank -> SUBSET {"acl", "device"}]
  BY DEF AclInit, SetDevice, QueryGranularity, Export, DisableWhitelist, Prepare, Silent, ledger, TypeOK
<1>3. pc'[r] = step /\ cur[r] = 0 /\ cur'[r] = 0
  BY <1>1, <1>2 DEF TypeOK, ProcessInv, CurInv, Building, SetupSteps, LocalSteps, CrossSteps, PeerSteps
<1>4. \A q \in Rank : Staged(r, q)'
  <2>1. pc[r] \in Building /\ mappings'[r] = mappings[r] /\ \A q \in Rank : ~(q < 0)
    BY <1>1, <1>2 DEF Building, SetupSteps, LocalSteps, CrossSteps, Rank
  <2>2. \A q \in Rank : Staged(r, q)
    BY <2>1 DEF ProcessInv, EntriesInv
  <2> QED BY <1>1, <1>3, <2>1, <2>2 DEF Staged, Unreserved, Uncreated, Unmapped, None
<1>5. CurInv(r)'
  BY <1>1, <1>3 DEF CurInv, PeerSteps
<1>6. /\ cur' = [cur EXCEPT ![r] = cur[r]] /\ desc' = [desc EXCEPT ![r] = desc[r]]
      /\ ready' = [ready EXCEPT ![r] = ready[r]] /\ TerminalTypeOK'
      /\ cur[r] \in 0 .. N /\ desc[r] \in Line /\ ready[r] \in BOOLEAN
  BY <1>2 DEF TypeOK, TerminalTypeOK, terminal
<1>7. pc[r] \in Building /\ step \in Building
  BY <1>1 DEF Building, SetupSteps, LocalSteps, CrossSteps
<1> QED BY <1>1, <1>2, <1>4, <1>5, <1>6, <1>7, MoveOn

\* The next peer is another rank, and the peers before it are those done.
LEMMA NextPeer ==
  ASSUME NEW r \in Rank, NEW q \in 0 .. N, q = r => q < N
  PROVE  /\ PeerFrom(r, q) \in 0 .. N /\ PeerFrom(r, q) # r
         /\ PeerFrom(r, q) < N => PeerFrom(r, q) \in Rank \ {r}
         /\ \A p \in Rank \ {r} : p < PeerFrom(r, q) <=> p < q
BY NAssumption DEF PeerFrom, Rank

LEMMA PublishKeeps ==
  ASSUME IInv, NEW r \in Rank, SetRankDesc(r)
  PROVE  IInv'
<1> USE DEF IInv
<1> DEFINE c == PeerFrom(r, 0)
           step == IF c < N THEN "read" ELSE "done"
<1>1. /\ c \in 0 .. N /\ (c < N => c \in Rank \ {r}) /\ (~(c < N) => c = N)
      /\ \A p \in Rank \ {r} : ~(p < c)
  BY NextPeer, NAssumption DEF Rank
<1> HIDE DEF c
<1>2. /\ pc[r] = "publish" /\ pc' = [pc EXCEPT ![r] = step] /\ cur' = [cur EXCEPT ![r] = c]
      /\ UNCHANGED <<page, purpose, mappings, desc, ready, result, context, hal, leaked, stdin, eof, stray, faults>>
      /\ printed' = [printed EXCEPT ![r] = TRUE]
  BY DEF SetRankDesc, ReadPeer, Goto, c, ledger
<1>3. pc'[r] = step /\ cur'[r] = c /\ cur[r] = 0
  BY <1>2 DEF TypeOK, ProcessInv, CurInv, Building, SetupSteps, CrossSteps, PeerSteps
<1>4. \A q \in Rank : Staged(r, q)'
  <2>1. pc[r] \in Building /\ mappings'[r] = mappings[r] /\ \A q \in Rank : ~(q < 0)
    BY <1>2 DEF Building, SetupSteps, CrossSteps, Rank
  <2>2. \A q \in Rank : Staged(r, q)
    BY <2>1 DEF ProcessInv, EntriesInv
  <2> QED BY <1>1, <1>2, <1>3, <2>1, <2>2 DEF Staged, Unreserved, Uncreated, Unmapped, None
<1>5. CurInv(r)'
  BY <1>1, <1>3 DEF CurInv, PeerSteps, Building
<1>6. /\ desc' = [desc EXCEPT ![r] = desc[r]] /\ ready' = [ready EXCEPT ![r] = ready[r]]
      /\ TerminalTypeOK' /\ context' \in [Rank -> SUBSET {"acl", "device"}]
      /\ desc[r] \in Line /\ ready[r] \in BOOLEAN
  BY <1>2 DEF TypeOK, TerminalTypeOK
<1>7. pc[r] \in Building /\ step \in Building
  BY <1>2 DEF Building, SetupSteps, CrossSteps
<1> QED BY <1>1, <1>2, <1>4, <1>5, <1>6, <1>7, MoveOn

LEMMA ReadKeeps ==
  ASSUME IInv, NEW r \in Rank, GetRankDesc(r)
  PROVE  IInv'
<1> USE DEF IInv
<1>1. /\ pc[r] = "read" /\ cur[r] \in Rank \ {r} /\ cur[r] \in Line /\ desc[r] \in Line
      /\ ready[r] \in BOOLEAN /\ cur[r] \in 0 .. N
  BY Lines DEF GetRankDesc, TypeOK, ProcessInv, CurInv, PeerSteps
<1>2. /\ UNCHANGED <<page, cur, purpose, mappings, ready, result, context, hal, leaked, printed, eof, stray, faults>>
      /\ stdin' = [stdin EXCEPT ![r] = Tail(@)] /\ stdin[r] # <<>>
  BY DEF GetRankDesc, ledger
<1>3. PICK step \in {"read", "import"}, d \in Line :
        /\ pc' = [pc EXCEPT ![r] = step] /\ desc' = [desc EXCEPT ![r] = d]
        /\ step = "import" => d = cur[r]
  <2>1. CASE ExpectedDescriptor(r, Head(stdin[r]))
    BY <1>1, <2>1 DEF GetRankDesc, ExpectedDescriptor, Goto
  <2>2. CASE ~ExpectedDescriptor(r, Head(stdin[r]))
    <3>1. pc' = [pc EXCEPT ![r] = "read"] /\ desc' = [desc EXCEPT ![r] = desc[r]]
      BY <1>1, <2>2 DEF GetRankDesc, TypeOK
    <3> QED BY <1>1, <3>1
  <2> QED BY <2>1, <2>2
<1>4. pc'[r] = step /\ cur'[r] = cur[r] /\ desc'[r] = d
  BY <1>2, <1>3 DEF TypeOK
<1>5. \A q \in Rank : Staged(r, q)'
  <2>1. pc[r] \in Building /\ mappings'[r] = mappings[r]
    BY <1>1, <1>2 DEF Building, SetupSteps, CrossSteps
  <2>2. \A q \in Rank : Staged(r, q)
    BY <2>1 DEF ProcessInv, EntriesInv
  <2> QED BY <1>1, <1>3, <1>4, <2>1, <2>2 DEF Staged, Unreserved, Uncreated, Unmapped, None
<1>6. CurInv(r)'
  BY <1>1, <1>3, <1>4 DEF CurInv, PeerSteps
<1>7. TerminalTypeOK'
  <2>1. Tail(stdin[r]) \in Seq(Line)
    BY <1>2 DEF TypeOK
  <2> QED BY <1>2, <2>1 DEF TypeOK, TerminalTypeOK
<1>8. /\ cur' = [cur EXCEPT ![r] = cur[r]] /\ ready' = [ready EXCEPT ![r] = ready[r]]
      /\ context' \in [Rank -> SUBSET {"acl", "device"}] /\ pc[r] \in Building /\ step \in Building
  BY <1>1, <1>2, <1>3 DEF TypeOK, Building, SetupSteps, CrossSteps
<1> QED BY <1>1, <1>2, <1>3, <1>5, <1>6, <1>7, <1>8, MoveOn

LEMMA SetupReturnsKeeps ==
  ASSUME IInv, NEW r \in Rank, SetupReturns(r)
  PROVE  IInv'
<1> USE DEF IInv
<1>1. /\ pc[r] = "done" /\ pc' = [pc EXCEPT ![r] = "hold"] /\ ready' = [ready EXCEPT ![r] = TRUE]
      /\ UNCHANGED <<page, cur, purpose, mappings, desc, result, context, hal, leaked, terminal, faults>>
  BY DEF SetupReturns, Goto, ledger
<1>2. pc'[r] = "hold" /\ cur[r] = N /\ cur'[r] = N /\ ready'[r]
  BY <1>1 DEF TypeOK, ProcessInv, CurInv
<1>3. \A q \in Rank : Staged(r, q)'
  <2>1. pc[r] \in Building /\ mappings'[r] = mappings[r]
    BY <1>1 DEF Building, SetupSteps
  <2>2. \A q \in Rank : Staged(r, q)
    BY <2>1 DEF ProcessInv, EntriesInv
  <2> QED BY <1>1, <1>2, <2>1, <2>2 DEF Staged, Unreserved, Uncreated, Unmapped, None
<1>4. CurInv(r)'
  BY <1>2 DEF CurInv, PeerSteps
<1>5. /\ cur' = [cur EXCEPT ![r] = cur[r]] /\ desc' = [desc EXCEPT ![r] = desc[r]]
      /\ cur[r] \in 0 .. N /\ desc[r] \in Line /\ TerminalTypeOK'
      /\ context' \in [Rank -> SUBSET {"acl", "device"}] /\ pc[r] \in Building /\ "hold" \in Building
  BY <1>1 DEF TypeOK, TerminalTypeOK, terminal, Building, SetupSteps
<1> QED BY <1>1, <1>3, <1>4, <1>5, MoveOn
-------------------------------------------------------------------------------
\* The rank's own entry: reserve, create, map.
LEMMA OwnEntry ==
  ASSUME IInv, NEW r \in Rank, pc[r] \in {"reserve", "create", "map"}
  PROVE  /\ cur[r] = 0 /\ mappings[r][r] \in Mapping /\ hal[r][r] \in Driver
         /\ \A q \in Rank : Staged(r, q)
         /\ Backed(r, r)
         /\ ~leaked[r] => Agrees(mappings[r][r], hal[r][r])
<1>1. pc[r] \in Building /\ pc[r] \in Live
  BY DEF Building, Live, SetupSteps, LocalSteps
<1>2. cur[r] = 0
  BY <1>1 DEF IInv, ProcessInv, CurInv, PeerSteps
<1>3. mappings[r][r] \in Mapping /\ hal[r][r] \in Driver
  BY DEF IInv, TypeOK
<1> QED BY <1>1, <1>2, <1>3, OwedWhileBuilding DEF IInv, ProcessInv, EntriesInv, LedgerInv

LEMMA ReserveKeeps ==
  ASSUME IInv, NEW r \in Rank, Reserve(r)
  PROVE  IInv'
<1> DEFINE m == [mappings[r][r] EXCEPT !.addr = TRUE]
           h == [hal[r][r] EXCEPT !.va = TRUE]
<1>1. /\ pc[r] = "reserve" /\ pc' = [pc EXCEPT ![r] = "create"]
      /\ mappings' = [mappings EXCEPT ![r][r] = m] /\ hal' = [hal EXCEPT ![r][r] = h]
      /\ UNCHANGED <<page, cur, purpose, desc, ready, result, context, leaked, terminal, faults>>
  BY DEF Reserve, Goto, ReserveRankAddress
<1>2. /\ cur[r] = 0 /\ mappings[r][r] \in Mapping /\ hal[r][r] \in Driver
      /\ \A q \in Rank : Staged(r, q)
      /\ Backed(r, r)
      /\ ~leaked[r] => Agrees(mappings[r][r], hal[r][r])
  BY <1>1, OwnEntry
<1>3. /\ m \in Mapping /\ m.addr /\ m.handle = mappings[r][r].handle /\ m.mapped = mappings[r][r].mapped
      /\ h \in Driver /\ h.va /\ h.ref = hal[r][r].ref /\ h.view = hal[r][r].view
  BY <1>2 DEF Mapping, Driver
<1> HIDE DEF m, h
<1>4. ~mappings[r][r].mapped /\ mappings[r][r].handle = None
  BY <1>1, <1>2 DEF Staged, Unmapped, Uncreated, Unreserved
<1>5. /\ pc'[r] = "create" /\ cur'[r] = 0 /\ mappings'[r][r] = m
      /\ \A p \in Rank \ {r} : mappings'[r][p] = mappings[r][p]
  BY <1>1, <1>2, <1>3, EntryUpdate DEF IInv, TypeOK
<1>6. CurInv(r)'
  BY <1>5 DEF CurInv, PeerSteps
<1>7. \A p \in Rank : Staged(r, p)'
  <2>1. Staged(r, r)'
    BY <1>1, <1>2, <1>3, <1>4, <1>5 DEF Staged, Unmapped, Uncreated, Unreserved, None
  <2>2. \A p \in Rank \ {r} : Staged(r, p)'
    BY <1>1, <1>2, <1>5 DEF Staged, None
  <2> QED BY <2>1, <2>2
<1>8. /\ m.addr => h.va
      /\ m.handle # None => h.ref = m.handle
      /\ m.mapped => m.addr /\ h.view = m.handle
      /\ ~leaked[r] => Agrees(m, h)
  BY <1>2, <1>3, <1>4 DEF Agrees
<1>9. cur' = [cur EXCEPT ![r] = 0] /\ 0 \in 0 .. N /\ pc[r] \in Building /\ "create" \in Building
  BY <1>1, <1>2, Lines DEF IInv, TypeOK, Building, SetupSteps, LocalSteps
<1> QED BY <1>1, <1>3, <1>6, <1>7, <1>8, <1>9, FillEntry

LEMMA CreateKeeps ==
  ASSUME IInv, NEW r \in Rank, Create(r)
  PROVE  IInv'
<1> DEFINE m == [mappings[r][r] EXCEPT !.handle = r]
           h == [hal[r][r] EXCEPT !.ref = r]
<1>1. /\ pc[r] = "create" /\ pc' = [pc EXCEPT ![r] = "map"]
      /\ mappings' = [mappings EXCEPT ![r][r] = m] /\ hal' = [hal EXCEPT ![r][r] = h]
      /\ UNCHANGED <<page, cur, purpose, desc, ready, result, context, leaked, terminal, faults>>
  BY DEF Create, Goto
<1>2. /\ cur[r] = 0 /\ mappings[r][r] \in Mapping /\ hal[r][r] \in Driver
      /\ \A q \in Rank : Staged(r, q)
      /\ Backed(r, r)
      /\ ~leaked[r] => Agrees(mappings[r][r], hal[r][r])
  BY <1>1, OwnEntry
<1>3. /\ m \in Mapping /\ m.addr = mappings[r][r].addr /\ m.handle = r /\ m.mapped = mappings[r][r].mapped
      /\ h \in Driver /\ h.va = hal[r][r].va /\ h.ref = r /\ h.view = hal[r][r].view
  BY <1>2, Lines DEF Mapping, Driver
<1> HIDE DEF m, h
<1>4. ~mappings[r][r].mapped /\ mappings[r][r].addr
  BY <1>1, <1>2 DEF Staged, Unmapped, Uncreated, Unreserved
<1>5. /\ pc'[r] = "map" /\ cur'[r] = 0 /\ mappings'[r][r] = m
      /\ \A p \in Rank \ {r} : mappings'[r][p] = mappings[r][p]
  BY <1>1, <1>2, <1>3, EntryUpdate DEF IInv, TypeOK
<1>6. CurInv(r)'
  BY <1>5 DEF CurInv, PeerSteps
<1>7. \A p \in Rank : Staged(r, p)'
  <2>1. Staged(r, r)'
    BY <1>1, <1>2, <1>3, <1>4, <1>5 DEF Staged, Unmapped, Uncreated, Unreserved, None
  <2>2. \A p \in Rank \ {r} : Staged(r, p)'
    BY <1>1, <1>2, <1>5 DEF Staged, None
  <2> QED BY <2>1, <2>2
<1>8. /\ m.addr => h.va
      /\ m.handle # None => h.ref = m.handle
      /\ m.mapped => m.addr /\ h.view = m.handle
      /\ ~leaked[r] => Agrees(m, h)
  BY <1>2, <1>3, <1>4 DEF Agrees, Backed
<1>9. cur' = [cur EXCEPT ![r] = 0] /\ 0 \in 0 .. N /\ pc[r] \in Building /\ "map" \in Building
  BY <1>1, <1>2, Lines DEF IInv, TypeOK, Building, SetupSteps, LocalSteps
<1> QED BY <1>1, <1>3, <1>6, <1>7, <1>8, <1>9, FillEntry

LEMMA MapKeeps ==
  ASSUME IInv, NEW r \in Rank, Map(r)
  PROVE  IInv'
<1> DEFINE m == [mappings[r][r] EXCEPT !.mapped = TRUE]
           h == [hal[r][r] EXCEPT !.view = mappings[r][r].handle]
<1>1. /\ pc[r] = "map" /\ pc' = [pc EXCEPT ![r] = "export"]
      /\ mappings' = [mappings EXCEPT ![r][r] = m] /\ hal' = [hal EXCEPT ![r][r] = h]
      /\ UNCHANGED <<page, cur, purpose, desc, ready, result, context, leaked, terminal, faults>>
  BY DEF Map, Goto, MemMap
<1>2. /\ cur[r] = 0 /\ mappings[r][r] \in Mapping /\ hal[r][r] \in Driver
      /\ \A q \in Rank : Staged(r, q)
      /\ Backed(r, r)
      /\ ~leaked[r] => Agrees(mappings[r][r], hal[r][r])
  BY <1>1, OwnEntry
<1>3. /\ m \in Mapping /\ m.addr = mappings[r][r].addr /\ m.handle = mappings[r][r].handle /\ m.mapped
      /\ h \in Driver /\ h.va = hal[r][r].va /\ h.ref = hal[r][r].ref /\ h.view = mappings[r][r].handle
  BY <1>2 DEF Mapping, Driver
<1> HIDE DEF m, h
<1>4. mappings[r][r].handle = r /\ mappings[r][r].addr
  BY <1>1, <1>2 DEF Staged, Unmapped, Uncreated, Unreserved
<1>5. /\ pc'[r] = "export" /\ cur'[r] = 0 /\ mappings'[r][r] = m
      /\ \A p \in Rank \ {r} : mappings'[r][p] = mappings[r][p]
  BY <1>1, <1>2, <1>3, EntryUpdate DEF IInv, TypeOK
<1>6. CurInv(r)'
  BY <1>5 DEF CurInv, PeerSteps
<1>7. \A p \in Rank : Staged(r, p)'
  <2>1. Staged(r, r)'
    BY <1>1, <1>2, <1>3, <1>4, <1>5 DEF Staged, Unmapped, Uncreated, Unreserved, None
  <2>2. \A p \in Rank \ {r} : Staged(r, p)'
    BY <1>1, <1>2, <1>5 DEF Staged, None
  <2> QED BY <2>1, <2>2
<1>8. /\ m.addr => h.va
      /\ m.handle # None => h.ref = m.handle
      /\ m.mapped => m.addr /\ h.view = m.handle
      /\ ~leaked[r] => Agrees(m, h)
  BY <1>2, <1>3, <1>4 DEF Agrees, Backed
<1>9. cur' = [cur EXCEPT ![r] = 0] /\ 0 \in 0 .. N /\ pc[r] \in Building /\ "export" \in Building
  BY <1>1, <1>2, Lines DEF IInv, TypeOK, Building, SetupSteps, LocalSteps, CrossSteps
<1> QED BY <1>1, <1>3, <1>6, <1>7, <1>8, <1>9, FillEntry

\* The entry of a peer: import its allocation, reserve, map.
LEMMA PeerEntry ==
  ASSUME IInv, NEW r \in Rank, pc[r] \in {"import", "reservepeer", "mappeer"}
  PROVE  /\ cur[r] \in Rank /\ cur[r] # r /\ cur[r] \in Line /\ cur[r] # None
         /\ pc[r] = "import" => desc[r] = cur[r]
         /\ mappings[r][cur[r]] \in Mapping /\ hal[r][cur[r]] \in Driver
         /\ \A q \in Rank : Staged(r, q)
         /\ Backed(r, cur[r])
         /\ ~leaked[r] => Agrees(mappings[r][cur[r]], hal[r][cur[r]])
<1>1. pc[r] \in Building /\ pc[r] \in Live
  BY DEF Building, Live, SetupSteps, CrossSteps
<1>2. cur[r] \in Rank \ {r} /\ (pc[r] = "import" => desc[r] = cur[r])
  BY DEF IInv, ProcessInv, CurInv, PeerSteps
<1>3. mappings[r][cur[r]] \in Mapping /\ hal[r][cur[r]] \in Driver
  BY <1>2 DEF IInv, TypeOK
<1> QED BY <1>1, <1>2, <1>3, OwedWhileBuilding, Lines DEF IInv, ProcessInv, EntriesInv, LedgerInv

LEMMA ImportKeeps ==
  ASSUME IInv, NEW r \in Rank, Import(r)
  PROVE  IInv'
<1> DEFINE q == cur[r]
           m == [mappings[r][q] EXCEPT !.handle = q]
           h == [hal[r][q] EXCEPT !.ref = q]
<1>1. pc[r] = "import"
  BY DEF Import
<1>2. /\ q \in Rank /\ q # r /\ q \in Line /\ q # None /\ desc[r] = q
      /\ mappings[r][q] \in Mapping /\ hal[r][q] \in Driver
      /\ \A p \in Rank : Staged(r, p)
      /\ Backed(r, q)
      /\ ~leaked[r] => Agrees(mappings[r][q], hal[r][q])
  BY <1>1, PeerEntry
<1>3. /\ m \in Mapping /\ m.addr = mappings[r][q].addr /\ m.handle = q /\ m.mapped = mappings[r][q].mapped
      /\ h \in Driver /\ h.va = hal[r][q].va /\ h.ref = q /\ h.view = hal[r][q].view
  BY <1>2 DEF Mapping, Driver
<1>4. /\ pc' = [pc EXCEPT ![r] = "reservepeer"] /\ cur' = [cur EXCEPT ![r] = q]
      /\ mappings' = [mappings EXCEPT ![r][q] = m] /\ hal' = [hal EXCEPT ![r][q] = h]
      /\ UNCHANGED <<page, purpose, desc, ready, result, context, leaked, terminal, faults>>
  BY <1>2 DEF Import, Goto, IInv, TypeOK
<1> HIDE DEF m, h
<1>5. ~mappings[r][q].mapped /\ ~mappings[r][q].addr
  BY <1>1, <1>2 DEF Staged, Rank
<1>6. /\ pc'[r] = "reservepeer" /\ cur'[r] = q /\ mappings'[r][q] = m
      /\ \A p \in Rank \ {q} : mappings'[r][p] = mappings[r][p]
  BY <1>2, <1>3, <1>4, EntryUpdate DEF IInv, TypeOK
<1>7. CurInv(r)'
  BY <1>2, <1>6 DEF CurInv, PeerSteps, Building
<1>8. \A p \in Rank : Staged(r, p)'
  <2>1. ~(q < q)
    BY <1>2 DEF Rank
  <2> QED BY <2>1, <1>1, <1>2, <1>3, <1>5, <1>6 DEF Staged, Unmapped, Uncreated, Unreserved, None
<1>9. /\ m.addr => h.va
      /\ m.handle # None => h.ref = m.handle
      /\ m.mapped => m.addr /\ h.view = m.handle
      /\ ~leaked[r] => Agrees(m, h)
  BY <1>2, <1>3, <1>5 DEF Agrees
<1>10. q \in 0 .. N /\ pc[r] \in Building /\ "reservepeer" \in Building
  BY <1>1, <1>2, Lines DEF Building, SetupSteps, CrossSteps
<1> HIDE DEF q
<1> QED BY <1>2, <1>3, <1>4, <1>7, <1>8, <1>9, <1>10, FillEntry

LEMMA ReservePeerKeeps ==
  ASSUME IInv, NEW r \in Rank, ReservePeer(r)
  PROVE  IInv'
<1> DEFINE q == cur[r]
           m == [mappings[r][q] EXCEPT !.addr = TRUE]
           h == [hal[r][q] EXCEPT !.va = TRUE]
<1>1. pc[r] = "reservepeer"
  BY DEF ReservePeer
<1>2. /\ q \in Rank /\ q # r /\ q \in Line /\ q # None
      /\ mappings[r][q] \in Mapping /\ hal[r][q] \in Driver
      /\ \A p \in Rank : Staged(r, p)
      /\ Backed(r, q)
      /\ ~leaked[r] => Agrees(mappings[r][q], hal[r][q])
  BY <1>1, PeerEntry
<1>3. /\ m \in Mapping /\ m.addr /\ m.handle = mappings[r][q].handle /\ m.mapped = mappings[r][q].mapped
      /\ h \in Driver /\ h.va /\ h.ref = hal[r][q].ref /\ h.view = hal[r][q].view
  BY <1>2 DEF Mapping, Driver
<1>4. /\ pc' = [pc EXCEPT ![r] = "mappeer"] /\ cur' = [cur EXCEPT ![r] = q]
      /\ mappings' = [mappings EXCEPT ![r][q] = m] /\ hal' = [hal EXCEPT ![r][q] = h]
      /\ UNCHANGED <<page, purpose, desc, ready, result, context, leaked, terminal, faults>>
  BY <1>2 DEF ReservePeer, ReserveRankAddress, Goto, IInv, TypeOK
<1> HIDE DEF m, h
<1>5. ~mappings[r][q].mapped /\ mappings[r][q].handle = q
  BY <1>1, <1>2 DEF Staged, Rank
<1>6. /\ pc'[r] = "mappeer" /\ cur'[r] = q /\ mappings'[r][q] = m
      /\ \A p \in Rank \ {q} : mappings'[r][p] = mappings[r][p]
  BY <1>2, <1>3, <1>4, EntryUpdate DEF IInv, TypeOK
<1>7. CurInv(r)'
  BY <1>2, <1>6 DEF CurInv, PeerSteps, Building
<1>8. \A p \in Rank : Staged(r, p)'
  <2>1. ~(q < q)
    BY <1>2 DEF Rank
  <2> QED BY <2>1, <1>1, <1>2, <1>3, <1>5, <1>6 DEF Staged, Unmapped, Uncreated, Unreserved, None
<1>9. /\ m.addr => h.va
      /\ m.handle # None => h.ref = m.handle
      /\ m.mapped => m.addr /\ h.view = m.handle
      /\ ~leaked[r] => Agrees(m, h)
  BY <1>2, <1>3, <1>5 DEF Agrees, Backed
<1>10. q \in 0 .. N /\ pc[r] \in Building /\ "mappeer" \in Building
  BY <1>1, <1>2, Lines DEF Building, SetupSteps, CrossSteps
<1> HIDE DEF q
<1> QED BY <1>2, <1>3, <1>4, <1>7, <1>8, <1>9, <1>10, FillEntry

LEMMA MapPeerKeeps ==
  ASSUME IInv, NEW r \in Rank, MapPeer(r)
  PROVE  IInv'
<1> DEFINE q == cur[r]
           c == PeerFrom(r, q + 1)
           step == IF c < N THEN "read" ELSE "done"
           m == [mappings[r][q] EXCEPT !.mapped = TRUE]
           h == [hal[r][q] EXCEPT !.view = mappings[r][q].handle]
<1>1. pc[r] = "mappeer"
  BY DEF MapPeer
<1>2. /\ q \in Rank /\ q # r /\ q \in Line /\ q # None
      /\ mappings[r][q] \in Mapping /\ hal[r][q] \in Driver
      /\ \A p \in Rank : Staged(r, p)
      /\ Backed(r, q)
      /\ ~leaked[r] => Agrees(mappings[r][q], hal[r][q])
  BY <1>1, PeerEntry
<1>3. /\ m \in Mapping /\ m.addr = mappings[r][q].addr /\ m.handle = mappings[r][q].handle /\ m.mapped
      /\ h \in Driver /\ h.va = hal[r][q].va /\ h.ref = hal[r][q].ref /\ h.view = mappings[r][q].handle
  BY <1>2 DEF Mapping, Driver
<1>4. /\ pc' = [pc EXCEPT ![r] = step] /\ cur' = [cur EXCEPT ![r] = c]
      /\ mappings' = [mappings EXCEPT ![r][q] = m] /\ hal' = [hal EXCEPT ![r][q] = h]
      /\ UNCHANGED <<page, purpose, desc, ready, result, context, leaked, terminal, faults>>
  BY <1>2 DEF MapPeer, ReadPeer, MemMap, Goto
<1>5. /\ c \in 0 .. N /\ (c < N => c \in Rank \ {r}) /\ (~(c < N) => c = N)
      /\ \A p \in Rank \ {r} : p < c <=> (p < q \/ p = q)
  <2>1. q + 1 \in 0 .. N /\ (q + 1 = r => q + 1 < N)
    BY <1>2, NAssumption DEF Rank
  <2>2. /\ c \in 0 .. N
        /\ c < N => c \in Rank \ {r}
        /\ \A p \in Rank \ {r} : p < c <=> p < q + 1
    BY <2>1, NextPeer
  <2> QED BY <1>2, <2>2, NAssumption DEF Rank
<1> HIDE DEF m, h, c
<1>6. /\ mappings[r][q].handle = q /\ mappings[r][q].addr
  BY <1>1, <1>2 DEF Staged, Rank
<1>7. /\ pc'[r] = step /\ cur'[r] = c /\ mappings'[r][q] = m
      /\ \A p \in Rank \ {q} : mappings'[r][p] = mappings[r][p]
  BY <1>2, <1>3, <1>4, EntryUpdate DEF IInv, TypeOK
<1>8. CurInv(r)'
  BY <1>5, <1>7 DEF CurInv, PeerSteps, Building
<1>9. \A p \in Rank : Staged(r, p)'
  <2>1. Staged(r, r)'
    BY <1>1, <1>2, <1>7 DEF Staged, Unmapped, Uncreated, Unreserved, None
  <2>2. ASSUME NEW p \in Rank, p = q PROVE Staged(r, p)'
    <3>1. p < c /\ p # r
      BY <1>2, <1>5, <2>2
    <3>2. m.addr /\ m.handle = p /\ m.mapped
      BY <1>3, <1>6, <2>2
    <3>3. mappings'[r][p] = m
      BY <1>7, <2>2
    <3> QED BY <1>7, <3>1, <3>2, <3>3 DEF Staged, None
  <2>3. ASSUME NEW p \in Rank \ {q, r} PROVE Staged(r, p)'
    <3>1. (p < c <=> p < q) /\ p # q
      BY <1>5
    <3> QED BY <1>1, <1>2, <1>7, <3>1 DEF Staged, None
  <2> QED BY <1>2, <2>1, <2>2, <2>3
<1>10. /\ m.addr => h.va
       /\ m.handle # None => h.ref = m.handle
       /\ m.mapped => m.addr /\ h.view = m.handle
       /\ ~leaked[r] => Agrees(m, h)
  BY <1>2, <1>3, <1>6 DEF Agrees, Backed
<1>11. pc[r] \in Building /\ step \in Building
  BY <1>1 DEF Building, SetupSteps, CrossSteps
<1> HIDE DEF q, step
<1> QED BY <1>2, <1>3, <1>4, <1>5, <1>8, <1>9, <1>10, <1>11, FillEntry
-------------------------------------------------------------------------------
(***************************************************************************)
(* Reset(): it starts from what Setup left, and each loop gives back what  *)
(* its condition selects.                                                  *)
(***************************************************************************)
LEMMA ResetStarts ==
  ASSUME IInv, NEW r \in Rank, pc[r] \in Building, pc' = [pc EXCEPT ![r] = "unmap"],
         cur' = [cur EXCEPT ![r] = 0],
         NEW why \in {"retry", "failed", "destroy"}, purpose' = [purpose EXCEPT ![r] = why],
         UNCHANGED <<page, mappings, desc, ready, ledger>>,
         result' \in [Rank -> {0, 1}], faults' \in 0 .. MaxFaults, TerminalTypeOK'
  PROVE  IInv'
<1> USE DEF IInv
<1>1. TypeOK'
  BY Lines DEF TypeOK, TerminalTypeOK, Live, ResetSteps, ledger
<1>2. \A s \in Rank \ {r} : Same(s)
  BY DEF Same, TypeOK, ledger
<1>3. pc'[r] = "unmap" /\ cur'[r] = 0
  BY DEF TypeOK
<1>4. pc[r] \in Live
  BY DEF Building, Live
<1>5. ASSUME NEW q \in Rank, ~leaked[r] PROVE Owed(r, q)'
  <2>1. Agrees(mappings[r][q], hal[r][q])
    BY <1>4, <1>5, OwedWhileBuilding DEF ProcessInv, LedgerInv
  <2>2. ~(q < 0)
    BY DEF Rank
  <2> QED BY <1>3, <2>1, <2>2 DEF Owed, Released, Unviewed, Agrees, ledger, None
<1>6. CurInv(r)' /\ EntriesInv(r)'
  BY <1>3 DEF ProcessInv, CurInv, EntriesInv, Building, PeerSteps, SetupSteps, LocalSteps, CrossSteps
<1>7. LedgerInv(r)'
  BY <1>3, <1>4, <1>5 DEF ProcessInv, LedgerInv, Gone, ledger
<1> QED BY <1>1, <1>2, <1>6, <1>7, Others DEF ProcessInv

LEMMA SetupFailsKeeps ==
  ASSUME IInv, NEW r \in Rank, InputEnds(r) \/ Refused(r) \/ CallFails(r) \/ ResizeThrows(r) \/ LeaveHold(r)
  PROVE  IInv'
<1> USE DEF IInv
<1>1. pc[r] \in Building
  BY DEF InputEnds, Refused, CallFails, ResizeThrows, LeaveHold, Building, SetupSteps, LocalSteps, CrossSteps
<1>2. faults' \in 0 .. MaxFaults
  <2>1. faults' = faults \/ (faults < MaxFaults /\ faults' = faults + 1)
    BY DEF InputEnds, Refused, CallFails, ResizeThrows, LeaveHold, Inject
  <2> QED BY <2>1, BoundsAssumption DEF TypeOK
<1>3. result' \in [Rank -> {0, 1}]
  <2>1. UNCHANGED result \/ Fail(r)
    BY DEF InputEnds, Refused, CallFails, ResizeThrows, LeaveHold, SetupFails
  <2> QED BY <2>1 DEF Fail, TypeOK
<1>4. TerminalTypeOK'
  <2>1. CASE LeaveHold(r)
    <3>1. stdin[r] # <<>> => Tail(stdin[r]) \in Seq(Line)
      BY DEF TypeOK
    <3>2. stdin' \in [Rank -> Seq(Line)]
      <4>1. CASE stdin[r] # <<>>
        BY <2>1, <3>1, <4>1 DEF LeaveHold, TypeOK
      <4>2. CASE stdin[r] = <<>>
        BY <2>1, <4>2 DEF LeaveHold, TypeOK
      <4> QED BY <4>1, <4>2
    <3> QED BY <2>1, <3>2 DEF LeaveHold, TypeOK, TerminalTypeOK
  <2>2. CASE UNCHANGED terminal
    BY <2>2 DEF TypeOK, TerminalTypeOK, terminal
  <2> QED BY <2>1, <2>2 DEF InputEnds, Refused, CallFails, ResizeThrows, SetupFails
<1>5. UNCHANGED <<page, mappings, desc, ready, ledger>>
  BY DEF InputEnds, Refused, CallFails, ResizeThrows, LeaveHold, SetupFails
<1>6. \E why \in {"retry", "failed", "destroy"} :
        /\ purpose' = [purpose EXCEPT ![r] = why]
        /\ pc' = [pc EXCEPT ![r] = "unmap"] /\ cur' = [cur EXCEPT ![r] = 0]
  <2>1. CASE LeaveHold(r)
    BY <2>1 DEF LeaveHold, Goto
  <2>2. CASE SetupFails(r)
    BY <2>2 DEF SetupFails, ResetFor, Goto
  <2>3. CASE ResizeThrows(r)
    BY <2>3 DEF ResizeThrows, ResetFor, Goto
  <2> QED BY <2>1, <2>2, <2>3 DEF InputEnds, Refused, CallFails
<1> QED BY <1>1, <1>2, <1>3, <1>4, <1>5, <1>6, ResetStarts

LEMMA ResetCallKeeps ==
  ASSUME IInv, NEW r \in Rank, ResetCall(r)
  PROVE  IInv'
<1> USE DEF IInv
<1>1. PICK q \in Rank :
        /\ NextCall(r, q)
        /\ hal' = [hal EXCEPT ![r][q] = AfterCall(pc[r], @)]
        /\ cur' = [cur EXCEPT ![r] = q + 1]
        /\ UNCHANGED <<pc, page, purpose, mappings, desc, ready, result, context, leaked, terminal, faults>>
  BY DEF ResetCall
<1> DEFINE h == AfterCall(pc[r], hal[r][q])
<1>2. hal[r][q] \in Driver /\ h \in Driver /\ hal' = [hal EXCEPT ![r][q] = h]
  <2>1. hal[r][q] \in Driver
    BY DEF TypeOK
  <2>2. h \in Driver
    BY <2>1, Lines DEF AfterCall, Driver
  <2> QED BY <1>1, <2>1, <2>2
<1>3. /\ hal' \in [Rank -> [Rank -> Driver]] /\ hal'[r][q] = h
      /\ \A s \in Rank \ {r} : hal'[s] = hal[s]
      /\ \A p \in Rank \ {q} : hal'[r][p] = hal[r][p]
  <2> HIDE DEF h
  <2> QED BY <1>2, DriverUpdate
<1>4. /\ pc[r] \in ResetSteps /\ q >= cur[r] /\ q + 1 \in 0 .. N /\ cur[r] \in 0 .. N
      /\ \A p \in Rank : p >= cur[r] /\ p < q => p \notin Pending(r)
  BY <1>1, NAssumption DEF NextCall, Pending, ResetSteps, Rank, TypeOK
<1>5. TypeOK'
  BY <1>1, <1>3, <1>4 DEF TypeOK, terminal
<1>6. \A s \in Rank \ {r} : Same(s)
  BY <1>1, <1>3 DEF Same, TypeOK
<1>7. cur'[r] = q + 1 /\ pc'[r] = pc[r] /\ mappings'[r] = mappings[r] /\ leaked'[r] = leaked[r]
  BY <1>1 DEF TypeOK
<1>8. CurInv(r)' /\ EntriesInv(r)'
  BY <1>1, <1>4 DEF ProcessInv, CurInv, EntriesInv, Building, PeerSteps, ResetSteps, SetupSteps, LocalSteps, CrossSteps
<1>9. ASSUME ~leaked[r], NEW p \in Rank PROVE Owed(r, p)'
  <2>1. Owed(r, p)
    BY <1>4, <1>9 DEF ProcessInv, LedgerInv, Live
  <2>2. /\ p < q + 1 <=> (p < cur[r] \/ (p >= cur[r] /\ p < q) \/ p = q)
        /\ p = q => ~(p < cur[r])
    BY <1>4 DEF Rank
  <2>3. CASE p = q
    <3>1. q \in Pending(r)
      BY <1>1 DEF NextCall
    <3>2. CASE pc[r] = "unmap"
      <4>1. h.va = hal[r][q].va /\ h.ref = hal[r][q].ref /\ h.view = None
        BY <1>2, <3>2 DEF AfterCall, Driver
      <4> QED BY <1>3, <1>7, <2>1, <2>2, <2>3, <3>2, <4>1 DEF Owed, Released, Unviewed, None
    <3>3. CASE pc[r] \in {"cancel", "release"}
      <4>1. h.va = hal[r][q].va /\ h.ref = None /\ h.view = hal[r][q].view
        BY <1>2, <3>3 DEF AfterCall, Driver
      <4>2. pc[r] = "cancel" <=> q # r
        BY <3>1, <3>3 DEF Pending
      <4> QED BY <1>3, <1>7, <2>1, <2>2, <2>3, <3>3, <4>1, <4>2 DEF Owed, Released, Unviewed, None
    <3>4. CASE pc[r] = "free"
      <4>1. ~h.va /\ h.ref = hal[r][q].ref /\ h.view = hal[r][q].view
        BY <1>2, <3>4 DEF AfterCall, Driver
      <4> QED BY <1>3, <1>7, <2>1, <2>2, <2>3, <3>4, <4>1 DEF Owed, Released, Unviewed, None
    <3> QED BY <1>4, <3>2, <3>3, <3>4 DEF ResetSteps
  <2>4. CASE p # q
    <3>1. p >= cur[r] /\ p < q => p \notin Pending(r)
      BY <1>4
    <3> QED BY <1>3, <1>4, <1>7, <2>1, <2>2, <2>4, <3>1
        DEF Owed, Released, Unviewed, Pending, ResetSteps, None
  <2> QED BY <2>3, <2>4
<1>10. LedgerInv(r)'
  BY <1>4, <1>7, <1>9 DEF LedgerInv, Gone, ResetSteps
<1> QED BY <1>5, <1>6, <1>8, <1>10, Others DEF ProcessInv

LEMMA CleanupFailsKeeps ==
  ASSUME IInv, NEW r \in Rank, CleanupFails(r)
  PROVE  IInv'
<1> USE DEF IInv
<1>1. PICK q \in Rank :
        /\ NextCall(r, q) /\ faults < MaxFaults /\ faults' = faults + 1
        /\ cur' = [cur EXCEPT ![r] = q + 1]
        /\ leaked' = [leaked EXCEPT ![r] = TRUE]
        /\ UNCHANGED <<pc, page, purpose, mappings, desc, ready, result, context, hal, terminal>>
  BY DEF CleanupFails, Inject
<1>2. pc[r] \in ResetSteps /\ q + 1 \in 0 .. N
  BY <1>1, NAssumption DEF NextCall, Pending, ResetSteps, Rank
<1>3. TypeOK'
  BY <1>1, <1>2, BoundsAssumption DEF TypeOK, terminal
<1>4. \A s \in Rank \ {r} : Same(s)
  BY <1>1 DEF Same, TypeOK
<1>5. ProcessInv(r)'
  BY <1>1, <1>2 DEF ProcessInv, CurInv, EntriesInv, LedgerInv, TypeOK, Building, PeerSteps, ResetSteps,
     SetupSteps, LocalSteps, CrossSteps, Gone
<1> QED BY <1>3, <1>4, <1>5, Others

LEMMA ResetLoopKeeps ==
  ASSUME IInv, NEW r \in Rank, ResetLoop(r)
  PROVE  IInv'
<1> USE DEF IInv
<1>1. /\ pc[r] \in {"unmap", "cancel", "release"} /\ Pending(r) = {}
      /\ pc' = [pc EXCEPT ![r] = NextLoop(pc[r])] /\ cur' = [cur EXCEPT ![r] = 0]
      /\ UNCHANGED <<page, purpose, mappings, desc, ready, result, ledger, terminal, faults>>
  BY DEF ResetLoop, Goto, ResetSteps
<1>2. pc'[r] = NextLoop(pc[r]) /\ cur'[r] = 0 /\ cur[r] \in 0 .. N /\ NextLoop(pc[r]) \in ResetSteps
  BY <1>1 DEF TypeOK, NextLoop, ResetSteps
<1>3. TypeOK'
  BY <1>1, <1>2, NAssumption DEF TypeOK, Live, ledger, terminal
<1>4. \A s \in Rank \ {r} : Same(s)
  BY <1>1 DEF Same, TypeOK, ledger
<1>5. CurInv(r)' /\ EntriesInv(r)'
  BY <1>1, <1>2 DEF ProcessInv, CurInv, EntriesInv, Building, PeerSteps, ResetSteps, SetupSteps, LocalSteps, CrossSteps
<1>6. ASSUME ~leaked[r], NEW p \in Rank PROVE Owed(r, p)'
  <2>1. Owed(r, p) /\ hal'[r][p] = hal[r][p] /\ mappings'[r][p] = mappings[r][p]
    BY <1>1, <1>6 DEF ProcessInv, LedgerInv, Live, ResetSteps, ledger
  <2>2. p \notin Pending(r) /\ ~(p < 0) /\ (p >= cur[r] <=> ~(p < cur[r]))
    BY <1>1, <1>2 DEF Rank
  <2> QED BY <1>1, <1>2, <2>1, <2>2 DEF Owed, Released, Unviewed, Pending, NextLoop, None
<1>7. LedgerInv(r)'
  BY <1>1, <1>2, <1>6 DEF LedgerInv, Gone, ResetSteps, ledger
<1> QED BY <1>3, <1>4, <1>5, <1>7, Others DEF ProcessInv

LEMMA ResetReturnsKeeps ==
  ASSUME IInv, NEW r \in Rank, ResetReturns(r)
  PROVE  IInv'
<1> USE DEF IInv
<1>1. /\ pc[r] = "free" /\ Pending(r) = {} /\ cur' = [cur EXCEPT ![r] = 0]
      /\ mappings' = [mappings EXCEPT ![r] = [q \in Rank |-> Unset]]
      /\ UNCHANGED <<purpose, desc, ready, result, ledger, terminal, faults>>
  BY DEF ResetReturns
<1>2. PICK step \in {"granularity", "failed", "finalize"} : pc' = [pc EXCEPT ![r] = step]
  BY DEF ResetReturns, Goto
<1>3. page' \in [Rank -> {"huge", "normal"}]
  BY DEF ResetReturns, TypeOK
<1>4. pc'[r] = step /\ cur'[r] = 0 /\ cur[r] \in 0 .. N /\ \A q \in Rank : mappings'[r][q] = Unset
  BY <1>1, <1>2 DEF TypeOK
<1>5. TypeOK'
  BY <1>1, <1>2, <1>3, Lines DEF TypeOK, Live, SetupSteps, LocalSteps, ledger, terminal
<1>6. \A s \in Rank \ {r} : Same(s)
  BY <1>1, <1>2 DEF Same, TypeOK, ledger
<1>7. CurInv(r)'
  BY <1>2, <1>4 DEF CurInv, PeerSteps
<1>8. EntriesInv(r)'
  <2>1. \A q \in Rank : step = "granularity" => Staged(r, q)'
    BY <1>4 DEF Staged, Unset, Unreserved, Uncreated, Unmapped, Rank, None
  <2>2. \A q \in Rank : Backed(r, q)'
    BY <1>4 DEF Backed, Unset, None
  <2>3. \A q \in Rank : ~mappings'[r][q].mapped
    BY <1>4 DEF Unset
  <2>4. step \in Building => step = "granularity"
    BY <1>2 DEF Building, SetupSteps, LocalSteps, CrossSteps
  <2> QED BY <1>4, <2>1, <2>2, <2>3, <2>4 DEF EntriesInv, Unset, None
<1>9. ASSUME ~leaked[r], NEW p \in Rank PROVE Owed(r, p)'
  <2>1. Owed(r, p) /\ hal'[r][p] = hal[r][p]
    BY <1>1, <1>9 DEF ProcessInv, LedgerInv, Live, ResetSteps, ledger
  <2>2. p \notin Pending(r) /\ (p >= cur[r] <=> ~(p < cur[r]))
    BY <1>1, <1>4 DEF Rank
  <2>3. ~hal[r][p].va /\ hal[r][p].ref = None /\ hal[r][p].view = None
    BY <1>1, <2>1, <2>2 DEF Owed, Released, Unviewed, Pending
  <2> QED BY <1>2, <1>4, <2>1, <2>3 DEF Owed, Unset, None
<1>10. LedgerInv(r)'
  BY <1>1, <1>4, <1>9 DEF LedgerInv, Gone, ledger
<1> QED BY <1>5, <1>6, <1>7, <1>8, <1>10, Others DEF ProcessInv

LEMMA ReportKeeps ==
  ASSUME IInv, NEW r \in Rank, ReportFailure(r)
  PROVE  IInv'
<1> USE DEF IInv
<1>1. /\ pc[r] = "failed" /\ pc' = [pc EXCEPT ![r] = "finalize"]
      /\ UNCHANGED <<page, cur, purpose, mappings, desc, ready, ledger, terminal, faults>>
      /\ result' \in [Rank -> {0, 1}]
  BY DEF ReportFailure, Goto, Fail, TypeOK
<1>2. pc'[r] = "finalize"
  BY <1>1 DEF TypeOK
<1>3. TypeOK'
  BY <1>1 DEF TypeOK, Live, ledger, terminal
<1>4. \A s \in Rank \ {r} : Same(s)
  BY <1>1 DEF Same, TypeOK, ledger
<1>5. CurInv(r)' /\ EntriesInv(r)'
  BY <1>1, <1>2 DEF ProcessInv, CurInv, EntriesInv, Building, PeerSteps, SetupSteps, LocalSteps, CrossSteps, Unset, None
<1>6. \A p \in Rank : Owed(r, p)' <=> Owed(r, p)
  BY <1>1, <1>2 DEF Owed, Released, Unviewed, ledger, None
<1>7. LedgerInv(r)'
  BY <1>1, <1>2, <1>6 DEF ProcessInv, LedgerInv, Gone, Live, ledger
<1> QED BY <1>3, <1>4, <1>5, <1>7, Others DEF ProcessInv

\* A process that ends has nothing any more.
LEMMA EndKeeps ==
  ASSUME IInv, NEW r \in Rank, Finalize(r) \/ AclFails(r) \/ Killed(r)
  PROVE  IInv'
<1> USE DEF IInv
<1>1. /\ context' = [context EXCEPT ![r] = {}]
      /\ hal' = [hal EXCEPT ![r] = [q \in Rank |-> Nothing]]
      /\ UNCHANGED <<page, cur, purpose, mappings, desc, ready, leaked, terminal>>
  BY DEF Finalize, AclFails, Killed, Reclaim
<1>2. PICK step \in Gone : pc' = [pc EXCEPT ![r] = step]
  BY DEF Finalize, AclFails, Killed, Goto, Gone
<1>3. result' \in [Rank -> {0, 1}] /\ faults' \in 0 .. MaxFaults
  <2>1. result' \in [Rank -> {0, 1}]
    BY DEF Finalize, AclFails, Killed, Fail, TypeOK
  <2>2. faults' = faults \/ (faults < MaxFaults /\ faults' = faults + 1)
    BY DEF Finalize, AclFails, Killed, Inject
  <2> QED BY <2>1, <2>2, BoundsAssumption DEF TypeOK
<1>4. TypeOK'
  BY <1>1, <1>2, <1>3, Lines DEF TypeOK, terminal
<1>5. \A s \in Rank \ {r} : Same(s)
  BY <1>1, <1>2 DEF Same, TypeOK
<1>6. pc'[r] = step /\ \A q \in Rank : hal'[r][q] = Nothing
  BY <1>1, <1>2 DEF TypeOK
<1>7. ProcessInv(r)'
  BY <1>1, <1>6 DEF ProcessInv, CurInv, EntriesInv, LedgerInv, Gone, Live, Building, PeerSteps,
     SetupSteps, LocalSteps, CrossSteps, ResetSteps
<1> QED BY <1>4, <1>5, <1>7, Others

\* What the person types changes no process.
LEMMA PersonKeeps ==
  ASSUME IInv, NEW t \in Rank, Attend(t) \/ Stray(t) \/ (CloseStdin(t) /\ Inject)
  PROVE  IInv'
<1> USE DEF IInv
<1>1. UNCHANGED <<control, mappings, desc, ready, result, ledger, printed>>
  BY DEF Attend, Stray, GiveUp, CloseStdin
<1>2. faults' \in 0 .. MaxFaults /\ stray' \in 0 .. MaxStray
  BY BoundsAssumption DEF Attend, Stray, Answer, PressEnter, GiveUp, CloseStdin, Inject, TypeOK
<1>3. stdin' \in [Rank -> Seq(Line)]
  <2>1. ASSUME NEW line \in Line, Type(t, line) PROVE stdin' \in [Rank -> Seq(Line)]
    BY <2>1 DEF Type, TypeOK
  <2>2. cur[t] \in Line /\ None \in Line
    BY Lines DEF TypeOK, Line
  <2> QED BY <2>1, <2>2 DEF Attend, Stray, Answer, PressEnter, GiveUp, CloseStdin, TypeOK
<1>4. eof' \in [Rank -> BOOLEAN]
  BY DEF Attend, Stray, GiveUp, CloseStdin, TypeOK
<1>5. TypeOK'
  BY <1>1, <1>2, <1>3, <1>4 DEF TypeOK, control, ledger
<1>6. \A s \in Rank : Same(s)
  BY <1>1 DEF Same, control, ledger
<1> QED BY <1>5, <1>6, Others
-------------------------------------------------------------------------------
LEMMA InvInit == Init => IInv
<1> SUFFICES ASSUME Init PROVE IInv
  OBVIOUS
<1> USE DEF Init
<1>1. TypeOK
  BY Lines, BoundsAssumption DEF TypeOK, Live
<1>2. ASSUME NEW r \in Rank PROVE ProcessInv(r)
  <2>1. CurInv(r)
    BY DEF CurInv, PeerSteps
  <2>2. \A q \in Rank : mappings[r][q] = Unset /\ hal[r][q] = Nothing
    OBVIOUS
  <2>3. \A q \in Rank : Staged(r, q)
    BY <2>2 DEF Staged, Unset, Unreserved, Uncreated, Unmapped, Rank
  <2>4. EntriesInv(r)
    BY <2>2, <2>3 DEF EntriesInv, Backed, Unset
  <2>5. \A q \in Rank : Owed(r, q)
    BY <2>2 DEF Owed, Unset, Nothing
  <2>6. LedgerInv(r)
    BY <2>2, <2>5 DEF LedgerInv
  <2> QED BY <2>1, <2>4, <2>6 DEF ProcessInv
<1> QED BY <1>1, <1>2 DEF IInv

LEMMA InvNext == IInv /\ [Next]_vars => IInv'
<1> SUFFICES ASSUME IInv, [Next]_vars PROVE IInv'
  OBVIOUS
<1>1. ASSUME NEW r \in Rank, Step(r) PROVE IInv'
  BY <1>1, QuietKeeps, ReserveKeeps, CreateKeeps, MapKeeps, PublishKeeps, ReadKeeps, ImportKeeps,
     ReservePeerKeeps, MapPeerKeeps, SetupReturnsKeeps, SetupFailsKeeps,
     ResetCallKeeps, ResetLoopKeeps, ResetReturnsKeeps, ReportKeeps, EndKeeps DEF Step
<1>2. ASSUME NEW r \in Rank, Attend(r) \/ Stray(r) PROVE IInv'
  BY <1>2, PersonKeeps
<1>3. ASSUME NEW r \in Rank, Fault(r) PROVE IInv'
  BY <1>3, SetupFailsKeeps, CleanupFailsKeeps, EndKeeps, PersonKeeps DEF Fault
<1>4. CASE UNCHANGED vars
  <2>1. TypeOK'
    BY <1>4 DEF IInv, TypeOK, vars, control, ledger, terminal
  <2>2. \A s \in Rank : Same(s)
    BY <1>4 DEF Same, vars, control, ledger
  <2> QED BY <2>1, <2>2, Others DEF IInv
<1> QED BY <1>1, <1>2, <1>3, <1>4 DEF Next

\* data_strategy.cc: what mappings_ says of a rank is what the driver holds for
\* it, less what Reset() has given back, whatever fails.
THEOREM Invariance == Spec => []IInv
BY InvInit, InvNext, PTL DEF Spec

\* data_strategy.cc 126-163: when Reset() has returned, nothing is held.
THEOREM ResetLeavesNothing == Spec => []NothingLeft
<1>1. IInv => NothingLeft
  <2> SUFFICES ASSUME IInv, NEW r \in Rank,
                      pc[r] \in {"granularity", "failed", "finalize"} \cup Gone, ~leaked[r]
               PROVE  \A q \in Rank : hal[r][q] = Nothing
    BY DEF NothingLeft, Holding
  <2>1. CASE pc[r] \in Gone
    BY <2>1 DEF IInv, ProcessInv, LedgerInv
  <2>2. CASE pc[r] \in {"granularity", "failed", "finalize"}
    <3>1. ASSUME NEW q \in Rank PROVE mappings[r][q] = Unset
      <4>1. CASE pc[r] = "granularity"
        <5>1. cur[r] = 0 /\ Staged(r, q) /\ ~(q < 0)
          BY <4>1 DEF IInv, ProcessInv, CurInv, EntriesInv, Building, SetupSteps, LocalSteps, CrossSteps,
             PeerSteps, Rank
        <5>2. mappings[r][q] \in Mapping
          BY DEF IInv, TypeOK
        <5> QED BY <4>1, <5>1, <5>2 DEF Staged, Mapping, Unset, Unreserved, Uncreated, Unmapped
      <4>2. CASE pc[r] \in {"failed", "finalize"}
        BY <4>2 DEF IInv, ProcessInv, EntriesInv
      <4> QED BY <2>2, <4>1, <4>2
    <3>2. ASSUME NEW q \in Rank PROVE hal[r][q] = Nothing
      <4>1. Owed(r, q)
        BY <2>2 DEF IInv, ProcessInv, LedgerInv, Live, SetupSteps, LocalSteps
      <4>2. ~hal[r][q].va /\ hal[r][q].ref = None /\ hal[r][q].view = None
        BY <2>2, <3>1, <4>1 DEF Owed, Unset
      <4>3. hal[r][q] \in Driver
        BY DEF IInv, TypeOK
      <4> QED BY <4>2, <4>3 DEF Driver, Nothing
    <3> QED BY <3>2
  <2> QED BY <2>1, <2>2
<1> QED BY <1>1, Invariance, PTL

\* data_strategy.cc 126-163: unmap before release, release before free.
THEOREM MappingsAreBacked == Spec => []MappingBacked
<1>1. IInv => MappingBacked
  <2> SUFFICES ASSUME IInv, NEW r \in Rank, NEW q \in Rank, hal[r][q].view # None, ~leaked[r]
               PROVE  hal[r][q].va /\ hal[r][q].ref = hal[r][q].view
    BY DEF MappingBacked
  <2>1. CASE pc[r] \in Gone
    BY <2>1 DEF IInv, ProcessInv, LedgerInv, Nothing
  <2>2. CASE pc[r] \in Live
    <3>1. Owed(r, q) /\ (mappings[r][q].mapped => mappings[r][q].addr)
      BY <2>2 DEF IInv, ProcessInv, LedgerInv, EntriesInv
    <3> QED BY <3>1 DEF Owed, Released, Unviewed
  <2> QED BY <2>1, <2>2 DEF IInv, TypeOK
<1> QED BY <1>1, Invariance, PTL

\* data_strategy.h 65-68: while main() holds, each slot has one address, and it
\* leads to the memory of the rank that owns the slot.
THEOREM SlotsReachTheirRanks == Spec => []EverySlotReachesItsRank
<1>1. IInv => EverySlotReachesItsRank
  <2> SUFFICES ASSUME IInv, NEW r \in Rank, pc[r] = "hold", NEW slot \in Slot
               PROVE  /\ HostAccessibleOf(r, slot) <=> Owner(slot) = r
                      /\ DataAt(r, slot) = IF Owner(slot) = r THEN Place(Owner(slot), slot) ELSE Null
                      /\ DeviceDataAt(r, slot) =
                           IF Owner(slot) \in Rank \ {r} THEN Place(Owner(slot), slot) ELSE Null
    BY DEF EverySlotReachesItsRank
  <2>1. ready[r] /\ cur[r] = N
    BY DEF IInv, ProcessInv, CurInv
  <2>2. ASSUME NEW q \in Rank PROVE mappings[r][q].mapped /\ hal[r][q].view = q
    <3>1. Staged(r, q) /\ Backed(r, q) /\ q < N
      BY NAssumption DEF IInv, ProcessInv, EntriesInv, Building, Rank
    <3> QED BY <2>1, <3>1 DEF Staged, Backed, Unreserved, Uncreated, Unmapped
  <2> QED BY <2>1, <2>2 DEF HostAccessibleOf, DataAt, DeviceDataAt, AddressIn
<1> QED BY <1>1, Invariance, PTL

-------------------------------------------------------------------------------
(***************************************************************************)
(* The ranks together.  A step of one rank leaves the others where they    *)
(* are, and nobody takes back a DESC line or a SETUP PASS.                 *)
(***************************************************************************)
Alone(s) ==
  /\ pc'[s] = pc[s] /\ cur'[s] = cur[s] /\ purpose'[s] = purpose[s] /\ ready'[s] = ready[s]
  /\ printed'[s] = printed[s] /\ stdin'[s] = stdin[s] /\ eof'[s] = eof[s]

LEMMA OneMoves ==
  ASSUME IInv, Together, NEW r \in Rank, \A s \in Rank \ {r} : Alone(s),
         ready[r] => ready'[r], printed[r] => printed'[r], TogetherInv(r)'
  PROVE  Together'
<1>1. \A q \in Rank : (ready[q] => ready'[q]) /\ (printed[q] => printed'[q])
  BY DEF Alone
<1>2. ASSUME NEW s \in Rank \ {r} PROVE TogetherInv(s)'
  <2>1. pc[s] \in PeerSteps => cur[s] \in Rank
    BY DEF IInv, ProcessInv, CurInv
  <2>2. pc[s] = "read" => pc[s] \in PeerSteps
    BY DEF PeerSteps
  <2>3. TogetherInv(s) /\ Alone(s)
    BY DEF Together
  <2> QED BY <1>1, <2>1, <2>2, <2>3 DEF TogetherInv, Alone
<1> QED BY <1>2 DEF Together

\* The steps of Setup up to the DESC line.
LEMMA EarlyTogether ==
  ASSUME IInv, Together, NEW r \in Rank,
         AclInit(r) \/ SetDevice(r) \/ QueryGranularity(r) \/ Reserve(r) \/ Create(r) \/ Map(r)
           \/ Export(r) \/ DisableWhitelist(r)
  PROVE  Together'
<1> DEFINE Early == {"init", "device", "export", "whitelist", "publish"} \cup LocalSteps
<1>1. PICK step \in Early : pc[r] \in Early /\ pc' = [pc EXCEPT ![r] = step]
  BY DEF AclInit, SetDevice, QueryGranularity, Reserve, Create, Map, Export, DisableWhitelist, Prepare, Silent,
     Goto, LocalSteps
<1>2. UNCHANGED <<cur, purpose, ready, printed, stdin, eof>>
  BY DEF AclInit, SetDevice, QueryGranularity, Reserve, Create, Map, Export, DisableWhitelist, Prepare, Silent,
     ReserveRankAddress, MemMap, terminal
<1>3. pc'[r] = step /\ \A s \in Rank \ {r} : Alone(s)
  BY <1>1, <1>2 DEF IInv, TypeOK, Alone
<1>4. \A x \in Early : x \notin Published /\ x \notin After \cup {"hold", "read", "failed", "killed"}
  BY DEF Published, PeerSteps, After, ResetSteps, LocalSteps
<1>5. TogetherInv(r)'
  BY <1>1, <1>2, <1>3, <1>4 DEF Together, TogetherInv, After, Published
<1> QED BY <1>2, <1>3, <1>5, OneMoves

LEMMA PublishTogether ==
  ASSUME IInv, Together, NEW r \in Rank, SetRankDesc(r)
  PROVE  Together'
<1>1. PICK step \in {"read", "done"} : pc[r] = "publish" /\ pc' = [pc EXCEPT ![r] = step]
  BY DEF SetRankDesc, ReadPeer, Goto
<1>2. /\ UNCHANGED <<purpose, ready, stdin, eof>> /\ printed' = [printed EXCEPT ![r] = TRUE]
      /\ cur' = [cur EXCEPT ![r] = PeerFrom(r, 0)]
  BY DEF SetRankDesc, ReadPeer
<1>3. pc'[r] = step /\ printed'[r] /\ \A s \in Rank \ {r} : Alone(s)
  BY <1>1, <1>2 DEF IInv, TypeOK, Alone
<1>4. TogetherInv(r)'
  BY <1>1, <1>2, <1>3 DEF Together, TogetherInv, Published, PeerSteps, After, ResetSteps
<1> QED BY <1>2, <1>3, <1>4, OneMoves

\* The only line a rank finds in its input is the one it waits for.
LEMMA ReadTogether ==
  ASSUME IInv, Together, NEW r \in Rank, GetRankDesc(r)
  PROVE  Together'
<1>1. pc[r] = "read" /\ stdin[r] # <<>> /\ stdin' = [stdin EXCEPT ![r] = Tail(@)]
  BY DEF GetRankDesc
<1>2. stdin[r] = <<cur[r]>> /\ printed[cur[r]]
  BY <1>1 DEF Together, TogetherInv
<1>3. Head(stdin[r]) = cur[r] /\ Tail(stdin[r]) = <<>>
  BY <1>2
<1>4. /\ pc' = [pc EXCEPT ![r] = "import"]
      /\ UNCHANGED <<cur, purpose, ready, printed, eof>>
  BY <1>3 DEF GetRankDesc, ExpectedDescriptor, Goto
<1>5. pc'[r] = "import" /\ stdin'[r] = <<>> /\ \A s \in Rank \ {r} : Alone(s)
  BY <1>1, <1>3, <1>4 DEF IInv, TypeOK, Alone
<1>6. TogetherInv(r)'
  BY <1>1, <1>2, <1>4, <1>5 DEF Together, TogetherInv, Published, PeerSteps, After, ResetSteps
<1> QED BY <1>4, <1>5, <1>6, OneMoves

LEMMA PeerTogether ==
  ASSUME IInv, Together, NEW r \in Rank, Import(r) \/ ReservePeer(r) \/ MapPeer(r)
  PROVE  Together'
<1>1. UNCHANGED <<purpose, ready, printed, stdin, eof>>
  BY DEF Import, ReservePeer, MapPeer, ReserveRankAddress, MemMap, terminal
<1>2. PICK step \in PeerSteps \cup {"done"} :
        /\ pc[r] \in PeerSteps \ {"read"} /\ pc' = [pc EXCEPT ![r] = step]
        /\ \A s \in Rank \ {r} : cur'[s] = cur[s]
        /\ step \in PeerSteps \ {"read"} => cur'[r] = cur[r]
  <2>1. CASE Import(r)
    BY <2>1 DEF Import, Goto, PeerSteps
  <2>2. CASE ReservePeer(r)
    BY <2>2 DEF ReservePeer, ReserveRankAddress, Goto, PeerSteps
  <2>3. CASE MapPeer(r)
    <3>1. pc[r] = "mappeer" /\ cur' = [cur EXCEPT ![r] = PeerFrom(r, cur[r] + 1)]
      BY <2>3 DEF MapPeer, ReadPeer
    <3>2. PICK step \in {"read", "done"} : pc' = [pc EXCEPT ![r] = step]
      BY <2>3 DEF MapPeer, ReadPeer, Goto
    <3>3. \A s \in Rank \ {r} : cur'[s] = cur[s]
      BY <3>1 DEF IInv, TypeOK
    <3> QED BY <3>1, <3>2, <3>3 DEF PeerSteps
  <2> QED BY <2>1, <2>2, <2>3
<1>3. pc'[r] = step /\ \A s \in Rank \ {r} : Alone(s)
  BY <1>1, <1>2 DEF IInv, TypeOK, Alone
<1>4. TogetherInv(r)'
  BY <1>1, <1>2, <1>3 DEF Together, TogetherInv, Published, PeerSteps, After, ResetSteps
<1> QED BY <1>1, <1>3, <1>4, OneMoves

LEMMA SetupReturnsTogether ==
  ASSUME IInv, Together, NEW r \in Rank, SetupReturns(r)
  PROVE  Together'
<1>1. /\ pc[r] = "done" /\ pc' = [pc EXCEPT ![r] = "hold"] /\ ready' = [ready EXCEPT ![r] = TRUE]
      /\ UNCHANGED <<cur, purpose, printed, stdin, eof>>
  BY DEF SetupReturns, Goto, terminal
<1>2. pc'[r] = "hold" /\ ready'[r] /\ \A s \in Rank \ {r} : Alone(s)
  BY <1>1 DEF IInv, TypeOK, Alone
<1>3. TogetherInv(r)'
  BY <1>1, <1>2 DEF Together, TogetherInv, Published, PeerSteps, After, ResetSteps
<1> QED BY <1>1, <1>2, <1>3, OneMoves

\* main() reads a line, and the person types it when every rank is ready.
LEMMA LeaveTogether ==
  ASSUME IInv, Together, NEW r \in Rank, LeaveHold(r)
  PROVE  Together'
<1>1. /\ pc[r] = "hold" /\ stdin[r] # <<>> /\ ~eof[r] /\ ready[r] /\ printed[r]
      /\ \A q \in Rank : ready[q]
  BY DEF LeaveHold, Acknowledged, Together, TogetherInv, Published
<1>2. /\ pc' = [pc EXCEPT ![r] = "unmap"] /\ purpose' = [purpose EXCEPT ![r] = "destroy"]
      /\ cur' = [cur EXCEPT ![r] = 0] /\ stdin' = [stdin EXCEPT ![r] = Tail(@)]
      /\ UNCHANGED <<ready, printed, eof>>
  BY <1>1 DEF LeaveHold, Goto
<1>3. pc'[r] = "unmap" /\ purpose'[r] = "destroy" /\ \A s \in Rank \ {r} : Alone(s)
  BY <1>2 DEF IInv, TypeOK, Alone
<1>4. TogetherInv(r)'
  BY <1>1, <1>2, <1>3 DEF TogetherInv, Published, PeerSteps, After, ResetSteps
<1> QED BY <1>2, <1>3, <1>4, OneMoves

\* Reset() and the end of main(), after the hold.
LEMMA ResetTogether ==
  ASSUME IInv, Together, NEW r \in Rank,
         ResetCall(r) \/ ResetLoop(r) \/ ResetReturns(r) \/ ReportFailure(r) \/ Finalize(r)
  PROVE  Together'
<1>1. pc[r] \in ResetSteps \cup {"failed", "finalize"}
  <2>1. ASSUME ResetCall(r) PROVE pc[r] \in ResetSteps
    BY <2>1 DEF ResetCall, NextCall, Pending, ResetSteps
  <2> QED BY <2>1 DEF ResetLoop, ResetReturns, ReportFailure, Finalize, ResetSteps
<1>2. /\ pc[r] \in After /\ ~eof[r] /\ ready[r] /\ printed[r] /\ \A q \in Rank : ready[q]
      /\ pc[r] \in ResetSteps => purpose[r] = "destroy"
  BY <1>1 DEF Together, TogetherInv, After, Published
<1>3. UNCHANGED <<purpose, ready, printed, stdin, eof>>
  BY DEF ResetCall, ResetLoop, ResetReturns, ReportFailure, Finalize, Reclaim, terminal
<1>4. PICK step \in After :
        /\ pc' = [pc EXCEPT ![r] = step] /\ \A s \in Rank \ {r} : cur'[s] = cur[s]
        /\ step \in ResetSteps => pc[r] \in ResetSteps
  <2>1. CASE ResetCall(r)
    <3>1. UNCHANGED pc /\ \A s \in Rank \ {r} : cur'[s] = cur[s]
      BY <2>1 DEF ResetCall, IInv, TypeOK
    <3>2. pc' = [pc EXCEPT ![r] = pc[r]]
      BY <3>1 DEF IInv, TypeOK
    <3> QED BY <1>2, <3>1, <3>2
  <2>2. CASE ResetLoop(r)
    BY <2>2 DEF ResetLoop, NextLoop, Goto, After, ResetSteps, IInv, TypeOK
  <2>3. CASE ResetReturns(r)
    BY <1>2, <2>3 DEF ResetReturns, Goto, After, ResetSteps, IInv, TypeOK
  <2>4. CASE ReportFailure(r)
    BY <1>2, <2>4 DEF ReportFailure, After, ResetSteps
  <2>5. CASE Finalize(r)
    <3>1. pc' = [pc EXCEPT ![r] = "exited"] /\ UNCHANGED cur
      BY <2>5 DEF Finalize, Reclaim, Goto
    <3>2. pc[r] = "finalize" /\ "exited" \in After /\ "exited" \notin ResetSteps
      BY <2>5 DEF Finalize, After, ResetSteps
    <3> QED BY <3>1, <3>2
  <2> QED BY <2>1, <2>2, <2>3, <2>4, <2>5
<1>5. pc'[r] = step /\ \A s \in Rank \ {r} : Alone(s)
  BY <1>3, <1>4 DEF IInv, TypeOK, Alone
<1>6. TogetherInv(r)'
  BY <1>2, <1>3, <1>4, <1>5 DEF TogetherInv, Published, PeerSteps, After, ResetSteps
<1> QED BY <1>3, <1>5, <1>6, OneMoves

\* What a rank has printed and not yet released can be imported.
LEMMA PublishedAllocated ==
  ASSUME IInv, NEW q \in Rank, pc[q] \in Published \ After
  PROVE  Allocated(q)
<1>1. pc[q] \in Building /\ pc[q] \notin Uncreated
  BY DEF Published, PeerSteps, Building, SetupSteps, CrossSteps, Uncreated, Unreserved
<1>2. Staged(q, q) /\ Backed(q, q)
  BY <1>1 DEF IInv, ProcessInv, EntriesInv
<1> QED BY <1>1, <1>2 DEF Staged, Backed, Allocated, Rank, None

LEMMA NothingRefused ==
  ASSUME IInv, Together, NEW r \in Rank
  PROVE  ~Refused(r) /\ ~InputEnds(r) /\ ~GiveUp(r)
<1>1. ASSUME Refused(r) PROVE FALSE
  <2>1. /\ pc[r] \in {"import", "mappeer"} /\ pc[r] \in PeerSteps \ {"read"} /\ pc[r] \notin After \cup {"hold"}
    BY <1>1 DEF Refused, PeerSteps, After, ResetSteps
  <2>2. cur[r] \in Rank /\ printed[cur[r]] /\ ~ready[r]
    BY <2>1 DEF IInv, ProcessInv, CurInv, Together, TogetherInv
  <2>3. pc[cur[r]] \in Published \ After
    BY <2>2 DEF Together, TogetherInv
  <2>4. Allocated(cur[r])
    BY <2>2, <2>3, PublishedAllocated
  <2>5. (pc[r] = "import" => desc[r] = cur[r]) /\ (pc[r] = "mappeer" => mappings[r][cur[r]].handle = cur[r])
    <3>1. pc[r] \in Building
      BY <2>1 DEF Building, SetupSteps, CrossSteps
    <3>2. Staged(r, cur[r]) /\ cur[r] # r /\ (pc[r] = "import" => desc[r] = cur[r])
      BY <2>1, <2>2, <3>1 DEF IInv, ProcessInv, CurInv, EntriesInv
    <3> QED BY <3>2 DEF Staged
  <2> QED BY <1>1, <2>4, <2>5 DEF Refused
<1>2. ~InputEnds(r)
  BY DEF InputEnds, Together, TogetherInv
<1>3. ASSUME GiveUp(r) PROVE FALSE
  <2>1. cur[r] \in Rank
    BY <1>3 DEF GiveUp, IInv, ProcessInv, CurInv, PeerSteps
  <2> QED BY <1>3, <2>1 DEF GiveUp, Together, TogetherInv, Gone, Published, After
<1> QED BY <1>1, <1>2, <1>3

LEMMA AttendTogether ==
  ASSUME IInv, Together, NEW t \in Rank, Attend(t)
  PROVE  Together'
<1>1. /\ Answer(t) \/ PressEnter(t)
      /\ UNCHANGED <<pc, cur, purpose, ready, printed, eof>>
  BY NothingRefused DEF Attend, control
<1>2. CASE Answer(t)
  <2>1. pc[t] = "read" /\ stdin[t] = <<>> /\ printed[cur[t]] /\ stdin' = [stdin EXCEPT ![t] = Append(@, cur[t])]
    BY <1>2 DEF Answer, Type
  <2>2. stdin'[t] = <<cur[t]>> /\ \A s \in Rank \ {t} : Alone(s)
    BY <1>1, <2>1 DEF IInv, TypeOK, Alone
  <2>3. TogetherInv(t)'
    BY <1>1, <2>1, <2>2 DEF Together, TogetherInv, Published, PeerSteps, After, ResetSteps
  <2> QED BY <1>1, <2>2, <2>3, OneMoves
<1>3. CASE PressEnter(t)
  <2>1. pc[t] = "hold" /\ \A q \in Rank : ready[q] \/ pc[q] \in Gone
    BY <1>3 DEF PressEnter
  <2>2. \A q \in Rank : ready[q]
    BY <2>1 DEF Together, TogetherInv, Gone, After
  <2>3. \A s \in Rank \ {t} : Alone(s)
    BY <1>1, <1>3 DEF PressEnter, Type, IInv, TypeOK, Alone
  <2>4. TogetherInv(t)'
    BY <1>1, <2>1, <2>2 DEF Together, TogetherInv, Published, PeerSteps, After, ResetSteps
  <2> QED BY <1>1, <2>3, <2>4, OneMoves
<1> QED BY <1>1, <1>2, <1>3

LEMMA SmoothInit == Init => Together
<1> SUFFICES ASSUME Init, NEW r \in Rank PROVE TogetherInv(r)
  BY DEF Together
<1> QED BY DEF Init, TogetherInv, Published, PeerSteps, After, ResetSteps

LEMMA SmoothNext ==
  ASSUME MaxFaults = 0, MaxStray = 0, IInv, Together, [Next]_vars
  PROVE  Together'
<1>1. ASSUME NEW r \in Rank, Step(r) PROVE Together'
  BY <1>1, EarlyTogether, PublishTogether, ReadTogether, PeerTogether, SetupReturnsTogether, LeaveTogether,
     ResetTogether, NothingRefused DEF Step
<1>2. ~Inject /\ \A r \in Rank : ~Stray(r)
  BY DEF Inject, Stray, IInv, TypeOK
<1>3. \A r \in Rank : ~Fault(r)
  BY <1>2 DEF Fault, CallFails, ResizeThrows, CleanupFails, AclFails, Killed
<1>4. CASE UNCHANGED vars
  BY <1>4 DEF Together, TogetherInv, vars, control, terminal
<1> QED BY <1>1, <1>2, <1>3, <1>4, AttendTogether DEF Next

\* main.cpp 78: with nothing failing, and a person who types what is asked and
\* no more, a rank whose Setup passed keeps its memory until the last has
\* mapped it.  (A line typed too early ends that: see the run with stray lines.)
THEOREM HeldTogether ==
  ASSUME MaxFaults = 0, MaxStray = 0
  PROVE  Spec => []HeldUntilAllReady
<1>1. IInv /\ Together => HeldUntilAllReady
  <2> SUFFICES ASSUME IInv, Together, NEW r \in Rank, NEW q \in Rank, ready[r], pc[q] \in SetupSteps
               PROVE  Allocated(r)
    BY DEF HeldUntilAllReady
  <2>1. pc[q] \notin After \cup {"hold"}
    BY DEF SetupSteps, LocalSteps, CrossSteps, After, ResetSteps
  <2>2. ~ready[q] /\ pc[r] \in After \cup {"hold"} /\ pc[r] \notin After
    BY <2>1 DEF Together, TogetherInv
  <2> QED BY <2>2, PublishedAllocated DEF Published
<1>2. Init => Together
  BY SmoothInit
<1>3. IInv /\ Together /\ [Next]_vars => Together'
  BY SmoothNext
<1> QED BY <1>1, <1>2, <1>3, Invariance, PTL DEF Spec
===============================================================================
