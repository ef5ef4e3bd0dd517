---------------------------- MODULE SharePairProofs ----------------------------
(***************************************************************************)
(* Theorems about SharePair: the shared buffer is passed in strict turns,  *)
(* the flags are the grants, the verdict is true, and every step of the    *)
(* pair is a step of CasePair or none of it.                               *)
(*                                                                         *)
(* The argument is a proof outline of the eight scripts.  Each entry is    *)
(* annotated with the words exchanged before it and, when it is the        *)
(* process's turn, the pattern then in the buffer; lemmas about the tables *)
(* say that the annotations follow from each other, and the inductive      *)
(* invariant says that every process stands where its annotation says.     *)
(***************************************************************************)
EXTENDS SharePair, TLAPS

(***************************************************************************)
(* The scripts, entry by entry: the operation, its resource or word, how   *)
(* many words were exchanged before it, and the pattern in the buffer, 0   *)
(* when it is not the process's turn.  One more entry stands for the end.  *)
(* A read finds the pattern of its entry, a write leaves that of the next. *)
(***************************************************************************)
HostShareCreator ==
  [op   |-> << "take", "take", "call", "take", "take", "take", "fill", "verify", "call", "call",
               "send", "expect", "verify", "io", "send", "add", "verify", "send", "expect", "end" >>,
   arg  |-> << "acl", "device", "none", "va", "handle", "mapped", "none", "none", "none", "none",
               "token", "0", "none", "none", "303", "none", "none", "0", "0", "none" >>,
   turn |-> << 0, 0, 0, 0, 0, 0, 0, 0, 0, 0, 0, 1, 2, 2, 2, 3, 4, 4, 5, 6 >>,
   sown |-> << 0, 0, 0, 0, 0, 0, 0, 101, 101, 101, 101, 0, 202, 202, 303, 0, 404, 404, 0, 404 >>]

HostShareImporter ==
  [op   |-> << "take", "take", "call", "expect", "take", "take", "take", "verify", "fill",
               "verify", "send", "expect", "verify", "io", "send", "expect", "drop", "drop",
               "drop", "send", "end" >>,
   arg  |-> << "acl", "device", "none", "token", "va", "handle", "mapped", "none", "none",
               "none", "0", "303", "none", "none", "failures", "0", "mapped", "handle", "va",
               "0", "none" >>,
   turn |-> << 0, 0, 0, 0, 1, 1, 1, 1, 1, 1, 1, 2, 3, 3, 3, 4, 5, 5, 5, 5, 6 >>,
   sown |-> << 0, 0, 0, 0, 101, 101, 101, 101, 101, 202, 202, 0, 303, 303, 404, 0, 404, 404, 404,
               404, 0 >>]

DeviceShareCreator ==
  [op   |-> << "take", "call", "take", "take", "take", "take", "take", "fill", "take", "take",
               "take", "copy_out", "call", "call", "send", "expect", "verify", "send", "expect",
               "end" >>,
   arg  |-> << "library", "none", "tsd", "device", "va", "handle", "mapped", "none", "hbm_va",
               "hbm_handle", "hbm_mapped", "none", "none", "none", "token", "0", "none", "0",
               "0", "none" >>,
   turn |-> << 0, 0, 0, 0, 0, 0, 0, 0, 0, 0, 0, 0, 0, 0, 0, 1, 2, 2, 3, 4 >>,
   sown |-> << 0, 0, 0, 0, 0, 0, 0, 0, 101, 101, 101, 101, 101, 101, 101, 0, 202, 202, 0, 202 >>]

DeviceShareImporter ==
  [op   |-> << "take", "call", "take", "take", "expect", "take", "take", "take", "take", "take",
               "take", "copy_out", "copy_in", "copy_out", "send", "expect", "drop", "drop",
               "drop", "send", "end" >>,
   arg  |-> << "library", "none", "tsd", "device", "token", "va", "handle", "mapped", "hbm_va",
               "hbm_handle", "hbm_mapped", "none", "none", "none", "0", "0", "mapped", "handle",
               "va", "0", "none" >>,
   turn |-> << 0, 0, 0, 0, 0, 1, 1, 1, 1, 1, 1, 1, 1, 1, 1, 2, 3, 3, 3, 3, 4 >>,
   sown |-> << 0, 0, 0, 0, 0, 101, 101, 101, 101, 101, 101, 101, 101, 202, 202, 0, 202, 202, 202,
               202, 0 >>]

HalMapHostCreator ==
  [op   |-> << "take", "take", "take", "take", "fill", "call", "call", "send", "expect",
               "verify", "send", "expect", "end" >>,
   arg  |-> << "device", "va", "handle", "mapped", "none", "none", "none", "token", "0", "none",
               "0", "0", "none" >>,
   turn |-> << 0, 0, 0, 0, 0, 0, 0, 0, 1, 2, 2, 3, 4 >>,
   sown |-> << 0, 0, 0, 0, 0, 101, 101, 101, 0, 202, 202, 0, 202 >>]

HalMapHostImporter ==
  [op   |-> << "take", "expect", "take", "call", "take", "take", "verify", "fill", "send",
               "expect", "drop", "drop", "drop", "send", "end" >>,
   arg  |-> << "device", "token", "va", "none", "handle", "mapped", "none", "none", "0", "0",
               "mapped", "handle", "va", "0", "none" >>,
   turn |-> << 0, 0, 1, 1, 1, 1, 1, 1, 1, 2, 3, 3, 3, 3, 4 >>,
   sown |-> << 0, 0, 101, 101, 101, 101, 101, 101, 202, 0, 202, 202, 202, 202, 0 >>]

HalMapDeviceCreator ==
  [op   |-> << "take", "take", "take", "take", "fill", "call", "call", "send", "expect", "send",
               "expect", "end" >>,
   arg  |-> << "device", "va", "handle", "mapped", "none", "none", "none", "token", "0", "0",
               "0", "none" >>,
   turn |-> << 0, 0, 0, 0, 0, 0, 0, 0, 1, 2, 3, 4 >>,
   sown |-> << 0, 0, 0, 0, 0, 101, 101, 101, 0, 101, 0, 101 >>]

HalMapDeviceImporter ==
  [op   |-> << "take", "expect", "take", "take", "take", "send", "expect", "drop", "drop",
               "drop", "send", "end" >>,
   arg  |-> << "device", "token", "va", "handle", "mapped", "0", "0", "mapped", "handle", "va",
               "0", "none" >>,
   turn |-> << 0, 0, 1, 1, 1, 1, 2, 3, 3, 3, 3, 4 >>,
   sown |-> << 0, 0, 101, 101, 101, 101, 0, 101, 101, 101, 101, 0 >>]

Plan ==
  [host_share     |-> [creator |-> HostShareCreator, importer |-> HostShareImporter],
   device_share   |-> [creator |-> DeviceShareCreator, importer |-> DeviceShareImporter],
   hal_map_host   |-> [creator |-> HalMapHostCreator, importer |-> HalMapHostImporter],
   hal_map_device |-> [creator |-> HalMapDeviceCreator, importer |-> HalMapDeviceImporter]]

Size ==
  [host_share     |-> [creator |-> 19, importer |-> 20],
   device_share   |-> [creator |-> 19, importer |-> 20],
   hal_map_host   |-> [creator |-> 12, importer |-> 14],
   hal_map_device |-> [creator |-> 11, importer |-> 11]]

(***************************************************************************)
(* The words of each conversation, and the pattern in the buffer as each   *)
(* is spoken, by the number of words before it.  The creator speaks first, *)
(* and they alternate.                                                     *)
(***************************************************************************)
WordAt(p, n) ==
  CASE n = 0 -> "token"
    [] p = "host_share" /\ n = 2 -> "303"
    [] p = "host_share" /\ n = 3 -> "failures"
    [] OTHER -> "0"
PatternAt(p, n) ==
  CASE n = 0 \/ p = "hal_map_device" -> 101
    [] p = "host_share" /\ n = 2 -> 303
    [] p = "host_share" /\ n > 2 -> 404
    [] OTHER -> 202
LastTurn == [host_share |-> 6, device_share |-> 4, hal_map_host |-> 4, hal_map_device |-> 4]
LastPattern ==
  [host_share |-> 404, device_share |-> 202, hal_map_host |-> 202, hal_map_device |-> 101]

MyTurn(r, n) == n \in (IF r = "creator" THEN {0, 2, 4, 6} ELSE {1, 3, 5})

Seed == {101, 202, 303, 404}
Hearing == {"expect", "add"}
Accesses == Writing \cup Reading
Named == {"take", "drop", "send", "expect"}
Keeping == {"take", "drop", "call"} \cup Reading
Covered(p) == {Unwind[p][k] : k \in 1 .. Len(Unwind[p])}

(***************************************************************************)
(* How the annotations follow from each other: what an entry keeps, what   *)
(* an access needs and leaves, what a word is and hands over, what a       *)
(* resource is and who drops it again, and where a conversation begins and *)
(* ends.                                                                   *)
(***************************************************************************)
Keeps(r, q, n) ==
  \A i \in 1 .. n :
    /\ q.op[i] \notin {"send"} \cup Hearing => q.turn[i + 1] = q.turn[i]
    /\ q.op[i] \in Keeping => q.sown[i + 1] = q.sown[i]
    /\ q.op[i] \in Accesses => MyTurn(r, q.turn[i])
    /\ q.op[i] = "copy_in" => q.op[i + 1] = "copy_out"

Speaks(p, r, q, n) ==
  \A i \in 1 .. n : q.op[i] = "send" =>
    /\ MyTurn(r, q.turn[i])
    /\ q.turn[i + 1] = q.turn[i] + 1
    /\ q.arg[i] = WordAt(p, q.turn[i])
    /\ q.sown[i] = PatternAt(p, q.turn[i])

Hears(p, r, q, n) ==
  \A i \in 1 .. n : q.op[i] \in Hearing =>
    /\ ~MyTurn(r, q.turn[i])
    /\ q.turn[i + 1] = q.turn[i] + 1
    /\ q.op[i] = "expect" => q.arg[i] = WordAt(p, q.turn[i])
    /\ q.op[i] = "add" <=> WordAt(p, q.turn[i]) = "failures"
    /\ q.sown[i + 1] = PatternAt(p, q.turn[i])

Holds(p, r, q, n) ==
  \A i \in 1 .. n :
    /\ q.op[i] = "take" => q.arg[i] \in Resource \cap Covered(p)
    /\ r = "importer" /\ q.op[i] = "take" /\ q.arg[i] \in Shared =>
         \E k \in i + 1 .. n : q.op[k] = "drop" /\ q.arg[k] = q.arg[i]

Bounds(p, r, q, n) ==
  /\ q.turn[1] = 0 /\ q.turn[n + 1] = LastTurn[p] /\ q.op[n + 1] = "end"
  /\ \A i \in 1 .. n + 1 : q.turn[i] \in 0 .. LastTurn[p] /\ q.sown[i] \in {0} \cup Seed
  /\ r = "creator" => q.sown[1] = 0 /\ q.sown[n + 1] = LastPattern[p]
  /\ r = "importer" => q.op[n] = "send" /\ \A i \in 1 .. n : q.turn[i] < LastTurn[p]

Outline(p, r, q, n) ==
  Keeps(r, q, n) /\ Speaks(p, r, q, n) /\ Hears(p, r, q, n) /\ Holds(p, r, q, n) /\ Bounds(p, r, q, n)

\* The columns are the script.
Transcribes(p, r, q, n) ==
  /\ Len(Script[p][r]) = n
  /\ \A i \in 1 .. n :
       /\ Script[p][r][i][1] = q.op[i]
       /\ q.op[i] \in Reading => Script[p][r][i][2] = q.sown[i]
       /\ q.op[i] \in Writing => Script[p][r][i][2] = q.sown[i + 1]
       /\ q.op[i] \in Named => Script[p][r][i][2] = q.arg[i]
-----------------------------------------------------------------------------
LEMMA Entries ==
  /\ \A x : /\ Take(x)[1] = "take" /\ Take(x)[2] = x /\ Drop(x)[1] = "drop" /\ Drop(x)[2] = x
            /\ Fill(x)[1] = "fill" /\ Fill(x)[2] = x /\ Verify(x)[1] = "verify" /\ Verify(x)[2] = x
            /\ CopyIn(x)[1] = "copy_in" /\ CopyIn(x)[2] = x
            /\ CopyOut(x)[1] = "copy_out" /\ CopyOut(x)[2] = x
            /\ IoTests(x)[1] = "io" /\ IoTests(x)[2] = x
            /\ Send(x)[1] = "send" /\ Send(x)[2] = x /\ Expect(x)[1] = "expect" /\ Expect(x)[2] = x
  /\ Call[1] = "call" /\ AddFailures[1] = "add" 
  /\ SendFailures[1] = "send" /\ SendFailures[2] = "failures"
BY DEF Take, Drop, Call, Fill, Verify, CopyIn, CopyOut, IoTests, Send, SendFailures, Expect, AddFailures

LEMMA HostShareCreatorText == Transcribes("host_share", "creator", HostShareCreator, 19)
<1> DEFINE s ==
  <<Take("acl"), Take("device"), Call, Take("va"), Take("handle"), Take("mapped"), Fill(101),
    Verify(101), Call, Call, Send("token"), Expect("0"), Verify(202), IoTests(303), Send("303"),
    AddFailures, Verify(404), Send("0"), Expect("0")>>
<1>1. Len(Script["host_share"]["creator"]) = 19 /\ \A i \in 1 .. 19 :
        Script["host_share"]["creator"][i] = s[i]
  BY DEF Script, Programs, HostShare, Mapping, Unmapping
<1>2. /\ s[1][1] = "take" /\ s[2][1] = "take" /\ s[3][1] = "call" /\ s[4][1] = "take" /\
         s[5][1] = "take" /\ s[6][1] = "take" /\ s[7][1] = "fill" /\ s[8][1] = "verify" /\
         s[9][1] = "call" /\ s[10][1] = "call" /\ s[11][1] = "send" /\ s[12][1] = "expect" /\
         s[13][1] = "verify" /\ s[14][1] = "io" /\ s[15][1] = "send" /\ s[16][1] = "add" /\
         s[17][1] = "verify" /\ s[18][1] = "send" /\ s[19][1] = "expect"
  BY Entries
<1>3. /\ s[1][2] = "acl" /\ s[2][2] = "device" /\ s[4][2] = "va" /\ s[5][2] = "handle" /\
         s[6][2] = "mapped" /\ s[11][2] = "token" /\ s[12][2] = "0" /\ s[15][2] = "303" /\
         s[18][2] = "0" /\ s[19][2] = "0"
  BY Entries
<1>4. /\ s[7][2] = 101 /\ s[8][2] = 101 /\ s[13][2] = 202 /\ s[14][2] = 303 /\
         s[17][2] = 404
  BY Entries
<1> HIDE DEF s
<1>5. \A i \in 1 .. 19 : s[i][1] = HostShareCreator.op[i]
  BY <1>2 DEF HostShareCreator
<1>6. \A i \in 1 .. 19 : HostShareCreator.op[i] \in Reading => s[i][2] = HostShareCreator.sown[i]
  BY <1>4 DEF HostShareCreator, Reading
<1>7. \A i \in 1 .. 19 : HostShareCreator.op[i] \in Writing => s[i][2] = HostShareCreator.sown[i + 1]
  BY <1>4 DEF HostShareCreator, Writing
<1>8. \A i \in 1 .. 19 : HostShareCreator.op[i] \in Named => s[i][2] = HostShareCreator.arg[i]
  BY <1>3 DEF HostShareCreator, Named
<1> QED
  BY <1>1, <1>5, <1>6, <1>7, <1>8 DEF Transcribes

LEMMA HostShareImporterText == Transcribes("host_share", "importer", HostShareImporter, 20)
<1> DEFINE s ==
  <<Take("acl"), Take("device"), Call, Expect("token"), Take("va"), Take("handle"),
    Take("mapped"), Verify(101), Fill(202), Verify(202), Send("0"), Expect("303"), Verify(303),
    IoTests(404), SendFailures, Expect("0"), Drop("mapped"), Drop("handle"), Drop("va"), Send("0")>>
<1>1. Len(Script["host_share"]["importer"]) = 20 /\ \A i \in 1 .. 20 :
        Script["host_share"]["importer"][i] = s[i]
  BY DEF Script, Programs, HostShare, Mapping, Unmapping
<1>2. /\ s[1][1] = "take" /\ s[2][1] = "take" /\ s[3][1] = "call" /\ s[4][1] = "expect" /\
         s[5][1] = "take" /\ s[6][1] = "take" /\ s[7][1] = "take" /\ s[8][1] = "verify" /\
         s[9][1] = "fill" /\ s[10][1] = "verify" /\ s[11][1] = "send" /\
         s[12][1] = "expect" /\ s[13][1] = "verify" /\ s[14][1] = "io" /\
         s[15][1] = "send" /\ s[16][1] = "expect" /\ s[17][1] = "drop" /\
         s[18][1] = "drop" /\ s[19][1] = "drop" /\ s[20][1] = "send"
  BY Entries
<1>3. /\ s[1][2] = "acl" /\ s[2][2] = "device" /\ s[4][2] = "token" /\ s[5][2] = "va" /\
         s[6][2] = "handle" /\ s[7][2] = "mapped" /\ s[11][2] = "0" /\ s[12][2] = "303" /\
         s[15][2] = "failures" /\ s[16][2] = "0" /\ s[17][2] = "mapped" /\
         s[18][2] = "handle" /\ s[19][2] = "va" /\ s[20][2] = "0"
  BY Entries
<1>4. /\ s[8][2] = 101 /\ s[9][2] = 202 /\ s[10][2] = 202 /\ s[13][2] = 303 /\
         s[14][2] = 404
  BY Entries
<1> HIDE DEF s
<1>5. \A i \in 1 .. 20 : s[i][1] = HostShareImporter.op[i]
  BY <1>2 DEF HostShareImporter
<1>6. \A i \in 1 .. 20 : HostShareImporter.op[i] \in Reading => s[i][2] = HostShareImporter.sown[i]
  BY <1>4 DEF HostShareImporter, Reading
<1>7. \A i \in 1 .. 20 : HostShareImporter.op[i] \in Writing => s[i][2] = HostShareImporter.sown[i + 1]
  BY <1>4 DEF HostShareImporter, Writing
<1>8. \A i \in 1 .. 20 : HostShareImporter.op[i] \in Named => s[i][2] = HostShareImporter.arg[i]
  BY <1>3 DEF HostShareImporter, Named
<1> QED
  BY <1>1, <1>5, <1>6, <1>7, <1>8 DEF Transcribes

LEMMA DeviceShareCreatorText == Transcribes("device_share", "creator", DeviceShareCreator, 19)
<1> DEFINE s ==
  <<Take("library"), Call, Take("tsd"), Take("device"), Take("va"), Take("handle"),
    Take("mapped"), Fill(101), Take("hbm_va"), Take("hbm_handle"), Take("hbm_mapped"),
    CopyOut(101), Call, Call, Send("token"), Expect("0"), Verify(202), Send("0"), Expect("0")>>
<1>1. Len(Script["device_share"]["creator"]) = 19 /\ \A i \in 1 .. 19 :
        Script["device_share"]["creator"][i] = s[i]
  BY DEF Script, Programs, DeviceShare, Mapping, Unmapping, Hbm
<1>2. /\ s[1][1] = "take" /\ s[2][1] = "call" /\ s[3][1] = "take" /\ s[4][1] = "take" /\
         s[5][1] = "take" /\ s[6][1] = "take" /\ s[7][1] = "take" /\ s[8][1] = "fill" /\
         s[9][1] = "take" /\ s[10][1] = "take" /\ s[11][1] = "take" /\
         s[12][1] = "copy_out" /\ s[13][1] = "call" /\ s[14][1] = "call" /\
         s[15][1] = "send" /\ s[16][1] = "expect" /\ s[17][1] = "verify" /\
         s[18][1] = "send" /\ s[19][1] = "expect"
  BY Entries
<1>3. /\ s[1][2] = "library" /\ s[3][2] = "tsd" /\ s[4][2] = "device" /\ s[5][2] = "va" /\
         s[6][2] = "handle" /\ s[7][2] = "mapped" /\ s[9][2] = "hbm_va" /\
         s[10][2] = "hbm_handle" /\ s[11][2] = "hbm_mapped" /\ s[15][2] = "token" /\
         s[16][2] = "0" /\ s[18][2] = "0" /\ s[19][2] = "0"
  BY Entries
<1>4. /\ s[8][2] = 101 /\ s[12][2] = 101 /\ s[17][2] = 202
  BY Entries
<1> HIDE DEF s
<1>5. \A i \in 1 .. 19 : s[i][1] = DeviceShareCreator.op[i]
  BY <1>2 DEF DeviceShareCreator
<1>6. \A i \in 1 .. 19 : DeviceShareCreator.op[i] \in Reading => s[i][2] = DeviceShareCreator.sown[i]
  BY <1>4 DEF DeviceShareCreator, Reading
<1>7. \A i \in 1 .. 19 : DeviceShareCreator.op[i] \in Writing => s[i][2] = DeviceShareCreator.sown[i + 1]
  BY <1>4 DEF DeviceShareCreator, Writing
<1>8. \A i \in 1 .. 19 : DeviceShareCreator.op[i] \in Named => s[i][2] = DeviceShareCreator.arg[i]
  BY <1>3 DEF DeviceShareCreator, Named
<1> QED
  BY <1>1, <1>5, <1>6, <1>7, <1>8 DEF Transcribes

LEMMA DeviceShareImporterText == Transcribes("device_share", "importer", DeviceShareImporter, 20)
<1> DEFINE s ==
  <<Take("library"), Call, Take("tsd"), Take("device"), Expect("token"), Take("va"),
    Take("handle"), Take("mapped"), Take("hbm_va"), Take("hbm_handle"), Take("hbm_mapped"),
    CopyOut(101), CopyIn(202), CopyOut(202), Send("0"), Expect("0"), Drop("mapped"),
    Drop("handle"), Drop("va"), Send("0")>>
<1>1. Len(Script["device_share"]["importer"]) = 20 /\ \A i \in 1 .. 20 :
        Script["device_share"]["importer"][i] = s[i]
  BY DEF Script, Programs, DeviceShare, Mapping, Unmapping, Hbm
<1>2. /\ s[1][1] = "take" /\ s[2][1] = "call" /\ s[3][1] = "take" /\ s[4][1] = "take" /\
         s[5][1] = "expect" /\ s[6][1] = "take" /\ s[7][1] = "take" /\ s[8][1] = "take" /\
         s[9][1] = "take" /\ s[10][1] = "take" /\ s[11][1] = "take" /\
         s[12][1] = "copy_out" /\ s[13][1] = "copy_in" /\ s[14][1] = "copy_out" /\
         s[15][1] = "send" /\ s[16][1] = "expect" /\ s[17][1] = "drop" /\
         s[18][1] = "drop" /\ s[19][1] = "drop" /\ s[20][1] = "send"
  BY Entries
<1>3. /\ s[1][2] = "library" /\ s[3][2] = "tsd" /\ s[4][2] = "device" /\ s[5][2] = "token" /\
         s[6][2] = "va" /\ s[7][2] = "handle" /\ s[8][2] = "mapped" /\ s[9][2] = "hbm_va" /\
         s[10][2] = "hbm_handle" /\ s[11][2] = "hbm_mapped" /\ s[15][2] = "0" /\
         s[16][2] = "0" /\ s[17][2] = "mapped" /\ s[18][2] = "handle" /\ s[19][2] = "va" /\
         s[20][2] = "0"
  BY Entries
<1>4. /\ s[12][2] = 101 /\ s[13][2] = 202 /\ s[14][2] = 202
  BY Entries
<1> HIDE DEF s
<1>5. \A i \in 1 .. 20 : s[i][1] = DeviceShareImporter.op[i]
  BY <1>2 DEF DeviceShareImporter
<1>6. \A i \in 1 .. 20 : DeviceShareImporter.op[i] \in Reading => s[i][2] = DeviceShareImporter.sown[i]
  BY <1>4 DEF DeviceShareImporter, Reading
<1>7. \A i \in 1 .. 20 : DeviceShareImporter.op[i] \in Writing => s[i][2] = DeviceShareImporter.sown[i + 1]
  BY <1>4 DEF DeviceShareImporter, Writing
<1>8. \A i \in 1 .. 20 : DeviceShareImporter.op[i] \in Named => s[i][2] = DeviceShareImporter.arg[i]
  BY <1>3 DEF DeviceShareImporter, Named
<1> QED
  BY <1>1, <1>5, <1>6, <1>7, <1>8 DEF Transcribes

LEMMA HalMapHostCreatorText == Transcribes("hal_map_host", "creator", HalMapHostCreator, 12)
<1> DEFINE s ==
  <<Take("device"), Take("va"), Take("handle"), Take("mapped"), Fill(101), Call, Call,
    Send("token"), Expect("0"), Verify(202), Send("0"), Expect("0")>>
<1>1. Len(Script["hal_map_host"]["creator"]) = 12 /\ \A i \in 1 .. 12 :
        Script["hal_map_host"]["creator"][i] = s[i]
  BY DEF Script, Programs, HalMap, Mapping, Unmapping
<1>2. /\ s[1][1] = "take" /\ s[2][1] = "take" /\ s[3][1] = "take" /\ s[4][1] = "take" /\
         s[5][1] = "fill" /\ s[6][1] = "call" /\ s[7][1] = "call" /\ s[8][1] = "send" /\
         s[9][1] = "expect" /\ s[10][1] = "verify" /\ s[11][1] = "send" /\
         s[12][1] = "expect"
  BY Entries
<1>3. /\ s[1][2] = "device" /\ s[2][2] = "va" /\ s[3][2] = "handle" /\ s[4][2] = "mapped" /\
         s[8][2] = "token" /\ s[9][2] = "0" /\ s[11][2] = "0" /\ s[12][2] = "0"
  BY Entries
<1>4. /\ s[5][2] = 101 /\ s[10][2] = 202
  BY Entries
<1> HIDE DEF s
<1>5. \A i \in 1 .. 12 : s[i][1] = HalMapHostCreator.op[i]
  BY <1>2 DEF HalMapHostCreator
<1>6. \A i \in 1 .. 12 : HalMapHostCreator.op[i] \in Reading => s[i][2] = HalMapHostCreator.sown[i]
  BY <1>4 DEF HalMapHostCreator, Reading
<1>7. \A i \in 1 .. 12 : HalMapHostCreator.op[i] \in Writing => s[i][2] = HalMapHostCreator.sown[i + 1]
  BY <1>4 DEF HalMapHostCreator, Writing
<1>8. \A i \in 1 .. 12 : HalMapHostCreator.op[i] \in Named => s[i][2] = HalMapHostCreator.arg[i]
  BY <1>3 DEF HalMapHostCreator, Named
<1> QED
  BY <1>1, <1>5, <1>6, <1>7, <1>8 DEF Transcribes

LEMMA HalMapHostImporterText == Transcribes("hal_map_host", "importer", HalMapHostImporter, 14)
<1> DEFINE s ==
  <<Take("device"), Expect("token"), Take("va"), Call, Take("handle"), Take("mapped"),
    Verify(101), Fill(202), Send("0"), Expect("0"), Drop("mapped"), Drop("handle"), Drop("va"),
    Send("0")>>
<1>1. Len(Script["hal_map_host"]["importer"]) = 14 /\ \A i \in 1 .. 14 :
        Script["hal_map_host"]["importer"][i] = s[i]
  BY DEF Script, Programs, HalMap, Mapping, Unmapping
<1>2. /\ s[1][1] = "take" /\ s[2][1] = "expect" /\ s[3][1] = "take" /\ s[4][1] = "call" /\
         s[5][1] = "take" /\ s[6][1] = "take" /\ s[7][1] = "verify" /\ s[8][1] = "fill" /\
         s[9][1] = "send" /\ s[10][1] = "expect" /\ s[11][1] = "drop" /\ s[12][1] = "drop" /\
         s[13][1] = "drop" /\ s[14][1] = "send"
  BY Entries
<1>3. /\ s[1][2] = "device" /\ s[2][2] = "token" /\ s[3][2] = "va" /\ s[5][2] = "handle" /\
         s[6][2] = "mapped" /\ s[9][2] = "0" /\ s[10][2] = "0" /\ s[11][2] = "mapped" /\
         s[12][2] = "handle" /\ s[13][2] = "va" /\ s[14][2] = "0"
  BY Entries
<1>4. /\ s[7][2] = 101 /\ s[8][2] = 202
  BY Entries
<1> HIDE DEF s
<1>5. \A i \in 1 .. 14 : s[i][1] = HalMapHostImporter.op[i]
  BY <1>2 DEF HalMapHostImporter
<1>6. \A i \in 1 .. 14 : HalMapHostImporter.op[i] \in Reading => s[i][2] = HalMapHostImporter.sown[i]
  BY <1>4 DEF HalMapHostImporter, Reading
<1>7. \A i \in 1 .. 14 : HalMapHostImporter.op[i] \in Writing => s[i][2] = HalMapHostImporter.sown[i + 1]
  BY <1>4 DEF HalMapHostImporter, Writing
<1>8. \A i \in 1 .. 14 : HalMapHostImporter.op[i] \in Named => s[i][2] = HalMapHostImporter.arg[i]
  BY <1>3 DEF HalMapHostImporter, Named
<1> QED
  BY <1>1, <1>5, <1>6, <1>7, <1>8 DEF Transcribes

LEMMA HalMapDeviceCreatorText == Transcribes("hal_map_device", "creator", HalMapDeviceCreator, 11)
<1> DEFINE s ==
  <<Take("device"), Take("va"), Take("handle"), Take("mapped"), Fill(101), Call, Call,
    Send("token"), Expect("0"), Send("0"), Expect("0")>>
<1>1. Len(Script["hal_map_device"]["creator"]) = 11 /\ \A i \in 1 .. 11 :
        Script["hal_map_device"]["creator"][i] = s[i]
  BY DEF Script, Programs, HalMap, Mapping, Unmapping
<1>2. /\ s[1][1] = "take" /\ s[2][1] = "take" /\ s[3][1] = "take" /\ s[4][1] = "take" /\
         s[5][1] = "fill" /\ s[6][1] = "call" /\ s[7][1] = "call" /\ s[8][1] = "send" /\
         s[9][1] = "expect" /\ s[10][1] = "send" /\ s[11][1] = "expect"
  BY Entries
<1>3. /\ s[1][2] = "device" /\ s[2][2] = "va" /\ s[3][2] = "handle" /\ s[4][2] = "mapped" /\
         s[8][2] = "token" /\ s[9][2] = "0" /\ s[10][2] = "0" /\ s[11][2] = "0"
  BY Entries
<1>4. /\ s[5][2] = 101
  BY Entries
<1> HIDE DEF s
<1>5. \A i \in 1 .. 11 : s[i][1] = HalMapDeviceCreator.op[i]
  BY <1>2 DEF HalMapDeviceCreator
<1>6. \A i \in 1 .. 11 : HalMapDeviceCreator.op[i] \in Reading => s[i][2] = HalMapDeviceCreator.sown[i]
  BY <1>4 DEF HalMapDeviceCreator, Reading
<1>7. \A i \in 1 .. 11 : HalMapDeviceCreator.op[i] \in Writing => s[i][2] = HalMapDeviceCreator.sown[i + 1]
  BY <1>4 DEF HalMapDeviceCreator, Writing
<1>8. \A i \in 1 .. 11 : HalMapDeviceCreator.op[i] \in Named => s[i][2] = HalMapDeviceCreator.arg[i]
  BY <1>3 DEF HalMapDeviceCreator, Named
<1> QED
  BY <1>1, <1>5, <1>6, <1>7, <1>8 DEF Transcribes

LEMMA HalMapDeviceImporterText == Transcribes("hal_map_device", "importer", HalMapDeviceImporter, 11)
<1> DEFINE s ==
  <<Take("device"), Expect("token"), Take("va"), Take("handle"), Take("mapped"), Send("0"),
    Expect("0"), Drop("mapped"), Drop("handle"), Drop("va"), Send("0")>>
<1>1. Len(Script["hal_map_device"]["importer"]) = 11 /\ \A i \in 1 .. 11 :
        Script["hal_map_device"]["importer"][i] = s[i]
  BY DEF Script, Programs, HalMap, Mapping, Unmapping
<1>2. /\ s[1][1] = "take" /\ s[2][1] = "expect" /\ s[3][1] = "take" /\ s[4][1] = "take" /\
         s[5][1] = "take" /\ s[6][1] = "send" /\ s[7][1] = "expect" /\ s[8][1] = "drop" /\
         s[9][1] = "drop" /\ s[10][1] = "drop" /\ s[11][1] = "send"
  BY Entries
<1>3. /\ s[1][2] = "device" /\ s[2][2] = "token" /\ s[3][2] = "va" /\ s[4][2] = "handle" /\
         s[5][2] = "mapped" /\ s[6][2] = "0" /\ s[7][2] = "0" /\ s[8][2] = "mapped" /\
         s[9][2] = "handle" /\ s[10][2] = "va" /\ s[11][2] = "0"
  BY Entries
<1> HIDE DEF s
<1>5. \A i \in 1 .. 11 : s[i][1] = HalMapDeviceImporter.op[i]
  BY <1>2 DEF HalMapDeviceImporter
<1>6. \A i \in 1 .. 11 : HalMapDeviceImporter.op[i] \in Reading => s[i][2] = HalMapDeviceImporter.sown[i]
  BY <1>2 DEF HalMapDeviceImporter, Reading
<1>7. \A i \in 1 .. 11 : HalMapDeviceImporter.op[i] \in Writing => s[i][2] = HalMapDeviceImporter.sown[i + 1]
  BY <1>2 DEF HalMapDeviceImporter, Writing
<1>8. \A i \in 1 .. 11 : HalMapDeviceImporter.op[i] \in Named => s[i][2] = HalMapDeviceImporter.arg[i]
  BY <1>3 DEF HalMapDeviceImporter, Named
<1> QED
  BY <1>1, <1>5, <1>6, <1>7, <1>8 DEF Transcribes

LEMMA HostShareCreatorOutline == Outline("host_share", "creator", HostShareCreator, 19)
<1>1. Keeps("creator", HostShareCreator, 19)
  BY DEF Keeps, HostShareCreator, MyTurn, Keeping, Hearing, Accesses, Writing, Reading
<1>2. Speaks("host_share", "creator", HostShareCreator, 19)
  BY DEF Speaks, HostShareCreator, MyTurn, WordAt, PatternAt
<1>3. Hears("host_share", "creator", HostShareCreator, 19)
  BY DEF Hears, HostShareCreator, MyTurn, WordAt, PatternAt, Hearing
<1>4. Holds("host_share", "creator", HostShareCreator, 19)
  BY DEF Holds, HostShareCreator, Resource, Shared, Covered, Unwind, Allocation, HbmAllocation
<1>5. Bounds("host_share", "creator", HostShareCreator, 19)
  BY DEF Bounds, HostShareCreator, LastTurn, LastPattern, Seed
<1> QED
  BY <1>1, <1>2, <1>3, <1>4, <1>5 DEF Outline

LEMMA HostShareImporterOutline == Outline("host_share", "importer", HostShareImporter, 20)
<1>1. Keeps("importer", HostShareImporter, 20)
  BY DEF Keeps, HostShareImporter, MyTurn, Keeping, Hearing, Accesses, Writing, Reading
<1>2. Speaks("host_share", "importer", HostShareImporter, 20)
  BY DEF Speaks, HostShareImporter, MyTurn, WordAt, PatternAt
<1>3. Hears("host_share", "importer", HostShareImporter, 20)
  BY DEF Hears, HostShareImporter, MyTurn, WordAt, PatternAt, Hearing
<1>4. Holds("host_share", "importer", HostShareImporter, 20)
  BY DEF Holds, HostShareImporter, Resource, Shared, Covered, Unwind, Allocation, HbmAllocation
<1>5. Bounds("host_share", "importer", HostShareImporter, 20)
  BY DEF Bounds, HostShareImporter, LastTurn, LastPattern, Seed
<1> QED
  BY <1>1, <1>2, <1>3, <1>4, <1>5 DEF Outline

LEMMA DeviceShareCreatorOutline == Outline("device_share", "creator", DeviceShareCreator, 19)
<1>1. Keeps("creator", DeviceShareCreator, 19)
  BY DEF Keeps, DeviceShareCreator, MyTurn, Keeping, Hearing, Accesses, Writing, Reading
<1>2. Speaks("device_share", "creator", DeviceShareCreator, 19)
  BY DEF Speaks, DeviceShareCreator, MyTurn, WordAt, PatternAt
<1>3. Hears("device_share", "creator", DeviceShareCreator, 19)
  BY DEF Hears, DeviceShareCreator, MyTurn, WordAt, PatternAt, Hearing
<1>4. Holds("device_share", "creator", DeviceShareCreator, 19)
  BY DEF Holds, DeviceShareCreator, Resource, Shared, Covered, Unwind, Allocation, HbmAllocation
<1>5. Bounds("device_share", "creator", DeviceShareCreator, 19)
  BY DEF Bounds, DeviceShareCreator, LastTurn, LastPattern, Seed
<1> QED
  BY <1>1, <1>2, <1>3, <1>4, <1>5 DEF Outline

LEMMA DeviceShareImporterOutline == Outline("device_share", "importer", DeviceShareImporter, 20)
<1>1. Keeps("importer", DeviceShareImporter, 20)
  BY DEF Keeps, DeviceShareImporter, MyTurn, Keeping, Hearing, Accesses, Writing, Reading
<1>2. Speaks("device_share", "importer", DeviceShareImporter, 20)
  BY DEF Speaks, DeviceShareImporter, MyTurn, WordAt, PatternAt
<1>3. Hears("device_share", "importer", DeviceShareImporter, 20)
  BY DEF Hears, DeviceShareImporter, MyTurn, WordAt, PatternAt, Hearing
<1>4. Holds("device_share", "importer", DeviceShareImporter, 20)
  BY DEF Holds, DeviceShareImporter, Resource, Shared, Covered, Unwind, Allocation, HbmAllocation
<1>5. Bounds("device_share", "importer", DeviceShareImporter, 20)
  BY DEF Bounds, DeviceShareImporter, LastTurn, LastPattern, Seed
<1> QED
  BY <1>1, <1>2, <1>3, <1>4, <1>5 DEF Outline

LEMMA HalMapHostCreatorOutline == Outline("hal_map_host", "creator", HalMapHostCreator, 12)
<1>1. Keeps("creator", HalMapHostCreator, 12)
  BY DEF Keeps, HalMapHostCreator, MyTurn, Keeping, Hearing, Accesses, Writing, Reading
<1>2. Speaks("hal_map_host", "creator", HalMapHostCreator, 12)
  BY DEF Speaks, HalMapHostCreator, MyTurn, WordAt, PatternAt
<1>3. Hears("hal_map_host", "creator", HalMapHostCreator, 12)
  BY DEF Hears, HalMapHostCreator, MyTurn, WordAt, PatternAt, Hearing
<1>4. Holds("hal_map_host", "creator", HalMapHostCreator, 12)
  BY DEF Holds, HalMapHostCreator, Resource, Shared, Covered, Unwind, Allocation, HbmAllocation
<1>5. Bounds("hal_map_host", "creator", HalMapHostCreator, 12)
  BY DEF Bounds, HalMapHostCreator, LastTurn, LastPattern, Seed
<1> QED
  BY <1>1, <1>2, <1>3, <1>4, <1>5 DEF Outline

LEMMA HalMapHostImporterOutline == Outline("hal_map_host", "importer", HalMapHostImporter, 14)
<1>1. Keeps("importer", HalMapHostImporter, 14)
  BY DEF Keeps, HalMapHostImporter, MyTurn, Keeping, Hearing, Accesses, Writing, Reading
<1>2. Speaks("hal_map_host", "importer", HalMapHostImporter, 14)
  BY DEF Speaks, HalMapHostImporter, MyTurn, WordAt, PatternAt
<1>3. Hears("hal_map_host", "importer", HalMapHostImporter, 14)
  BY DEF Hears, HalMapHostImporter, MyTurn, WordAt, PatternAt, Hearing
<1>4. Holds("hal_map_host", "importer", HalMapHostImporter, 14)
  BY DEF Holds, HalMapHostImporter, Resource, Shared, Covered, Unwind, Allocation, HbmAllocation
<1>5. Bounds("hal_map_host", "importer", HalMapHostImporter, 14)
  BY DEF Bounds, HalMapHostImporter, LastTurn, LastPattern, Seed
<1> QED
  BY <1>1, <1>2, <1>3, <1>4, <1>5 DEF Outline

LEMMA HalMapDeviceCreatorOutline == Outline("hal_map_device", "creator", HalMapDeviceCreator, 11)
<1>1. Keeps("creator", HalMapDeviceCreator, 11)
  BY DEF Keeps, HalMapDeviceCreator, MyTurn, Keeping, Hearing, Accesses, Writing, Reading
<1>2. Speaks("hal_map_device", "creator", HalMapDeviceCreator, 11)
  BY DEF Speaks, HalMapDeviceCreator, MyTurn, WordAt, PatternAt
<1>3. Hears("hal_map_device", "creator", HalMapDeviceCreator, 11)
  BY DEF Hears, HalMapDeviceCreator, MyTurn, WordAt, PatternAt, Hearing
<1>4. Holds("hal_map_device", "creator", HalMapDeviceCreator, 11)
  BY DEF Holds, HalMapDeviceCreator, Resource, Shared, Covered, Unwind, Allocation, HbmAllocation
<1>5. Bounds("hal_map_device", "creator", HalMapDeviceCreator, 11)
  BY DEF Bounds, HalMapDeviceCreator, LastTurn, LastPattern, Seed
<1> QED
  BY <1>1, <1>2, <1>3, <1>4, <1>5 DEF Outline

LEMMA HalMapDeviceImporterOutline == Outline("hal_map_device", "importer", HalMapDeviceImporter, 11)
<1>1. Keeps("importer", HalMapDeviceImporter, 11)
  BY DEF Keeps, HalMapDeviceImporter, MyTurn, Keeping, Hearing, Accesses, Writing, Reading
<1>2. Speaks("hal_map_device", "importer", HalMapDeviceImporter, 11)
  BY DEF Speaks, HalMapDeviceImporter, MyTurn, WordAt, PatternAt
<1>3. Hears("hal_map_device", "importer", HalMapDeviceImporter, 11)
  BY DEF Hears, HalMapDeviceImporter, MyTurn, WordAt, PatternAt, Hearing
<1>4. Holds("hal_map_device", "importer", HalMapDeviceImporter, 11)
  BY DEF Holds, HalMapDeviceImporter, Resource, Shared, Covered, Unwind, Allocation, HbmAllocation
<1>5. Bounds("hal_map_device", "importer", HalMapDeviceImporter, 11)
  BY DEF Bounds, HalMapDeviceImporter, LastTurn, LastPattern, Seed
<1> QED
  BY <1>1, <1>2, <1>3, <1>4, <1>5 DEF Outline

LEMMA Table ==
  ASSUME NEW p \in Probe, NEW r \in Role
  PROVE  Transcribes(p, r, Plan[p][r], Size[p][r]) /\ Outline(p, r, Plan[p][r], Size[p][r])
<1>1. CASE p = "host_share"
  BY <1>1, HostShareCreatorText, HostShareCreatorOutline, HostShareImporterText,
     HostShareImporterOutline DEF Plan, Size, Role
<1>2. CASE p = "device_share"
  BY <1>2, DeviceShareCreatorText, DeviceShareCreatorOutline, DeviceShareImporterText,
     DeviceShareImporterOutline DEF Plan, Size, Role
<1>3. CASE p = "hal_map_host"
  BY <1>3, HalMapHostCreatorText, HalMapHostCreatorOutline, HalMapHostImporterText,
     HalMapHostImporterOutline DEF Plan, Size, Role
<1>4. CASE p = "hal_map_device"
  BY <1>4, HalMapDeviceCreatorText, HalMapDeviceCreatorOutline, HalMapDeviceImporterText,
     HalMapDeviceImporterOutline DEF Plan, Size, Role
<1> QED
  BY <1>1, <1>2, <1>3, <1>4 DEF Probe

-----------------------------------------------------------------------------
(***************************************************************************)
(* The inductive invariant.  Outline places a process in the table; while  *)
(* it talks, which it does until it leaves its try block, what the buffer  *)
(* and the wires hold is what the table says.                              *)
(***************************************************************************)
N(r) == Size[probe][r]
OpAt(r, i) == Plan[probe][r].op[i]
ArgAt(r, i) == Plan[probe][r].arg[i]
TurnAt(r, i) == Plan[probe][r].turn[i]
SownAt(r, i) == Plan[probe][r].sown[i]
Turn(r) == TurnAt(r, at[r])
Full == LastTurn[probe]

Before == {"unborn", "launch", "forked"}
Talking(r) == phase[r] \in Before \cup {"try"}

Phases ==
  /\ phase["creator"] # "unborn" /\ phase["importer"] \notin {"forked", "wait"}
  /\ phase["creator"] = "launch" => phase["importer"] = "unborn"
  /\ phase["importer"] = "unborn" => phase["creator"] \in {"launch", "gone"}
  /\ \A r \in Role : exit[r] = "none" <=> phase[r] # "gone"

Places ==
  \A r \in Role :
    /\ phase[r] \in Before => at[r] = 1
    /\ phase[r] = "try" => at[r] <= N(r) + 1
    /\ phase[r] \in {"unwind", "wait"} => at[r] <= Len(Unwind[probe]) + 1
    /\ busy[r] => phase[r] = "try" /\ at[r] <= N(r) /\ OpAt(r, at[r]) \in Accesses

(***************************************************************************)
(* The flags: within the try block they are what the driver has granted,   *)
(* every flag has its place in the destructors, and what of the buffer the *)
(* importer has is still to be dropped by its script.                      *)
(***************************************************************************)
Flags ==
  \A r \in Role :
    /\ flag[r] \subseteq held[r] /\ flag[r] \subseteq Covered(probe)
    /\ phase[r] \in Before => held[r] = {}
    /\ phase[r] = "try" \/ ~failed[r] => flag[r] = held[r]
    /\ phase[r] = "unwind" => \A k \in 1 .. at[r] - 1 : Unwind[probe][k] \notin flag[r]
    /\ phase[r] \in {"wait", "gone"} => flag[r] = {}

ToDrop(x) == \E k \in at["importer"] .. N("importer") :
               OpAt("importer", k) = "drop" /\ ArgAt("importer", k) = x
Drops == phase["importer"] = "try" => \A x \in Shared \cap flag["importer"] : ToDrop(x)

Verdicts ==
  /\ \A r \in Role : (threw[r] => failed[r]) /\ (exit[r] = "pass" => ~failed[r])
  /\ exit["creator"] = "pass" => exit["importer"] = "pass"

\* A word fits its place in the conversation; a failure count may be one or more.
Fits(w, n) == IF WordAt(probe, n) = "failures" THEN w \in {"0", "1"} ELSE w = WordAt(probe, n)

(***************************************************************************)
(* The words: at most one is under way, to a process whose turn it is not, *)
(* and while both talk neither is ahead by more than that word.            *)
(***************************************************************************)
Awaits(r) ==
  /\ wire[r] # <<>> => ~MyTurn(r, Turn(r)) /\ Turn(r) < Full /\ Fits(Head(wire[r]), Turn(r))
  /\ wire[Peer(r)] # <<>> => ~MyTurn(r, Turn(r))
Words ==
  /\ wire["creator"] = <<>> \/ wire["importer"] = <<>>
  /\ \A r \in Role : Talking(r) => Awaits(r)
  /\ Talking("creator") /\ Talking("importer") =>
       \/ wire["creator"] # <<>> /\ Turn("importer") = Turn("creator") + 1
       \/ wire["importer"] # <<>> /\ Turn("creator") = Turn("importer") + 1
       \/ wire["creator"] = <<>> /\ wire["importer"] = <<>> /\ Turn("creator") = Turn("importer")

(***************************************************************************)
(* The buffer: what its holder has put there, or what the word on the wire *)
(* hands over.  Only the read that follows a copy which moved nothing may  *)
(* not find the pattern, and then something has gone wrong.                *)
(***************************************************************************)
Unmoved(r) == OpAt(r, at[r]) = "copy_out" /\ faults # 0
Pattern(r) ==
  /\ MyTurn(r, Turn(r)) /\ ~Unmoved(r) =>
       content = IF busy[r] /\ OpAt(r, at[r]) \in Writing THEN 0 ELSE SownAt(r, at[r])
  /\ wire[r] # <<>> => content = PatternAt(probe, Turn(r))
Buffer == \A r \in Role : Talking(r) => Pattern(r)

(***************************************************************************)
(* The last word: once it is spoken the importer has given the buffer up,  *)
(* and a creator that came through its conversation has heard it.          *)
(***************************************************************************)
GivenUp ==
  /\ held["importer"] \cap Shared = {} /\ wire["importer"] = <<>>
  /\ Talking("importer") => phase["importer"] = "try" /\ at["importer"] = N("importer") + 1
LastSpoken ==
  \/ Turn("creator") = Full
  \/ wire["creator"] # <<>> /\ Turn("creator") + 1 = Full
CameThrough ==
  /\ ~Talking("creator") /\ ~threw["creator"] /\ exit["creator"] \in {"none", "pass", "fail"}
LastWord ==
  /\ Talking("creator") /\ LastSpoken => GivenUp
  /\ CameThrough => GivenUp /\ wire["creator"] = <<>> /\ content = LastSeed

\* A process that still has words to say or to hear has its end of the socketpair.
Ends ==
  \A r \in Role : phase[r] \in {"forked", "try"} \/ (phase[r] = "launch" /\ r = "importer") =>
    r \in ends[r]

\* Nothing went wrong: nobody failed, and an importer that left had its last word.
Quiet ==
  faults = 0 =>
    /\ \A r \in Role : ~threw[r] /\ ~failed[r] /\ exit[r] \in {"none", "pass"}
                       /\ \A n \in 1 .. Len(wire[r]) : wire[r][n] # "1"
    /\ ~Talking("importer") /\ Talking("creator") => LastSpoken

IInv ==
  /\ TypeOK /\ Phases /\ Places /\ Flags /\ Drops /\ Verdicts
  /\ Words /\ Buffer /\ LastWord /\ Ends /\ Quiet

(***************************************************************************)
(* What the table says of the entry a process is at, and of the next.      *)
(***************************************************************************)
Sizes == \A r \in Role : N(r) \in 11 .. 20

LEMMA SizesHold == probe \in Probe => Sizes /\ Full \in {4, 6}
BY DEF Sizes, N, Size, Full, LastTurn, Probe, Role

LEMMA Fixed ==
  ASSUME UNCHANGED probe
  PROVE  /\ Full' = Full
         /\ \A r \in Role : N(r)' = N(r)
         /\ \A r \in Role, k \in Nat :
              /\ OpAt(r, k)' = OpAt(r, k) /\ ArgAt(r, k)' = ArgAt(r, k)
              /\ TurnAt(r, k)' = TurnAt(r, k) /\ SownAt(r, k)' = SownAt(r, k)
         /\ \A w, n : Fits(w, n)' <=> Fits(w, n)
BY DEF Full, N, OpAt, ArgAt, TurnAt, SownAt, Fits

\* An entry of the script at which process r is.
LEMMA Entry ==
  ASSUME TypeOK, NEW r \in Role, In(r)
  PROVE  /\ at[r] \in 1 .. N(r) /\ N(r) \in 11 .. 20
         /\ Op(r) = OpAt(r, at[r])
         /\ Op(r) \in Named => Arg(r) = ArgAt(r, at[r])
         /\ Op(r) \in Reading => Arg(r) = SownAt(r, at[r])
         /\ Op(r) \in Writing => Arg(r) = SownAt(r, at[r] + 1)
<1>1. probe \in Probe /\ at[r] \in 1 .. 32
  BY DEF TypeOK
<1>2. Transcribes(probe, r, Plan[probe][r], N(r))
  BY <1>1, Table DEF N
<1>3. Len(Script[probe][r]) = N(r)
  BY <1>2 DEF Transcribes
<1>4. N(r) \in 11 .. 20
  BY <1>1, SizesHold DEF Sizes
<1>5. at[r] <= N(r)
  BY <1>3 DEF In, Ops
<1>6. at[r] \in 1 .. N(r) /\ N(r) \in 11 .. 20
  BY <1>1, <1>4, <1>5
<1> QED
  BY <1>2, <1>6 DEF Transcribes, Op, Arg, Ops, OpAt, ArgAt, SownAt

LEMMA Turns ==
  ASSUME TypeOK, NEW r \in Role, NEW k \in 1 .. N(r) + 1
  PROVE  TurnAt(r, k) \in 0 .. Full /\ SownAt(r, k) \in {0} \cup Seed
BY Table DEF TypeOK, Outline, Bounds, TurnAt, SownAt, Full, N

\* What the entry keeps, needs and leaves.
LEMMA Silent ==
  ASSUME TypeOK, NEW r \in Role, NEW k \in 1 .. N(r)
  PROVE  /\ OpAt(r, k) \notin {"send"} \cup Hearing => TurnAt(r, k + 1) = TurnAt(r, k)
         /\ OpAt(r, k) \in Keeping => SownAt(r, k + 1) = SownAt(r, k)
         /\ OpAt(r, k) \in Accesses => MyTurn(r, TurnAt(r, k))
         /\ OpAt(r, k) = "copy_in" => OpAt(r, k + 1) = "copy_out"
<1>1. Keeps(r, Plan[probe][r], N(r))
  BY Table DEF TypeOK, Outline, N
<1> QED
  BY <1>1 DEF Keeps, OpAt, TurnAt, SownAt

LEMMA Speaking ==
  ASSUME TypeOK, NEW r \in Role, NEW k \in 1 .. N(r), OpAt(r, k) = "send"
  PROVE  /\ MyTurn(r, TurnAt(r, k)) /\ TurnAt(r, k + 1) = TurnAt(r, k) + 1
         /\ ArgAt(r, k) = WordAt(probe, TurnAt(r, k))
         /\ SownAt(r, k) = PatternAt(probe, TurnAt(r, k))
<1>1. Speaks(probe, r, Plan[probe][r], N(r))
  BY Table DEF TypeOK, Outline, N
<1> QED
  BY <1>1 DEF Speaks, OpAt, ArgAt, TurnAt, SownAt

LEMMA Listening ==
  ASSUME TypeOK, NEW r \in Role, NEW k \in 1 .. N(r), OpAt(r, k) \in Hearing
  PROVE  /\ ~MyTurn(r, TurnAt(r, k)) /\ TurnAt(r, k + 1) = TurnAt(r, k) + 1
         /\ OpAt(r, k) = "expect" => ArgAt(r, k) = WordAt(probe, TurnAt(r, k))
         /\ OpAt(r, k) = "add" <=> WordAt(probe, TurnAt(r, k)) = "failures"
         /\ SownAt(r, k + 1) = PatternAt(probe, TurnAt(r, k))
<1>1. Hears(probe, r, Plan[probe][r], N(r))
  BY Table DEF TypeOK, Outline, N
<1> QED
  BY <1>1 DEF Hears, OpAt, ArgAt, TurnAt, SownAt

LEMMA Taking ==
  ASSUME TypeOK, NEW r \in Role, NEW k \in 1 .. N(r), OpAt(r, k) = "take"
  PROVE  /\ ArgAt(r, k) \in Resource \cap Covered(probe)
         /\ r = "importer" /\ ArgAt(r, k) \in Shared =>
              \E j \in k + 1 .. N(r) : OpAt(r, j) = "drop" /\ ArgAt(r, j) = ArgAt(r, k)
<1>1. Holds(probe, r, Plan[probe][r], N(r))
  BY Table DEF TypeOK, Outline, N
<1> QED
  BY <1>1 DEF Holds, OpAt, ArgAt

\* Where a conversation begins and ends.
LEMMA Limits ==
  ASSUME TypeOK
  PROVE  /\ \A r \in Role : TurnAt(r, 1) = 0 /\ TurnAt(r, N(r) + 1) = Full
                              /\ OpAt(r, N(r) + 1) = "end"
         /\ SownAt("creator", 1) = 0 /\ SownAt("creator", N("creator") + 1) = LastSeed
         /\ OpAt("importer", N("importer")) = "send"
         /\ \A k \in 1 .. N("importer") : TurnAt("importer", k) < Full
<1>1. \A r \in Role : Bounds(probe, r, Plan[probe][r], N(r))
  BY Table DEF TypeOK, Outline, N
<1>2. LastPattern[probe] = LastSeed
  BY DEF TypeOK, Probe, LastPattern, LastSeed
<1> QED
  BY <1>1, <1>2 DEF Bounds, OpAt, TurnAt, SownAt, Full, Role

\* The two of them take turns; both conversations end with the creator's.
LEMMA Alternation ==
  /\ \A n \in 0 .. 6 : MyTurn("creator", n) <=> ~MyTurn("importer", n)
  /\ \A n \in 0 .. 5, r \in Role : MyTurn(r, n + 1) <=> ~MyTurn(r, n)
  /\ MyTurn("creator", 0) /\ MyTurn("creator", 4) /\ MyTurn("creator", 6)
BY DEF MyTurn, Role

\* The words of a wire that never holds more than one.
LEMMA OneWord ==
  /\ \A s \in Seq(Word) : Len(s) <= 1 /\ s # <<>> =>
       Head(s) \in Word /\ Tail(s) = <<>> /\ Head(s) = s[1] /\ Len(s) = 1
  /\ \A w \in Word : Append(<<>>, w) = <<w>> /\ <<w>> # <<>> /\ Head(<<w>>) = w
  /\ \A w \in Word : <<w>> \in Seq(Word) /\ Len(<<w>>) = 1 /\ <<w>>[1] = w
  /\ <<>> \in Seq(Word) /\ Len(<<>>) = 0
OBVIOUS

\* A flag of one process, set or cleared.
LEMMA Boolean ==
  ASSUME NEW f \in [Role -> BOOLEAN], NEW r \in Role, NEW b \in BOOLEAN
  PROVE  [f EXCEPT ![r] = b] \in [Role -> BOOLEAN]
OBVIOUS

LEMMA Starts == Init => IInv
<1> SUFFICES ASSUME Init PROVE IInv
  OBVIOUS
<1>1. TypeOK
  BY OneWord, MaxFaultsAssumption DEF Init, TypeOK, Role
<1>2. /\ \A r \in Role : Turn(r) = 0
      /\ SownAt("creator", 1) = 0 /\ Full \in {4, 6} /\ \A r \in Role : N(r) \in 11 .. 20
  BY <1>1, Limits, SizesHold DEF Init, Turn, Sizes, TypeOK, Role
<1>3. Phases /\ Places /\ Flags /\ Drops /\ Verdicts
  BY <1>1, <1>2 DEF Init, Phases, Places, Flags, Drops, Verdicts, Before, Role
<1>4. Words
  BY <1>2 DEF Init, Words, Awaits, Peer, Role
<1>5. Buffer
  BY <1>2, Alternation DEF Init, Buffer, Pattern, Role
<1>6. LastWord
  BY <1>2 DEF Init, LastWord, LastSpoken, CameThrough, Talking, Before, Role
<1>7. Ends /\ Quiet
  BY DEF Init, Ends, Quiet, Talking, Before, Role
<1> QED
  BY <1>1, <1>3, <1>4, <1>5, <1>6, <1>7 DEF IInv

(***************************************************************************)
(* An exception in the try block, whichever call threw it: a word may have *)
(* been consumed, and something has gone wrong.                            *)
(***************************************************************************)
Thrown(r) ==
  /\ In(r) /\ Throw(r) /\ faults' \in 1 .. MaxFaults
  /\ busy' = [busy EXCEPT ![r] = FALSE]
  /\ \/ UNCHANGED wire
     \/ wire[r] # <<>> /\ wire' = [wire EXCEPT ![r] = <<>>]
  /\ UNCHANGED <<probe, exit, flag, held, ends, content>>

LEMMA ThrownKeeps == ASSUME IInv, NEW r \in Role, Thrown(r) PROVE IInv'
<1> DEFINE q == Peer(r)
<1>1. TypeOK /\ phase[r] = "try" /\ at[r] \in 1 .. N(r) /\ N(r) \in 11 .. 20
  BY Entry DEF IInv, In, Thrown
<1>2. /\ phase' = [phase EXCEPT ![r] = "unwind"] /\ at' = [at EXCEPT ![r] = 1]
      /\ threw' = [threw EXCEPT ![r] = TRUE] /\ failed' = [failed EXCEPT ![r] = TRUE]
      /\ busy' = [busy EXCEPT ![r] = FALSE]
      /\ UNCHANGED <<probe, exit, flag, held, ends, content>> /\ faults' \in 1 .. MaxFaults
  BY DEF Throw, Thrown
<1>3. /\ q \in Role /\ q # r /\ Role = {r, q}
      /\ r = "creator" => q = "importer"
      /\ r = "importer" => q = "creator"
  BY DEF Peer, Role
<1>4. wire' \in [Role -> Seq(Word)] /\ wire'[q] = wire[q] /\ wire'[r] \in {<<>>, wire[r]}
  <2>1. wire \in [Role -> Seq(Word)] /\ <<>> \in Seq(Word)
    BY <1>1 DEF TypeOK
  <2>2. UNCHANGED wire \/ wire' = [wire EXCEPT ![r] = <<>>]
    BY DEF Thrown
  <2>3. QED
    BY <1>3, <2>1, <2>2
<1>5. /\ phase'[r] = "unwind" /\ phase'[q] = phase[q] /\ at'[r] = 1 /\ at'[q] = at[q]
      /\ threw'[r] /\ threw'[q] = threw[q] /\ failed'[r] /\ failed'[q] = failed[q]
      /\ busy'[r] = FALSE /\ busy'[q] = busy[q]
  BY <1>1, <1>2, <1>3 DEF TypeOK
<1>6. Turn(q)' = Turn(q) /\ N(q)' = N(q) /\ Full' = Full
  BY <1>2, <1>5, Fixed DEF Turn, N, TurnAt
<1> HIDE DEF q
<1>7. TypeOK'
  <2>1. \A e \in Role : Len(wire'[e]) <= 1
    BY <1>1, <1>3, <1>4 DEF TypeOK
  <2>2. /\ phase' \in [Role -> {"unborn", "launch", "forked", "try", "unwind", "wait", "gone"}]
        /\ at' \in [Role -> 1 .. 32]
    <3>1. /\ phase \in [Role -> {"unborn", "launch", "forked", "try", "unwind", "wait", "gone"}]
          /\ at \in [Role -> 1 .. 32]
      BY <1>1 DEF TypeOK
    <3>2. QED
      BY <1>2, <3>1
  <2>3. /\ failed' \in [Role -> BOOLEAN] /\ threw' \in [Role -> BOOLEAN]
        /\ busy' \in [Role -> BOOLEAN]
    BY <1>1, <1>2, Boolean DEF TypeOK
  <2>4. QED
    BY <1>1, <1>2, <1>4, <2>1, <2>2, <2>3, MaxFaultsAssumption DEF TypeOK
<1>8. Phases'
  BY <1>1, <1>2 DEF IInv, Phases, TypeOK, Role
<1>9. Places'
  BY <1>1, <1>2, <1>3, <1>5, <1>6 DEF IInv, Places, OpAt, Before
<1>10. Flags'
  BY <1>1, <1>2, <1>3, <1>5 DEF IInv, Flags, Before, Covered
<1>11. Drops'
  <2>1. CASE r = "importer"
    BY <1>5, <2>1 DEF Drops
  <2>2. CASE r = "creator"
    <3>1. \A x : ToDrop(x)' <=> ToDrop(x)
      BY <1>2, <1>3, <1>5, <1>6, <2>2 DEF ToDrop, OpAt, ArgAt
    <3>2. QED
      BY <1>2, <1>3, <1>5, <2>2, <3>1 DEF IInv, Drops
  <2>3. QED
    BY <2>1, <2>2 DEF Role
<1>12. Verdicts'
  BY <1>1, <1>2, <1>3, <1>5 DEF IInv, Verdicts, Phases, Role
<1>13. Words'
  BY <1>2, <1>3, <1>4, <1>5, <1>6 DEF IInv, Words, Awaits, Talking, Peer, Role, Before, Fits
<1>14. Buffer'
  BY <1>2, <1>3, <1>4, <1>5, <1>6, MaxFaultsAssumption DEF IInv, Buffer, Pattern, Unmoved, Talking, Before, OpAt, SownAt
<1>15. LastWord'
  BY <1>1, <1>2, <1>3, <1>4, <1>5, <1>6
  DEF IInv, LastWord, LastSpoken, CameThrough, GivenUp, Talking, Role, Before
<1>16. Ends' /\ Quiet'
  BY <1>1, <1>2, <1>3, <1>5 DEF IInv, Ends, Quiet
<1> QED
  BY <1>7, <1>8, <1>9, <1>10, <1>11, <1>12, <1>13, <1>14, <1>15, <1>16 DEF IInv

(***************************************************************************)
(* Steps without a word: the conversation stays where it is.               *)
(***************************************************************************)
LEMMA Untold ==
  ASSUME IInv, UNCHANGED <<probe, wire>>,
         \A e \in Role : Talking(e)' => Talking(e) /\ Turn(e)' = Turn(e)
  PROVE  Words'
BY Fixed DEF IInv, Words, Awaits, Role, Fits, Peer, Full

LEMMA LastWordStands ==
  ASSUME IInv, UNCHANGED <<probe, wire>>,
         Talking("creator")' => Talking("creator") /\ Turn("creator")' = Turn("creator"),
         CameThrough' => CameThrough /\ UNCHANGED content, GivenUp => GivenUp'
  PROVE  LastWord'
<1>1. LastSeed' = LastSeed /\ Full' = Full
  BY Fixed DEF LastSeed
<1>2. Talking("creator")' /\ LastSpoken' => Talking("creator") /\ LastSpoken
  BY <1>1 DEF LastSpoken
<1> QED
  BY <1>1, <1>2 DEF IInv, LastWord

LEMMA StaysQuiet ==
  ASSUME IInv, UNCHANGED <<probe, phase, failed, threw, exit, wire, ends, faults>>,
         Turn("creator")' = Turn("creator")
  PROVE  Ends' /\ Quiet'
<1>1. LastSpoken' <=> LastSpoken
  BY Fixed DEF LastSpoken
<1>2. \A e \in Role : Talking(e)' <=> Talking(e)
  BY DEF Talking
<1> QED
  BY <1>1, <1>2 DEF IInv, Ends, Quiet, Role

\* An importer in the middle of its script has not given the buffer up.
LEMMA NotGivenUp == ASSUME TypeOK, In("importer") PROVE ~GivenUp
BY Entry DEF GivenUp, Talking, In, Role

\* Nor has a creator come through its conversation while anybody is in the script.
LEMMA NotThrough == ASSUME IInv, NEW r \in Role, In(r) PROVE ~CameThrough
<1>1. CASE r = "creator"
  BY <1>1 DEF CameThrough, Talking, In
<1>2. CASE r = "importer"
  BY <1>2, NotGivenUp DEF IInv, LastWord
<1> QED
  BY <1>1, <1>2 DEF Role

\* The peer of r: another process, and what it makes of a step of r alone.
LEMMA Two ==
  ASSUME NEW r \in Role
  PROVE  /\ Peer(r) \in Role /\ Peer(r) # r /\ Role = {r, Peer(r)} /\ Peer(Peer(r)) = r
         /\ r = "creator" => Peer(r) = "importer"
         /\ r = "importer" => Peer(r) = "creator"
BY DEF Peer, Role

LEMMA StepsOn ==
  ASSUME TypeOK, NEW r \in Role, In(r), Advance(r), UNCHANGED probe
  PROVE  /\ phase[r] = "try" /\ at[r] \in 1 .. N(r) /\ N(r) \in 11 .. 20
         /\ at' = [at EXCEPT ![r] = @ + 1] /\ at'[r] = at[r] + 1 /\ at'[Peer(r)] = at[Peer(r)]
         /\ Turn(r) = TurnAt(r, at[r]) /\ Turn(r)' = TurnAt(r, at[r] + 1)
         /\ Turn(Peer(r))' = Turn(Peer(r)) /\ Full' = Full /\ \A e \in Role : N(e)' = N(e)
         /\ UNCHANGED <<phase, threw>> /\ at' \in [Role -> 1 .. 32]
<1>1. /\ phase[r] = "try" /\ at[r] \in 1 .. N(r) /\ N(r) \in 11 .. 20
      /\ at' = [at EXCEPT ![r] = @ + 1] /\ UNCHANGED <<phase, threw>>
  BY Entry DEF In, Advance
<1>2. at \in [Role -> 1 .. 32]
  BY DEF TypeOK
<1>3. at'[r] = at[r] + 1 /\ at'[Peer(r)] = at[Peer(r)] /\ at' \in [Role -> 1 .. 32]
  BY <1>1, <1>2, Two
<1> QED
  BY <1>1, <1>3, Fixed DEF Turn, TurnAt, N

(***************************************************************************)
(* A call of the try block that neither speaks nor touches the buffer, and *)
(* that succeeds.                                                          *)
(***************************************************************************)
Plain(r) ==
  /\ In(r) /\ Advance(r)
  /\ \/ /\ Op(r) = "take" /\ held' = [held EXCEPT ![r] = @ \cup {Arg(r)}]
        /\ flag' = [flag EXCEPT ![r] = @ \cup {Arg(r)}]
     \/ /\ Op(r) = "drop" /\ held' = [held EXCEPT ![r] = @ \ {Arg(r)}]
        /\ flag' = [flag EXCEPT ![r] = @ \ {Arg(r)}]
     \/ Op(r) = "call" /\ UNCHANGED <<flag, held>>
  /\ UNCHANGED <<probe, failed, exit, busy, wire, ends, content, faults>>

LEMMA PlainKeeps == ASSUME IInv, NEW r \in Role, Plain(r) PROVE IInv'
<1> DEFINE q == Peer(r)
           i == at[r]
<1>1. /\ TypeOK /\ phase[r] = "try" /\ i \in 1 .. N(r) /\ N(r) \in 11 .. 20
      /\ at'[r] = i + 1 /\ at'[q] = at[q] /\ at' \in [Role -> 1 .. 32]
      /\ Turn(r) = TurnAt(r, i) /\ Turn(r)' = TurnAt(r, i + 1) /\ Turn(q)' = Turn(q)
      /\ Full' = Full /\ \A e \in Role : N(e)' = N(e)
      /\ UNCHANGED <<probe, phase, threw, failed, exit, busy, wire, ends, content, faults>>
  BY StepsOn DEF IInv, Plain
<1>2. /\ Op(r) = OpAt(r, i) /\ OpAt(r, i) \in {"take", "drop", "call"}
      /\ Op(r) # "call" => Arg(r) = ArgAt(r, i)
  BY <1>1, Entry DEF Plain, Named
<1>3. /\ q \in Role /\ q # r /\ Role = {r, q}
      /\ r = "creator" => q = "importer"
      /\ r = "importer" => q = "creator"
  BY Two
<1>4. /\ Turn(r)' = Turn(r) /\ SownAt(r, i + 1) = SownAt(r, i) /\ ~busy[r]
  <2>1. OpAt(r, i) \in Keeping /\ OpAt(r, i) \notin {"send"} \cup Hearing /\ OpAt(r, i) \notin Accesses
    BY <1>2 DEF Keeping, Hearing, Accesses, Writing, Reading
  <2>2. QED
    BY <1>1, <2>1, Silent DEF IInv, Places
<1>5. /\ held' \in [Role -> SUBSET Resource] /\ flag' \in [Role -> SUBSET Resource]
      /\ held'[q] = held[q] /\ flag'[q] = flag[q] /\ flag'[r] = held'[r]
      /\ flag'[r] \subseteq Covered(probe)
  <2>1. held \in [Role -> SUBSET Resource] /\ flag \in [Role -> SUBSET Resource]
    BY <1>1 DEF TypeOK
  <2>2. flag[r] = held[r] /\ flag[r] \subseteq Covered(probe)
    BY <1>1 DEF IInv, Flags
  <2>3. OpAt(r, i) = "take" => ArgAt(r, i) \in Resource \cap Covered(probe)
    BY <1>1, Taking
  <2>4. QED
    BY <1>2, <1>3, <2>1, <2>2, <2>3 DEF Plain
<1> HIDE DEF q, i
<1>6. \A e \in Role : Turn(e)' = Turn(e)
  BY <1>1, <1>3, <1>4
<1>7. TypeOK'
  BY <1>1, <1>5 DEF TypeOK
<1>8. Phases'
  BY <1>1 DEF IInv, Phases
<1>9. Places'
  BY <1>1, <1>3, <1>4 DEF IInv, Places, Before, OpAt
<1>10. Flags'
  BY <1>1, <1>3, <1>5 DEF IInv, Flags, Before, Covered
<1>11. Drops'
  <2>1. CASE r = "creator"
    <3>1. \A x : ToDrop(x)' <=> ToDrop(x)
      BY <1>1, <1>3, <2>1 DEF ToDrop, OpAt, ArgAt
    <3>2. QED
      BY <1>1, <1>3, <1>5, <2>1, <3>1 DEF IInv, Drops
  <2>2. CASE r = "importer"
    <3>1. SUFFICES ASSUME NEW x \in Shared, x \in flag'[r] PROVE ToDrop(x)'
      BY <2>2 DEF Drops
    <3>2. CASE Op(r) = "take" /\ x = Arg(r)
      <4>1. \E j \in i + 1 .. N(r) : OpAt(r, j) = "drop" /\ ArgAt(r, j) = x
        BY <1>1, <1>2, <2>2, <3>2, Taking
      <4>2. QED
        BY <1>1, <2>2, <4>1 DEF ToDrop, OpAt, ArgAt
    <3>3. CASE ~(Op(r) = "take" /\ x = Arg(r))
      <4>1. x \in flag[r] /\ ~(Op(r) = "drop" /\ x = Arg(r))
        BY <1>1, <3>1, <3>3 DEF Plain, TypeOK
      <4>2. PICK k \in i .. N(r) : OpAt(r, k) = "drop" /\ ArgAt(r, k) = x
        BY <1>1, <2>2, <4>1 DEF IInv, Drops, ToDrop, i
      <4>3. k # i
        BY <1>2, <4>1, <4>2
      <4>4. k \in i + 1 .. N(r)
        BY <1>1, <4>2, <4>3
      <4>5. QED
        BY <1>1, <2>2, <4>2, <4>4 DEF ToDrop, OpAt, ArgAt
    <3>4. QED
      BY <3>2, <3>3
  <2>3. QED
    BY <2>1, <2>2 DEF Role
<1>12. Verdicts'
  BY <1>1 DEF IInv, Verdicts
<1>13. Words'
  BY <1>1, <1>3, <1>4, Untold DEF Talking
<1>14. Buffer'
  BY <1>1, <1>2, <1>3, <1>4 DEF IInv, Buffer, Pattern, Unmoved, Talking, OpAt, SownAt, i
<1>15. LastWord'
  <2>1. GivenUp => GivenUp'
    <3>1. CASE r = "importer"
      BY <1>1, <3>1, NotGivenUp DEF Plain
    <3>2. CASE r = "creator"
      BY <1>1, <1>3, <1>5, <3>2 DEF GivenUp, Talking
    <3>3. QED
      BY <3>1, <3>2 DEF Role
  <2>2. QED
    BY <1>1, <1>6, <2>1, LastWordStands DEF CameThrough, Talking, Role
<1>16. Ends' /\ Quiet'
  BY <1>1, <1>6, StaysQuiet DEF Role
<1> QED
  BY <1>7, <1>8, <1>9, <1>10, <1>11, <1>12, <1>13, <1>14, <1>15, <1>16 DEF IInv

(***************************************************************************)
(* Whose turn it is, is alone with the buffer.                             *)
(***************************************************************************)
LEMMA Alone ==
  ASSUME IInv, NEW r \in Role, In(r), MyTurn(r, Turn(r))
  PROVE  /\ \A e \in Role : wire[e] = <<>>
         /\ Talking(Peer(r)) => Turn(Peer(r)) = Turn(r) /\ ~MyTurn(Peer(r), Turn(Peer(r)))
<1>1. Talking(r) /\ Words
  BY DEF IInv, Talking, In
<1>2. \A e \in Role : wire[e] = <<>>
  BY <1>1, Two DEF Words, Awaits
<1>3. Talking(Peer(r)) => Turn(Peer(r)) = Turn(r)
  BY <1>1, <1>2, Two DEF Words, Role
<1>4. Turn(r) \in 0 .. 6
  <2>1. at[r] \in 1 .. N(r) /\ TypeOK /\ N(r) \in 11 .. 20
    BY Entry DEF IInv
  <2>2. Turn(r) \in 0 .. Full /\ Full \in {4, 6}
    BY <2>1, Turns, SizesHold DEF Turn, TypeOK
  <2>3. QED
    BY <2>2
<1>5. MyTurn(r, Turn(r)) => ~MyTurn(Peer(r), Turn(r))
  BY <1>4, Alternation, Two DEF Role
<1> QED
  BY <1>2, <1>3, <1>5

LEMMA BeginKeeps == ASSUME IInv, NEW r \in Role, BeginAccess(r) PROVE IInv'
<1> DEFINE q == Peer(r)
<1>1. /\ TypeOK /\ In(r) /\ phase[r] = "try" /\ at[r] \in 1 .. N(r) /\ N(r) \in 11 .. 20
      /\ Op(r) = OpAt(r, at[r]) /\ OpAt(r, at[r]) \in Accesses
  BY Entry DEF IInv, BeginAccess, In, Accesses
<1>2. /\ busy' = [busy EXCEPT ![r] = TRUE]
      /\ content' = IF OpAt(r, at[r]) \in Writing THEN 0 ELSE content
      /\ UNCHANGED <<probe, phase, at, failed, exit, threw, flag, held, wire, ends, faults>>
  BY <1>1 DEF BeginAccess
<1>3. q \in Role /\ q # r /\ Role = {r, q}
  BY Two
<1>4. busy' \in [Role -> BOOLEAN] /\ busy'[r] = TRUE /\ busy'[q] = busy[q] /\ ~busy[r]
  BY <1>1, <1>2, <1>3, Boolean DEF TypeOK, BeginAccess
<1>5. MyTurn(r, Turn(r))
  BY <1>1, Silent DEF Turn
<1>6. /\ \A e \in Role : wire[e] = <<>>
      /\ Talking(q) => ~MyTurn(q, Turn(q))
  BY <1>1, <1>5, Alone
<1>7. /\ \A e \in Role : Turn(e)' = Turn(e) /\ N(e)' = N(e) /\ (Talking(e)' <=> Talking(e))
      /\ \A e \in Role, k \in Nat : /\ OpAt(e, k)' = OpAt(e, k) /\ ArgAt(e, k)' = ArgAt(e, k)
                                    /\ SownAt(e, k)' = SownAt(e, k)
  BY <1>2, Fixed DEF Turn, TurnAt, N, Talking
<1> HIDE DEF q
<1>8. TypeOK'
  BY <1>1, <1>2, <1>4 DEF TypeOK
<1>9. Phases' /\ Flags' /\ Verdicts'
  BY <1>2 DEF IInv, Phases, Flags, Verdicts, Covered
<1>10. Drops'
  BY <1>2, <1>7 DEF IInv, Drops, ToDrop, OpAt, ArgAt, N
<1>11. Places'
  BY <1>1, <1>2, <1>3, <1>4, <1>7 DEF IInv, Places, OpAt
<1>12. Words'
  BY <1>2, <1>7, Untold
<1>13. Buffer'
  <2>1. Pattern(r)'
    <3>1. Unmoved(r) \/ content = SownAt(r, at[r])
      BY <1>1, <1>4, <1>5 DEF IInv, Buffer, Pattern, Talking
    <3>2. Unmoved(r) => Unmoved(r)' /\ OpAt(r, at[r]) \notin Writing
      BY <1>2 DEF Unmoved, OpAt, Writing
    <3>3. QED
      BY <1>2, <1>3, <1>4, <1>6, <3>1, <3>2 DEF Pattern, OpAt, SownAt
  <2>2. Talking(q) => Pattern(q)'
    BY <1>2, <1>3, <1>6, <1>7 DEF Pattern
  <2>3. QED
    BY <1>3, <1>7, <2>1, <2>2 DEF Buffer
<1>14. LastWord'
  <2>1. GivenUp => GivenUp'
    BY <1>2, <1>7 DEF GivenUp, Role
  <2>2. CameThrough' => CameThrough
    BY <1>2 DEF CameThrough, Talking
  <2>3. ~CameThrough
    BY <1>1, NotThrough
  <2>4. QED
    BY <1>2, <1>7, <2>1, <2>2, <2>3, LastWordStands DEF Role
<1>15. Ends' /\ Quiet'
  BY <1>2, <1>7, StaysQuiet DEF Role
<1> QED
  BY <1>8, <1>9, <1>10, <1>11, <1>12, <1>13, <1>14, <1>15 DEF IInv

(***************************************************************************)
(* An access is over, and its pattern is the next entry's, unless a copy   *)
(* moved nothing; io_tests may have counted a failure.                     *)
(***************************************************************************)
Accessed(r) ==
  /\ In(r) /\ busy[r] /\ Op(r) \in Accesses /\ Advance(r)
  /\ busy' = [busy EXCEPT ![r] = FALSE]
  /\ \/ content' = IF Op(r) \in Writing THEN Arg(r) ELSE content
     \/ Op(r) = "copy_in" /\ UNCHANGED content /\ faults' \in 1 .. MaxFaults
  /\ Op(r) \in Reading => content = Arg(r)
  /\ \/ UNCHANGED failed /\ (UNCHANGED faults \/ faults' \in 1 .. MaxFaults)
     \/ failed' = [failed EXCEPT ![r] = TRUE] /\ faults' \in 1 .. MaxFaults
  /\ UNCHANGED <<probe, exit, flag, held, wire, ends>>

LEMMA AccessedKeeps == ASSUME IInv, NEW r \in Role, Accessed(r) PROVE IInv'
<1> DEFINE q == Peer(r)
           i == at[r]
<1>1. /\ TypeOK /\ phase[r] = "try" /\ i \in 1 .. N(r) /\ N(r) \in 11 .. 20
      /\ at'[r] = i + 1 /\ at'[q] = at[q] /\ at' \in [Role -> 1 .. 32]
      /\ Turn(r) = TurnAt(r, i) /\ Turn(r)' = TurnAt(r, i + 1) /\ Turn(q)' = Turn(q)
      /\ UNCHANGED <<probe, phase, threw, exit, flag, held, wire, ends>>
  BY StepsOn DEF IInv, Accessed
<1>2. /\ Op(r) = OpAt(r, i) /\ OpAt(r, i) \in Accesses /\ In(r)
      /\ Op(r) \in Reading => Arg(r) = SownAt(r, i)
      /\ Op(r) \in Writing => Arg(r) = SownAt(r, i + 1)
  BY <1>1, Entry DEF Accessed
<1>3. q \in Role /\ q # r /\ Role = {r, q}
  BY Two
<1>4. /\ busy' \in [Role -> BOOLEAN] /\ busy'[r] = FALSE /\ busy'[q] = busy[q]
      /\ failed' \in [Role -> BOOLEAN] /\ failed'[q] = failed[q]
      /\ failed'[r] # failed[r] => failed'[r] /\ faults' # 0
  <2>1. /\ busy \in [Role -> BOOLEAN] /\ failed \in [Role -> BOOLEAN]
        /\ faults \in Nat /\ \A n \in 1 .. MaxFaults : n # 0
    BY <1>1, MaxFaultsAssumption DEF TypeOK
  <2>2. busy' \in [Role -> BOOLEAN] /\ busy'[r] = FALSE /\ busy'[q] = busy[q]
    BY <1>3, <2>1, Boolean DEF Accessed
  <2>3. CASE UNCHANGED failed
    BY <2>1, <2>2, <2>3
  <2>4. CASE failed' = [failed EXCEPT ![r] = TRUE] /\ faults' \in 1 .. MaxFaults
    BY <1>3, <2>1, <2>2, <2>4, Boolean
  <2>5. QED
    BY <2>3, <2>4 DEF Accessed
<1>5. Turn(r)' = Turn(r) /\ MyTurn(r, Turn(r))
  <2>1. OpAt(r, i) \notin {"send"} \cup Hearing
    BY <1>2 DEF Accesses, Writing, Reading, Hearing
  <2>2. QED
    BY <1>1, <1>2, <2>1, Silent
<1>6. /\ \A e \in Role : wire[e] = <<>>
      /\ Talking(q) => ~MyTurn(q, Turn(q))
  BY <1>2, <1>5, Alone
<1>7. \/ content' = SownAt(r, i + 1)
      \/ OpAt(r, i + 1) = "copy_out" /\ faults' # 0 /\ content' = content
  <2>1. CASE Op(r) \in Writing
    <3>1. CASE Op(r) = "copy_in" /\ UNCHANGED content /\ faults' \in 1 .. MaxFaults
      <4>1. OpAt(r, i + 1) = "copy_out"
        BY <1>1, <1>2, <3>1, Silent
      <4>2. faults' # 0
        BY <3>1, MaxFaultsAssumption
      <4>3. QED
        BY <3>1, <4>1, <4>2
    <3>2. QED
      BY <1>2, <2>1, <3>1 DEF Accessed
  <2>2. CASE Op(r) \notin Writing
    <3>1. OpAt(r, i) \in Reading /\ OpAt(r, i) \in Keeping
      BY <1>2, <2>2 DEF Accesses, Keeping
    <3>2. SownAt(r, i + 1) = SownAt(r, i)
      BY <1>1, <3>1, Silent
    <3>3. QED
      BY <1>2, <2>2, <3>1, <3>2 DEF Accessed
  <2>3. QED
    BY <2>1, <2>2
<1>8. /\ \A e \in Role : Turn(e)' = Turn(e) /\ N(e)' = N(e) /\ (Talking(e)' <=> Talking(e))
      /\ \A e \in Role, k \in Nat : /\ OpAt(e, k)' = OpAt(e, k) /\ ArgAt(e, k)' = ArgAt(e, k)
                                    /\ SownAt(e, k)' = SownAt(e, k)
  BY <1>1, <1>3, <1>5, Fixed DEF Talking
<1> HIDE DEF q, i
<1>9. TypeOK'
  <2>1. content' \in {0} \cup Seed
    <3>1. content \in {0} \cup Seed
      BY <1>1 DEF TypeOK, Seed
    <3>2. i + 1 \in 1 .. N(r) + 1
      BY <1>1
    <3>3. SownAt(r, i + 1) \in {0} \cup Seed
      BY <1>1, <3>2, Turns
    <3>4. QED
      BY <1>7, <3>1, <3>3
  <2>2. faults' \in 0 .. MaxFaults
    BY <1>1, MaxFaultsAssumption DEF Accessed, TypeOK
  <2>3. QED
    BY <1>1, <1>4, <2>1, <2>2 DEF TypeOK, Seed
<1>10. Phases'
  BY <1>1 DEF IInv, Phases
<1>11. Places'
  BY <1>1, <1>3, <1>4, <1>8 DEF IInv, Places, Before, OpAt, i
<1>12. Flags' /\ Verdicts'
  <2>1. Flags'
    BY <1>1, <1>3, <1>4 DEF IInv, Flags, Before, Covered
  <2>2. exit[r] # "pass"
    BY <1>1 DEF IInv, Phases
  <2>3. QED
    BY <1>1, <1>3, <1>4, <2>1, <2>2 DEF IInv, Verdicts
<1>13. Drops'
  <2>1. \A x : ToDrop(x) => ToDrop(x)'
    <3> SUFFICES ASSUME NEW x, ToDrop(x) PROVE ToDrop(x)'
      OBVIOUS
    <3>1. PICK k \in at["importer"] .. N("importer") :
            OpAt("importer", k) = "drop" /\ ArgAt("importer", k) = x
      BY DEF ToDrop
    <3>2. k \in at'["importer"] .. N("importer")
      <4>1. CASE r = "importer"
        <5>1. OpAt("importer", at["importer"]) # "drop"
          BY <1>2, <4>1 DEF i, Accesses, Writing, Reading
        <5>2. k # at["importer"]
          BY <3>1, <5>1
        <5>3. QED
          BY <1>1, <3>1, <4>1, <5>2 DEF i
      <4>2. CASE r # "importer"
        BY <1>1, <1>3, <3>1, <4>2 DEF Role
      <4>3. QED
        BY <4>1, <4>2
    <3>3. k \in Nat /\ "importer" \in Role
      <4>1. at \in [Role -> 1 .. 32] /\ "importer" \in Role
        BY <1>1 DEF TypeOK, Role
      <4>2. at["importer"] \in 1 .. 32
        BY <4>1
      <4>3. QED
        BY <3>1, <4>1, <4>2
    <3>4. QED
      BY <1>8, <3>1, <3>2, <3>3 DEF ToDrop
  <2>2. QED
    BY <1>1, <2>1 DEF IInv, Drops
<1>14. Words'
  BY <1>1, <1>8, Untold
<1>15. Buffer'
  <2>1. Pattern(r)'
    BY <1>1, <1>4, <1>6, <1>7, <1>8 DEF Pattern, Unmoved
  <2>2. Talking(q) => Pattern(q)'
    BY <1>1, <1>3, <1>6, <1>8 DEF Pattern
  <2>3. QED
    BY <1>3, <1>8, <2>1, <2>2 DEF Buffer
<1>16. LastWord'
  <2>1. GivenUp => GivenUp'
    <3>1. CASE r = "importer"
      BY <1>1, <1>2, <3>1, NotGivenUp
    <3>2. CASE r # "importer"
      BY <1>1, <1>3, <1>8, <3>2 DEF GivenUp, Role
    <3>3. QED
      BY <3>1, <3>2
  <2>2. CameThrough' => CameThrough
    BY <1>1 DEF CameThrough, Talking
  <2>3. ~CameThrough
    BY <1>2, NotThrough
  <2>4. QED
    BY <1>1, <1>8, <2>1, <2>2, <2>3, LastWordStands DEF Role
<1>17. Ends' /\ Quiet'
  <2>1. CASE UNCHANGED <<failed, faults>>
    BY <1>1, <1>8, <2>1, StaysQuiet DEF Role
  <2>2. CASE faults' \in 1 .. MaxFaults
    BY <1>1, <2>2, MaxFaultsAssumption DEF IInv, Ends, Quiet
  <2>3. QED
    BY <2>1, <2>2 DEF Accessed
<1> QED
  BY <1>9, <1>10, <1>11, <1>12, <1>13, <1>14, <1>15, <1>16, <1>17 DEF IInv

(***************************************************************************)
(* A word is spoken: the buffer goes with it.                              *)
(***************************************************************************)
Sent(r) ==
  /\ In(r) /\ Op(r) = "send" /\ Advance(r)
  /\ \E word \in Spoken(r) : wire' = [wire EXCEPT ![Peer(r)] = Append(@, word)]
  /\ UNCHANGED <<probe, failed, exit, busy, flag, held, ends, content, faults>>

\* What is left to the importer after its last word.
LEMMA Empties ==
  ASSUME IInv, In("importer"), at["importer"] = N("importer")
  PROVE  held["importer"] \cap Shared = {}
<1>1. TypeOK /\ phase["importer"] = "try" /\ "importer" \in Role /\ N("importer") \in 11 .. 20
  BY Entry DEF IInv, In, Role
<1>2. OpAt("importer", N("importer")) = "send"
  BY <1>1, Limits
<1>3. \A x : ~ToDrop(x)
  BY <1>1, <1>2 DEF ToDrop
<1>4. flag["importer"] = held["importer"]
  BY <1>1 DEF IInv, Flags
<1> QED
  BY <1>1, <1>3, <1>4 DEF IInv, Drops

LEMMA SentKeeps == ASSUME IInv, NEW r \in Role, Sent(r) PROVE IInv'
<1> DEFINE q == Peer(r)
           i == at[r]
<1>1. /\ TypeOK /\ phase[r] = "try" /\ i \in 1 .. N(r) /\ N(r) \in 11 .. 20
      /\ at'[r] = i + 1 /\ at'[q] = at[q] /\ at' \in [Role -> 1 .. 32]
      /\ Turn(r) = TurnAt(r, i) /\ Turn(r)' = TurnAt(r, i + 1) /\ Turn(q)' = Turn(q)
      /\ UNCHANGED <<probe, phase, threw, failed, exit, busy, flag, held, ends, content, faults>>
  BY StepsOn DEF IInv, Sent
<1>2. /\ OpAt(r, i) = "send" /\ Arg(r) = ArgAt(r, i) /\ In(r)
  BY <1>1, Entry DEF Sent, Named
<1>3. /\ q \in Role /\ q # r /\ Role = {r, q} /\ Peer(q) = r
      /\ r = "creator" => q = "importer"
      /\ r = "importer" => q = "creator"
  BY Two
<1>4. /\ MyTurn(r, Turn(r)) /\ Turn(r)' = Turn(r) + 1 /\ Arg(r) = WordAt(probe, Turn(r))
      /\ SownAt(r, i) = PatternAt(probe, Turn(r))
  BY <1>1, <1>2, Speaking
<1>5. /\ Turn(r) \in 0 .. 5 /\ Turn(r) + 1 <= Full /\ Full \in {4, 6}
      /\ ~MyTurn(r, Turn(r) + 1) /\ ~MyTurn(q, Turn(r))
  <2>1. Turn(r) \in 0 .. Full /\ Turn(r) + 1 \in 0 .. Full /\ Full \in {4, 6}
    BY <1>1, <1>4, Turns, SizesHold DEF TypeOK
  <2>2. Turn(r) \in 0 .. 5 /\ Turn(r) \in 0 .. 6
    BY <2>1
  <2>3. ~MyTurn(r, Turn(r) + 1)
    BY <1>4, <2>2, Alternation
  <2>4. ~MyTurn(q, Turn(r))
    <3>1. CASE r = "creator"
      BY <1>3, <1>4, <2>2, <3>1, Alternation
    <3>2. CASE r = "importer"
      BY <1>3, <1>4, <2>2, <3>2, Alternation
    <3>3. QED
      BY <3>1, <3>2 DEF Role
  <2>5. QED
    BY <2>1, <2>2, <2>3, <2>4
<1>6. /\ \A e \in Role : wire[e] = <<>>
      /\ Talking(q) => Turn(q) = Turn(r)
  BY <1>2, <1>4, Alone
<1>7. content = PatternAt(probe, Turn(r))
  <2>1. ~busy[r]
    BY <1>1, <1>2 DEF IInv, Places, Accesses, Writing, Reading
  <2>2. QED
    BY <1>1, <1>2, <1>4, <2>1 DEF IInv, Buffer, Pattern, Unmoved, Talking
<1>8. PICK w \in Word : /\ wire' = [wire EXCEPT ![q] = <<w>>] /\ Fits(w, Turn(r))
                        /\ ~failed[r] => w # "1"
  <2>1. PICK w \in Spoken(r) : wire' = [wire EXCEPT ![q] = Append(@, w)]
    BY DEF Sent
  <2>2. w \in Word /\ Fits(w, Turn(r)) /\ (~failed[r] => w # "1")
    BY <1>4, <2>1 DEF Spoken, Fits, WordAt, Word
  <2>3. wire' = [wire EXCEPT ![q] = <<w>>]
    BY <1>1, <1>3, <1>6, <2>1, <2>2, OneWord DEF TypeOK
  <2>4. QED
    BY <2>2, <2>3
<1>9. /\ wire' \in [Role -> Seq(Word)] /\ wire'[q] = <<w>> /\ wire'[r] = <<>> /\ wire'[q] # <<>>
      /\ Len(wire'[q]) = 1 /\ Len(wire'[r]) = 0 /\ Head(wire'[q]) = w /\ wire'[q][1] = w
  BY <1>1, <1>3, <1>6, <1>8, OneWord DEF TypeOK
<1>10. /\ \A e \in Role : N(e)' = N(e) /\ (Talking(e)' <=> Talking(e))
       /\ \A e \in Role, k \in Nat : OpAt(e, k)' = OpAt(e, k) /\ ArgAt(e, k)' = ArgAt(e, k)
       /\ Full' = Full /\ \A v, n : Fits(v, n)' <=> Fits(v, n)
  BY <1>1, Fixed DEF Talking
<1> HIDE DEF q, i
<1>11. TypeOK'
  <2>1. \A e \in Role : Len(wire'[e]) <= 1
    <3>1. Len(wire'[q]) <= 1 /\ Len(wire'[r]) <= 1
      BY <1>9
    <3>2. QED
      BY <1>3, <3>1
  <2>2. QED
    BY <1>1, <1>9, <2>1 DEF TypeOK
<1>12. Phases' /\ Verdicts'
  BY <1>1 DEF IInv, Phases, Verdicts
<1>13. Places'
  <2>1. ~busy[r]
    BY <1>1, <1>2 DEF IInv, Places, Accesses, Writing, Reading, i
  <2>2. QED
    BY <1>1, <1>3, <1>10, <2>1 DEF IInv, Places, Before, OpAt
<1>14. Flags'
  BY <1>1, <1>3 DEF IInv, Flags, Before, Covered
<1>15. Drops'
  <2>1. ASSUME NEW x, ToDrop(x) PROVE ToDrop(x)'
    <3>1. PICK k \in at["importer"] .. N("importer") :
            OpAt("importer", k) = "drop" /\ ArgAt("importer", k) = x
      BY <2>1 DEF ToDrop
    <3>2. k \in at'["importer"] .. N("importer")
      <4>1. CASE r = "importer"
        BY <1>1, <1>2, <3>1, <4>1 DEF i
      <4>2. CASE r # "importer"
        BY <1>1, <1>3, <3>1, <4>2 DEF Role
      <4>3. QED
        BY <4>1, <4>2
    <3>3. QED
      BY <1>1, <3>1, <3>2 DEF ToDrop, OpAt, ArgAt, N
  <2>2. QED
    BY <1>1, <2>1 DEF IInv, Drops
<1>16. Words'
  <2>1. Awaits(r)'
    BY <1>3, <1>4, <1>5, <1>9 DEF Awaits
  <2>2. Talking(q) => Awaits(q)'
    BY <1>1, <1>3, <1>5, <1>6, <1>8, <1>9, <1>10 DEF Awaits
  <2>3. QED
    BY <1>1, <1>3, <1>4, <1>6, <1>9, <1>10, <2>1, <2>2 DEF Words, Role
<1>17. Buffer'
  <2>1. Pattern(r)'
    BY <1>4, <1>5, <1>9 DEF Pattern
  <2>2. Talking(q) => Pattern(q)'
    BY <1>1, <1>5, <1>6, <1>7, <1>9 DEF Pattern
  <2>3. QED
    BY <1>3, <1>10, <2>1, <2>2 DEF Buffer
<1>18. LastWord'
  <2>1. ~CameThrough'
    <3>1. ~CameThrough
      BY <1>2, NotThrough
    <3>2. QED
      BY <1>1, <3>1 DEF CameThrough, Talking
  <2>2. CASE r = "creator"
    <3>1. ~LastSpoken'
      <4>1. Turn("creator")' # Full'
        BY <1>4, <1>5, <1>10, <2>2, Alternation
      <4>2. QED
        BY <1>9, <2>2, <4>1 DEF LastSpoken
    <3>2. QED
      BY <2>1, <3>1 DEF LastWord
  <2>3. CASE r = "importer"
    <3>1. SUFFICES ASSUME Talking("creator"), LastSpoken' PROVE GivenUp'
      BY <1>3, <1>10, <2>1, <2>3 DEF LastWord
    <3>2. Turn("importer") + 1 = Full
      BY <1>1, <1>3, <1>5, <1>6, <1>10, <2>3, <3>1 DEF LastSpoken
    <3>3. i = N("importer")
      <4>1. TurnAt("importer", i + 1) = Full
        BY <1>1, <1>4, <2>3, <3>2
      <4>2. i + 1 \notin 1 .. N("importer")
        BY <1>1, <1>5, <4>1, Limits
      <4>3. QED
        BY <1>1, <2>3, <4>2
    <3>4. held["importer"] \cap Shared = {}
      BY <1>2, <2>3, <3>3, Empties DEF i
    <3>5. QED
      BY <1>1, <1>9, <1>10, <2>3, <3>3, <3>4 DEF GivenUp
  <2>4. QED
    BY <2>2, <2>3 DEF Role
<1>19. Ends' /\ Quiet'
  <2>1. Ends'
    BY <1>1 DEF IInv, Ends
  <2>2. ~Talking("importer") /\ Talking("creator") /\ faults = 0 => r # "creator"
    <3>1. SUFFICES ASSUME ~Talking("importer"), LastSpoken, r = "creator" PROVE FALSE
      BY <1>1 DEF IInv, Quiet
    <3>2. QED
      BY <1>3, <1>5, <1>6, <3>1 DEF LastSpoken
  <2>3. r = "importer" => Talking("importer")
    BY <1>1 DEF Talking
  <2>4. QED
    BY <1>1, <1>3, <1>8, <1>9, <1>10, <2>1, <2>2, <2>3 DEF IInv, Quiet, Role
<1> QED
  BY <1>11, <1>12, <1>13, <1>14, <1>15, <1>16, <1>17, <1>18, <1>19 DEF IInv

(***************************************************************************)
(* A word is heard: the buffer came with it.                               *)
(***************************************************************************)
Heard(r) ==
  /\ In(r) /\ Op(r) \in Hearing /\ Advance(r)
  /\ wire[r] # <<>> /\ wire' = [wire EXCEPT ![r] = Tail(@)]
  /\ failed' = [failed EXCEPT ![r] = @ \/ (Op(r) = "add" /\ Head(wire[r]) # "0")]
  /\ UNCHANGED <<probe, exit, busy, flag, held, ends, content, faults>>

\* The word that is heard is the one that is due.
LEMMA Due ==
  ASSUME IInv, NEW r \in Role, In(r), Op(r) \in Hearing, wire[r] # <<>>
  PROVE  /\ Fits(Head(wire[r]), Turn(r)) /\ Turn(r) < Full /\ Head(wire[r]) = wire[r][1]
         /\ Len(wire[r]) = 1 /\ Tail(wire[r]) = <<>>
         /\ Op(r) = "expect" => Head(wire[r]) = Arg(r)
         /\ Op(r) = "add" => Head(wire[r]) \in {"0", "1"}
<1>1. TypeOK /\ at[r] \in 1 .. N(r) /\ OpAt(r, at[r]) = Op(r) /\ Turn(r) = TurnAt(r, at[r])
  BY Entry DEF IInv, Turn
<1>2. Fits(Head(wire[r]), Turn(r)) /\ Turn(r) < Full
  BY DEF IInv, Words, Awaits, Talking, In
<1>3. Len(wire[r]) = 1 /\ Tail(wire[r]) = <<>> /\ Head(wire[r]) = wire[r][1]
  BY <1>1, OneWord DEF TypeOK
<1>4. /\ Op(r) = "expect" => ArgAt(r, at[r]) = WordAt(probe, Turn(r))
      /\ Op(r) = "add" <=> WordAt(probe, Turn(r)) = "failures"
  BY <1>1, Listening
<1>5. Op(r) = "expect" => Arg(r) = ArgAt(r, at[r]) /\ Op(r) # "add"
  BY <1>1, Entry DEF Named
<1> QED
  BY <1>2, <1>3, <1>4, <1>5 DEF Fits

LEMMA HeardKeeps == ASSUME IInv, NEW r \in Role, Heard(r) PROVE IInv'
<1> DEFINE q == Peer(r)
           i == at[r]
<1>1. /\ TypeOK /\ phase[r] = "try" /\ i \in 1 .. N(r) /\ N(r) \in 11 .. 20
      /\ at'[r] = i + 1 /\ at'[q] = at[q] /\ at' \in [Role -> 1 .. 32]
      /\ Turn(r) = TurnAt(r, i) /\ Turn(r)' = TurnAt(r, i + 1) /\ Turn(q)' = Turn(q)
      /\ UNCHANGED <<probe, phase, threw, exit, busy, flag, held, ends, content, faults>>
  BY StepsOn DEF IInv, Heard
<1>2. OpAt(r, i) \in Hearing /\ OpAt(r, i) = Op(r) /\ In(r)
  BY <1>1, Entry DEF Heard
<1>3. /\ q \in Role /\ q # r /\ Role = {r, q} /\ Peer(q) = r
      /\ r = "creator" => q = "importer"
      /\ r = "importer" => q = "creator"
  BY Two
<1>4. /\ ~MyTurn(r, Turn(r)) /\ Turn(r)' = Turn(r) + 1
      /\ SownAt(r, i + 1) = PatternAt(probe, Turn(r))
  BY <1>1, <1>2, Listening
<1>5. /\ Fits(Head(wire[r]), Turn(r)) /\ Turn(r) < Full /\ Head(wire[r]) = wire[r][1]
      /\ Len(wire[r]) = 1 /\ Tail(wire[r]) = <<>>
      /\ Op(r) = "add" => Head(wire[r]) \in {"0", "1"}
  BY <1>2, Due DEF Heard
<1>6. /\ wire' = [wire EXCEPT ![r] = <<>>] /\ wire[r] # <<>> /\ wire[q] = <<>>
      /\ Talking(q) => Turn(q) = Turn(r) + 1
      /\ content = PatternAt(probe, Turn(r)) /\ ~busy[r]
  <2>1. wire[r] # <<>> /\ wire' = [wire EXCEPT ![r] = <<>>]
    BY <1>5 DEF Heard
  <2>2. wire[q] = <<>> /\ (Talking(q) => Turn(q) = Turn(r) + 1)
    BY <1>1, <1>3, <2>1 DEF IInv, Words, Talking, Role
  <2>3. content = PatternAt(probe, Turn(r))
    BY <1>1, <2>1 DEF IInv, Buffer, Pattern, Talking
  <2>4. ~busy[r]
    BY <1>1, <1>2 DEF IInv, Places, Accesses, Writing, Reading, Hearing
  <2>5. QED
    BY <2>1, <2>2, <2>3, <2>4
<1>7. wire' \in [Role -> Seq(Word)] /\ \A e \in Role : wire'[e] = <<>>
  <2>1. wire \in [Role -> Seq(Word)] /\ <<>> \in Seq(Word)
    BY <1>1 DEF TypeOK
  <2>2. QED
    BY <1>3, <1>6, <2>1
<1>8. /\ failed \in [Role -> BOOLEAN] /\ failed' \in [Role -> BOOLEAN] /\ failed'[q] = failed[q]
      /\ failed[r] => failed'[r]
      /\ failed'[r] => failed[r] \/ (Op(r) = "add" /\ Head(wire[r]) # "0")
  <2>1. failed \in [Role -> BOOLEAN]
    BY <1>1 DEF TypeOK
  <2>2. (failed[r] \/ (Op(r) = "add" /\ Head(wire[r]) # "0")) \in BOOLEAN
    OBVIOUS
  <2>3. failed' \in [Role -> BOOLEAN]
    BY <2>1, <2>2 DEF Heard
  <2>4. /\ failed'[r] = (failed[r] \/ (Op(r) = "add" /\ Head(wire[r]) # "0"))
        /\ failed'[q] = failed[q]
    BY <1>3, <2>1 DEF Heard
  <2>5. QED
    BY <2>1, <2>3, <2>4
<1>9. /\ \A e \in Role : N(e)' = N(e) /\ (Talking(e)' <=> Talking(e))
      /\ \A e \in Role, k \in Nat : OpAt(e, k)' = OpAt(e, k) /\ ArgAt(e, k)' = ArgAt(e, k)
                                    /\ SownAt(e, k)' = SownAt(e, k)
      /\ Full' = Full
  BY <1>1, Fixed DEF Talking
<1> HIDE DEF q, i
<1>10. TypeOK'
  <2>1. \A e \in Role : Len(wire'[e]) <= 1
    BY <1>7
  <2>2. QED
    BY <1>1, <1>7, <1>8, <2>1 DEF TypeOK
<1>11. Phases'
  BY <1>1 DEF IInv, Phases
<1>12. Places'
  BY <1>1, <1>3, <1>6, <1>9 DEF IInv, Places, Before, OpAt
<1>13. Flags' /\ Verdicts'
  <2>1. Flags'
    BY <1>1, <1>3, <1>8 DEF IInv, Flags, Before, Covered
  <2>2. exit[r] # "pass"
    BY <1>1 DEF IInv, Phases
  <2>3. QED
    BY <1>1, <1>3, <1>8, <2>1, <2>2 DEF IInv, Verdicts
<1>14. Drops'
  <2>1. ASSUME NEW x, ToDrop(x) PROVE ToDrop(x)'
    <3>1. PICK k \in at["importer"] .. N("importer") :
            OpAt("importer", k) = "drop" /\ ArgAt("importer", k) = x
      BY <2>1 DEF ToDrop
    <3>2. k \in at'["importer"] .. N("importer")
      <4>1. CASE r = "importer"
        BY <1>1, <1>2, <3>1, <4>1 DEF i, Hearing
      <4>2. CASE r # "importer"
        BY <1>1, <1>3, <3>1, <4>2 DEF Role
      <4>3. QED
        BY <4>1, <4>2
    <3>3. QED
      BY <1>1, <3>1, <3>2 DEF ToDrop, OpAt, ArgAt, N
  <2>2. QED
    BY <1>1, <2>1 DEF IInv, Drops
<1>15. Words'
  <2>1. \A e \in Role : wire'[e] = <<>> /\ wire'[Peer(e)] = <<>>
    BY <1>7, Two
  <2>2. Talking(q) => Turn(q)' = Turn(r)'
    BY <1>1, <1>4, <1>6
  <2>3. QED
    BY <1>3, <1>9, <2>1, <2>2 DEF Words, Awaits, Role
<1>16. Buffer'
  <2>1. Pattern(r)'
    BY <1>1, <1>4, <1>6, <1>7, <1>9 DEF Pattern
  <2>2. Talking(q) => Pattern(q)'
    <3>1. MyTurn(q, Turn(q))' => MyTurn(q, Turn(q))
      BY <1>1 DEF MyTurn
    <3>2. QED
      BY <1>1, <1>3, <1>7, <3>1 DEF IInv, Buffer, Pattern, Unmoved, OpAt, SownAt
  <2>3. QED
    BY <1>3, <1>9, <2>1, <2>2 DEF Buffer
<1>17. LastWord'
  <2>1. ~CameThrough'
    <3>1. ~CameThrough
      BY <1>2, NotThrough
    <3>2. QED
      BY <1>1, <3>1 DEF CameThrough, Talking
  <2>2. SUFFICES ASSUME Talking("creator"), LastSpoken' PROVE GivenUp'
    BY <1>9, <2>1 DEF LastWord, Role
  <2>3. Turn("creator")' = Full
    BY <1>7, <1>9, <2>2 DEF LastSpoken, Role
  <2>4. CASE r = "creator"
    <3>1. LastSpoken
      BY <1>4, <1>6, <2>3, <2>4 DEF LastSpoken
    <3>2. GivenUp
      BY <2>2, <3>1 DEF IInv, LastWord
    <3>3. QED
      BY <1>1, <1>3, <1>7, <1>9, <2>4, <3>2 DEF GivenUp, Role
  <2>5. CASE r = "importer"
    <3>1. LastSpoken
      BY <1>1, <1>3, <2>3, <2>5 DEF LastSpoken
    <3>2. ~GivenUp
      BY <1>1, <1>2, <2>5, NotGivenUp
    <3>3. QED
      BY <2>2, <3>1, <3>2 DEF IInv, LastWord
  <2>6. QED
    BY <2>4, <2>5 DEF Role
<1>18. Ends' /\ Quiet'
  <2>1. Ends'
    BY <1>1 DEF IInv, Ends
  <2>2. SUFFICES ASSUME faults = 0 PROVE Quiet'
    BY <1>1, <2>1 DEF Quiet
  <2>3. \A e \in Role : ~threw[e] /\ ~failed[e] /\ exit[e] \in {"none", "pass"}
    BY <2>2 DEF IInv, Quiet
  <2>4. Head(wire[r]) # "1"
    BY <1>5, <2>2 DEF IInv, Quiet
  <2>5. \A e \in Role : ~failed'[e]
    BY <1>3, <1>5, <1>8, <2>3, <2>4
  <2>6. \A e \in Role : 1 .. Len(wire'[e]) = {}
    BY <1>7
  <2>7. ASSUME ~Talking("importer"), Talking("creator") PROVE LastSpoken'
    <3>1. LastSpoken
      BY <2>2, <2>7 DEF IInv, Quiet
    <3>2. r = "creator"
      BY <1>1, <2>7 DEF Talking, Role
    <3>3. Turn(r) + 1 = Full
      <4>1. Full \in {4, 6}
        BY <1>1, SizesHold DEF TypeOK
      <4>2. Turn(r) # Full
        BY <1>5, <4>1
      <4>3. QED
        BY <3>1, <3>2, <4>2 DEF LastSpoken
    <3>4. QED
      BY <1>4, <1>9, <3>2, <3>3 DEF LastSpoken
  <2>8. QED
    BY <1>1, <1>9, <2>3, <2>5, <2>6, <2>7 DEF Quiet, Role
<1> QED
  BY <1>10, <1>11, <1>12, <1>13, <1>14, <1>15, <1>16, <1>17, <1>18 DEF IInv

(***************************************************************************)
(* The try block is left at its end: the creator with the last word.       *)
(***************************************************************************)
LEMMA LeaveKeeps == ASSUME IInv, NEW r \in Role, LeaveTry(r) PROVE IInv'
<1> DEFINE q == Peer(r)
<1>1. /\ TypeOK /\ phase[r] = "try"
      /\ phase' = [phase EXCEPT ![r] = "unwind"] /\ at' = [at EXCEPT ![r] = 1]
      /\ UNCHANGED <<probe, failed, exit, threw, busy, flag, held, wire, ends, content, faults>>
  BY DEF IInv, LeaveTry
<1>2. at[r] = N(r) + 1 /\ N(r) \in 11 .. 20
  <2>1. probe \in Probe /\ at \in [Role -> 1 .. 32]
    BY <1>1 DEF TypeOK
  <2>2. N(r) \in 11 .. 20 /\ at[r] \in 1 .. 32
    BY <2>1, SizesHold DEF Sizes
  <2>3. Len(Script[probe][r]) = N(r)
    BY <2>1, Table DEF Transcribes, N
  <2>4. at[r] > N(r)
    BY <2>3 DEF LeaveTry, Ops
  <2>5. at[r] <= N(r) + 1
    BY <1>1 DEF IInv, Places
  <2>6. QED
    BY <2>2, <2>4, <2>5
<1>3. /\ q \in Role /\ q # r /\ Role = {r, q} /\ Peer(q) = r
      /\ r = "creator" => q = "importer"
      /\ r = "importer" => q = "creator"
  BY Two
<1>4. /\ phase'[r] = "unwind" /\ phase'[q] = phase[q] /\ at'[r] = 1 /\ at'[q] = at[q]
      /\ phase' \in [Role -> {"unborn", "launch", "forked", "try", "unwind", "wait", "gone"}]
      /\ at' \in [Role -> 1 .. 32]
  <2>1. /\ phase \in [Role -> {"unborn", "launch", "forked", "try", "unwind", "wait", "gone"}]
        /\ at \in [Role -> 1 .. 32]
    BY <1>1 DEF TypeOK
  <2>2. QED
    BY <1>1, <1>3, <2>1
<1>5. /\ Turn(r) = Full /\ Full \in {4, 6} /\ Full' = Full /\ N(q)' = N(q) /\ Turn(q)' = Turn(q)
      /\ \A e \in Role, k \in Nat : OpAt(e, k)' = OpAt(e, k) /\ ArgAt(e, k)' = ArgAt(e, k)
                                    /\ SownAt(e, k)' = SownAt(e, k)
  <2>1. Turn(r) = Full /\ Full \in {4, 6}
    BY <1>1, <1>2, Limits, SizesHold DEF Turn, TypeOK
  <2>2. QED
    BY <1>1, <1>4, <2>1, Fixed DEF Turn, TurnAt, N
<1>6. ~busy[r] /\ wire[r] = <<>>
  BY <1>1, <1>2, <1>5 DEF IInv, Places, Words, Awaits, Talking
<1>7. Talking(q)' => Talking(q)
  BY <1>4 DEF Talking
<1>8. ~Talking(r)' /\ Talking(r)
  BY <1>1, <1>4 DEF Talking, Before
<1> HIDE DEF q
<1>9. TypeOK'
  BY <1>1, <1>4 DEF TypeOK
<1>10. Phases'
  BY <1>1 DEF IInv, Phases, TypeOK, Role
<1>11. Places'
  BY <1>1, <1>3, <1>4, <1>5, <1>6 DEF IInv, Places, Before, OpAt
<1>12. Flags' /\ Verdicts'
  BY <1>1, <1>3, <1>4 DEF IInv, Flags, Verdicts, Before, Covered
<1>13. Drops'
  <2>1. CASE r = "importer"
    BY <1>4, <2>1 DEF Drops
  <2>2. CASE r = "creator"
    <3>1. \A x : ToDrop(x)' <=> ToDrop(x)
      BY <1>1, <1>3, <1>4, <2>2 DEF ToDrop, OpAt, ArgAt, N
    <3>2. QED
      BY <1>1, <1>3, <1>4, <2>2, <3>1 DEF IInv, Drops
  <2>3. QED
    BY <2>1, <2>2 DEF Role
<1>14. Words'
  BY <1>1, <1>3, <1>5, <1>7, <1>8, Untold
<1>15. Buffer'
  BY <1>1, <1>3, <1>4, <1>5, <1>7, <1>8 DEF IInv, Buffer, Pattern, Unmoved, OpAt, SownAt
<1>16. LastWord'
  <2>1. CASE r = "importer"
    <3>1. GivenUp => GivenUp'
      BY <1>1, <1>8, <2>1 DEF GivenUp
    <3>2. CameThrough' => CameThrough
      BY <1>1, <1>3, <1>4, <2>1 DEF CameThrough, Talking
    <3>3. QED
      BY <1>1, <1>3, <1>5, <1>7, <2>1, <3>1, <3>2, LastWordStands
  <2>2. CASE r = "creator"
    <3>1. GivenUp
      BY <1>5, <1>8, <2>2 DEF IInv, LastWord, LastSpoken
    <3>2. content = LastSeed
      <4>1. MyTurn("creator", Turn("creator"))
        BY <1>5, <2>2, Alternation
      <4>2. content = SownAt("creator", at["creator"])
        BY <1>1, <1>2, <1>6, <1>8, <2>2, <4>1, Limits DEF IInv, Buffer, Pattern, Unmoved, Role
      <4>3. QED
        BY <1>1, <1>2, <2>2, <4>2, Limits
    <3>3. GivenUp'
      BY <1>1, <1>3, <1>4, <1>5, <2>2, <3>1 DEF GivenUp, Talking
    <3>4. QED
      BY <1>1, <1>6, <1>8, <2>2, <3>2, <3>3 DEF LastWord, LastSeed
  <2>3. QED
    BY <2>1, <2>2 DEF Role
<1>17. Ends'
  BY <1>1, <1>3, <1>4 DEF IInv, Ends
<1>18. Quiet'
  <2>1. ASSUME ~Talking("importer")', Talking("creator")', faults = 0 PROVE LastSpoken'
    <3>1. r = "importer" \/ ~Talking("importer")
      BY <1>3, <1>4, <2>1 DEF Role, Talking
    <3>2. LastSpoken
      <4>1. CASE r = "importer"
        <5>1. Turn("importer") = Full /\ wire["importer"] = <<>> /\ Talking("creator")
              /\ Talking("importer") /\ Words
          BY <1>3, <1>5, <1>6, <1>7, <1>8, <2>1, <4>1 DEF IInv
        <5>2. QED
          BY <5>1 DEF Words, LastSpoken
      <4>2. CASE r = "creator"
        BY <1>8, <2>1, <4>2
      <4>3. QED
        BY <4>1, <4>2 DEF Role
    <3>3. r = "importer"
      BY <1>8, <2>1 DEF Role
    <3>4. QED
      BY <1>1, <1>3, <1>5, <3>2, <3>3 DEF LastSpoken
  <2>2. QED
    BY <1>1, <2>1 DEF IInv, Quiet
<1> QED
  BY <1>9, <1>10, <1>11, <1>12, <1>13, <1>14, <1>15, <1>16, <1>17, <1>18 DEF IInv

(***************************************************************************)
(* A process that talks no more changes nothing of the conversation.       *)
(***************************************************************************)
LEMMA Silenced ==
  ASSUME IInv, NEW r \in Role, UNCHANGED <<probe, wire, content>>, ~Talking(r)',
         phase'[Peer(r)] = phase[Peer(r)], at'[Peer(r)] = at[Peer(r)],
         busy'[Peer(r)] = busy[Peer(r)], flag'[Peer(r)] = flag[Peer(r)],
         held'["importer"] \subseteq held["importer"],
         CameThrough' => CameThrough, faults # 0 => faults' # 0
  PROVE  Drops' /\ Words' /\ Buffer' /\ LastWord'
<1> DEFINE q == Peer(r)
<1>1. /\ q \in Role /\ q # r /\ Role = {r, q}
      /\ r = "creator" => q = "importer"
      /\ r = "importer" => q = "creator"
  BY Two
<1>2. /\ \A e \in Role, k \in Nat : OpAt(e, k)' = OpAt(e, k) /\ ArgAt(e, k)' = ArgAt(e, k)
                                    /\ SownAt(e, k)' = SownAt(e, k)
      /\ Turn(q)' = Turn(q) /\ N(q)' = N(q) /\ Full' = Full
      /\ Talking(q)' <=> Talking(q)
  BY Fixed DEF Turn, TurnAt, N, Talking
<1> HIDE DEF q
<1>3. phase'[q] = phase[q] /\ at'[q] = at[q] /\ busy'[q] = busy[q] /\ flag'[q] = flag[q]
  BY DEF q
<1>4. Drops'
  <2>1. CASE r = "importer"
    BY <2>1 DEF Drops, Talking
  <2>2. CASE r = "creator"
    <3>1. \A x : ToDrop(x)' <=> ToDrop(x)
      BY <1>1, <1>2, <1>3, <2>2 DEF ToDrop, OpAt, ArgAt, N
    <3>2. QED
      BY <1>1, <1>3, <2>2, <3>1 DEF IInv, Drops
  <2>3. QED
    BY <2>1, <2>2 DEF Role
<1>5. Words'
  BY <1>1, <1>2, Untold
<1>6. Buffer'
  BY <1>1, <1>2, <1>3 DEF IInv, Buffer, Pattern, Unmoved, OpAt, SownAt
<1>7. LastWord'
  <2>1. GivenUp => GivenUp'
    <3>1. CASE r = "importer"
      BY <3>1 DEF GivenUp
    <3>2. CASE r = "creator"
      BY <1>1, <1>2, <1>3, <3>2 DEF GivenUp
    <3>3. QED
      BY <3>1, <3>2 DEF Role
  <2>2. Talking("creator")' => Talking("creator") /\ Turn("creator")' = Turn("creator")
    BY <1>1, <1>2 DEF Role
  <2>3. QED
    BY <2>1, <2>2, LastWordStands
<1> QED
  BY <1>4, <1>5, <1>6, <1>7

LEMMA CoveredBy == \A p \in Probe : Len(Unwind[p]) \in 5 .. 10
<1>1. Len(Unwind["host_share"]) = 6
  BY DEF Unwind, Allocation
<1>2. Len(Unwind["device_share"]) = 10
  BY DEF Unwind, Allocation, HbmAllocation
<1>3. Len(Unwind["hal_map_host"]) = 5 /\ Len(Unwind["hal_map_device"]) = 5
  BY DEF Unwind, Allocation
<1> QED
  BY <1>1, <1>2, <1>3 DEF Probe

(***************************************************************************)
(* One entry of the destructors.                                           *)
(***************************************************************************)
LEMMA CleanUpKeeps == ASSUME IInv, NEW r \in Role, CleanUp(r) PROVE IInv'
<1> DEFINE q == Peer(r)
           x == Unwind[probe][at[r]]
<1>1. /\ TypeOK /\ phase[r] = "unwind" /\ at[r] \in 1 .. Len(Unwind[probe])
      /\ Len(Unwind[probe]) \in 5 .. 10 /\ at[r] \in 1 .. 10
      /\ at' = [at EXCEPT ![r] = @ + 1]
      /\ UNCHANGED <<probe, phase, exit, threw, busy, wire, content>>
  <2> DEFINE n == Len(Unwind[probe])
  <2>1. TypeOK /\ phase[r] = "unwind" /\ at[r] <= n /\ probe \in Probe
    BY DEF IInv, CleanUp, TypeOK
  <2>2. at[r] \in 1 .. 32
    BY <2>1 DEF TypeOK
  <2>3. n \in 5 .. 10
    BY <2>1, CoveredBy
  <2> HIDE DEF n
  <2>4. at[r] \in 1 .. n /\ at[r] \in 1 .. 10
    BY <2>1, <2>2, <2>3
  <2>5. /\ at' = [at EXCEPT ![r] = @ + 1]
        /\ UNCHANGED <<probe, phase, exit, threw, busy, wire, content>>
    BY DEF CleanUp, Advance
  <2>6. QED
    BY <2>1, <2>3, <2>4, <2>5 DEF n
<1>2. q \in Role /\ q # r /\ Role = {r, q}
  BY Two
<1>3. at'[r] = at[r] + 1 /\ at'[q] = at[q] /\ at' \in [Role -> 1 .. 32]
  <2>1. at \in [Role -> 1 .. 32]
    BY <1>1 DEF TypeOK
  <2>2. at[r] \in 1 .. 10 /\ at' = [at EXCEPT ![r] = @ + 1]
    BY <1>1
  <2>3. at[r] + 1 \in 1 .. 32
    BY <2>2
  <2>4. QED
    BY <1>2, <2>1, <2>2, <2>3
<1>4. /\ flag' = [flag EXCEPT ![r] = @ \ {x}]
      /\ held' \in [Role -> SUBSET Resource] /\ held'[q] = held[q]
      /\ \/ UNCHANGED <<failed, faults>> /\ held' = [held EXCEPT ![r] = @ \ {x}]
         \/ UNCHANGED <<failed, faults, held>> /\ x \notin flag[r]
         \/ /\ failed' = [failed EXCEPT ![r] = TRUE] /\ faults' \in 1 .. MaxFaults
            /\ UNCHANGED held
  <2>1. /\ flag \in [Role -> SUBSET Resource] /\ held \in [Role -> SUBSET Resource]
        /\ faults \in 0 .. MaxFaults
    BY <1>1 DEF TypeOK
  <2>2. flag[r] \subseteq held[r]
    BY DEF IInv, Flags
  <2>3. "channel" \notin Resource
    BY DEF Resource, Shared
  <2>4. CASE x = "channel" /\ UNCHANGED <<flag, held, failed, faults>>
    BY <1>2, <2>1, <2>3, <2>4
  <2>5. CASE x \notin flag[r] /\ UNCHANGED <<flag, held, failed, faults>>
    BY <1>2, <2>1, <2>5
  <2>6. CASE /\ x \in flag[r] /\ flag' = [flag EXCEPT ![r] = @ \ {x}]
             /\ held' = [held EXCEPT ![r] = @ \ {x}] /\ UNCHANGED <<failed, faults>>
    BY <1>2, <2>1, <2>6
  <2>7. CASE /\ x \in flag[r] /\ flag' = [flag EXCEPT ![r] = @ \ {x}]
             /\ failed' = [failed EXCEPT ![r] = TRUE] /\ Fault /\ UNCHANGED held
    <3>1. faults' \in 1 .. MaxFaults
      BY <2>1, <2>7, MaxFaultsAssumption DEF Fault
    <3>2. QED
      BY <1>2, <2>1, <2>7, <3>1
  <2>8. QED
    BY <2>2, <2>4, <2>5, <2>6, <2>7 DEF CleanUp
<1>5. ends' \in [Role -> SUBSET Role] /\ ends'[q] = ends[q]
  <2>1. ends \in [Role -> SUBSET Role]
    BY <1>1 DEF TypeOK
  <2>2. ends' = ends \/ ends' = [ends EXCEPT ![r] = @ \ {r}]
    BY DEF CleanUp
  <2>3. QED
    BY <1>2, <2>1, <2>2
<1>6. /\ flag' \in [Role -> SUBSET Resource] /\ flag'[q] = flag[q] /\ flag'[r] = flag[r] \ {x}
      /\ held'[r] \subseteq held[r]
  <2>1. flag \in [Role -> SUBSET Resource] /\ held \in [Role -> SUBSET Resource]
    BY <1>1 DEF TypeOK
  <2>2. QED
    BY <1>2, <1>4, <2>1
<1>7. /\ failed' \in [Role -> BOOLEAN] /\ failed'[q] = failed[q]
      /\ failed[r] => failed'[r]
      /\ failed'[r] => failed[r] \/ faults' # 0
      /\ ~failed'[r] => UNCHANGED faults
  <2>1. failed \in [Role -> BOOLEAN] /\ \A n \in 1 .. MaxFaults : n # 0
    BY <1>1, MaxFaultsAssumption DEF TypeOK
  <2>2. CASE UNCHANGED <<failed, faults>>
    BY <2>1, <2>2
  <2>3. CASE failed' = [failed EXCEPT ![r] = TRUE] /\ faults' \in 1 .. MaxFaults
    <3>1. failed' \in [Role -> BOOLEAN] /\ failed'[r] /\ failed'[q] = failed[q]
      BY <1>2, <2>1, <2>3, Boolean
    <3>2. QED
      BY <2>1, <2>3, <3>1
  <2>4. QED
    BY <1>4, <2>2, <2>3
<1> HIDE DEF q, x
<1>8. TypeOK'
  <2>1. faults' \in 0 .. MaxFaults
    BY <1>1, <1>4, MaxFaultsAssumption DEF TypeOK
  <2>2. QED
    BY <1>1, <1>3, <1>4, <1>5, <1>6, <1>7, <2>1 DEF TypeOK
<1>9. Phases'
  BY <1>1 DEF IInv, Phases
<1>10. Places'
  BY <1>1, <1>2, <1>3 DEF IInv, Places, Before, OpAt, N
<1>11. Flags'
  <2>1. \A k \in 1 .. at'[r] - 1 : Unwind[probe][k] \notin flag'[r]
    <3>1. \A k \in 1 .. at[r] - 1 : Unwind[probe][k] \notin flag[r]
      BY <1>1 DEF IInv, Flags
    <3>2. \A k \in 1 .. at'[r] - 1 : k \in 1 .. at[r] - 1 \/ k = at[r]
      BY <1>1, <1>3
    <3>3. QED
      BY <1>6, <3>1, <3>2 DEF x
  <2>2. ~failed'[r] => flag'[r] = held'[r]
    <3>1. SUFFICES ASSUME ~failed'[r] PROVE flag'[r] = held'[r]
      OBVIOUS
    <3>2. ~failed[r] /\ flag[r] = held[r]
      BY <1>7, <3>1 DEF IInv, Flags
    <3>3. held'[r] = held[r] \ {x}
      <4>1. held \in [Role -> SUBSET Resource] /\ failed \in [Role -> BOOLEAN]
        BY <1>1 DEF TypeOK
      <4>2. CASE held' = [held EXCEPT ![r] = @ \ {x}]
        BY <4>1, <4>2
      <4>3. CASE UNCHANGED held /\ x \notin flag[r]
        BY <3>2, <4>3
      <4>4. failed' # [failed EXCEPT ![r] = TRUE]
        BY <3>1, <4>1
      <4>5. QED
        BY <1>4, <4>2, <4>3, <4>4
    <3>4. QED
      BY <1>6, <3>2, <3>3
  <2>3. flag'[r] \subseteq held'[r]
    <3>1. flag[r] \subseteq held[r]
      BY DEF IInv, Flags
    <3>2. held \in [Role -> SUBSET Resource]
      BY <1>1 DEF TypeOK
    <3>3. QED
      BY <1>4, <1>6, <3>1, <3>2
  <2>4. QED
    <3>1. flag'[r] \subseteq Covered(probe)'
      BY <1>1, <1>6 DEF IInv, Flags, Covered
    <3>2. phase'[r] = "unwind"
      BY <1>1
    <3>3. Covered(probe)' = Covered(probe)
      BY <1>1 DEF Covered
    <3>4. /\ flag'[q] = flag[q] /\ held'[q] = held[q] /\ failed'[q] = failed[q] /\ at'[q] = at[q]
          /\ phase'[q] = phase[q] /\ probe' = probe
      BY <1>1, <1>3, <1>4, <1>6, <1>7
    <3>5. QED
      BY <1>2, <2>1, <2>2, <2>3, <3>1, <3>2, <3>3, <3>4 DEF IInv, Flags, Before
<1>12. Verdicts'
  BY <1>1, <1>2, <1>7 DEF IInv, Verdicts, Phases
<1>13. Drops' /\ Words' /\ Buffer' /\ LastWord'
  <2>1. ~Talking(r)' /\ (CameThrough' => CameThrough)
    BY <1>1 DEF Talking, CameThrough, Before
  <2>2. held'["importer"] \subseteq held["importer"]
    BY <1>2, <1>4, <1>6 DEF Role
  <2>3. faults # 0 => faults' # 0
    BY <1>4, MaxFaultsAssumption
  <2>4. QED
    BY <1>1, <1>3, <1>6, <2>1, <2>2, <2>3, Silenced DEF q
<1>14. Ends'
  BY <1>1, <1>2, <1>5 DEF IInv, Ends
<1>15. Quiet'
  <2>1. SUFFICES ASSUME faults' = 0 PROVE Quiet'
    BY DEF Quiet
  <2>2. faults = 0 /\ UNCHANGED failed
    BY <1>4, <2>1, MaxFaultsAssumption
  <2>3. LastSpoken /\ Talking("creator")' => LastSpoken'
    <3>1. Talking("creator")' => r # "creator"
      BY <1>1 DEF Talking, Before
    <3>2. r # "creator" => Turn("creator")' = Turn("creator")
      BY <1>1, <1>2, <1>3 DEF Turn, TurnAt, Role
    <3>3. Full' = Full
      BY <1>1, Fixed
    <3>4. QED
      BY <1>1, <3>1, <3>2, <3>3 DEF LastSpoken
  <2>4. QED
    BY <1>1, <2>2, <2>3 DEF IInv, Quiet, Talking
<1> QED
  BY <1>8, <1>9, <1>10, <1>11, <1>12, <1>13, <1>14, <1>15 DEF IInv

\* The destructors clear every flag.
LEMMA Emptied == ASSUME IInv, NEW r \in Role, Unwound(r) PROVE flag[r] = {}
<1> DEFINE n == Len(Unwind[probe])
<1>1. /\ flag[r] \subseteq {Unwind[probe][k] : k \in 1 .. n}
      /\ \A k \in 1 .. at[r] - 1 : Unwind[probe][k] \notin flag[r]
  BY DEF IInv, Flags, Covered, Unwound
<1>2. at[r] \in 1 .. 32 /\ n \in 5 .. 10 /\ at[r] > n
  BY CoveredBy DEF IInv, TypeOK, Unwound
<1> HIDE DEF n
<1>3. \A k \in 1 .. n : k \in 1 .. at[r] - 1
  BY <1>2
<1> QED
  BY <1>1, <1>3

(***************************************************************************)
(* The destructors are through: the creator waits, or a process ends.      *)
(***************************************************************************)
Passes(r) ==
  \/ r = "importer" /\ ImporterReturns
  \/ r = "creator" /\ (CreatorWaits \/ LauncherReturns)

LEMMA PassesKeeps == ASSUME IInv, NEW r \in Role, Passes(r) PROVE IInv'
<1> DEFINE q == Peer(r)
<1>1. /\ TypeOK /\ phase[r] \in {"unwind", "wait"}
      /\ UNCHANGED <<probe, at, failed, threw, busy, flag, held, wire, ends, content, faults>>
  BY DEF IInv, Passes, ImporterReturns, CreatorWaits, LauncherReturns, Unwound
<1>2. q \in Role /\ q # r /\ Role = {r, q}
  BY Two
<1>3. \/ /\ r = "creator" /\ phase' = [phase EXCEPT ![r] = "wait"] /\ UNCHANGED exit
      \/ /\ phase' = [phase EXCEPT ![r] = "gone"]
         /\ exit' = [exit EXCEPT ![r] = IF r = "creator" THEN CaseVerdict ELSE Verdict(r)]
         /\ r = "creator" => phase["importer"] = "gone"
  BY DEF Passes, ImporterReturns, CreatorWaits, LauncherReturns, End
<1>4. /\ phase' \in [Role -> {"unborn", "launch", "forked", "try", "unwind", "wait", "gone"}]
      /\ phase'[q] = phase[q]
      /\ \/ phase'[r] = "wait" /\ r = "creator" /\ exit'[r] = exit[r]
         \/ phase'[r] = "gone" /\ exit'[r] = (IF r = "creator" THEN CaseVerdict ELSE Verdict(r))
      /\ exit' \in [Role -> {"none", "pass", "fail", "launch_error", "killed"}]
      /\ exit'[q] = exit[q]
  <2>1. /\ phase \in [Role -> {"unborn", "launch", "forked", "try", "unwind", "wait", "gone"}]
        /\ exit \in [Role -> {"none", "pass", "fail", "launch_error", "killed"}]
    BY <1>1 DEF TypeOK
  <2>2. CaseVerdict \in {"pass", "fail"} /\ Verdict(r) \in {"pass", "fail"}
    BY DEF CaseVerdict, Verdict
  <2>3. CASE r = "creator" /\ phase' = [phase EXCEPT ![r] = "wait"] /\ UNCHANGED exit
    BY <1>2, <2>1, <2>3
  <2>4. CASE /\ phase' = [phase EXCEPT ![r] = "gone"]
             /\ exit' = [exit EXCEPT ![r] = IF r = "creator" THEN CaseVerdict ELSE Verdict(r)]
    <3> DEFINE v == IF r = "creator" THEN CaseVerdict ELSE Verdict(r)
    <3>1. v \in {"pass", "fail"} /\ exit' = [exit EXCEPT ![r] = v]
      BY <2>2, <2>4
    <3> HIDE DEF v
    <3>2. /\ exit' \in [Role -> {"none", "pass", "fail", "launch_error", "killed"}]
          /\ exit'[q] = exit[q] /\ exit'[r] = v
      BY <1>2, <2>1, <3>1
    <3>3. QED
      BY <1>2, <2>1, <2>4, <3>2 DEF v
  <2>5. QED
    BY <1>3, <2>3, <2>4
<1>5. flag[r] = {}
  <2>1. CASE phase[r] = "wait"
    BY <2>1 DEF IInv, Flags
  <2>2. CASE phase[r] = "unwind"
    <3>1. Unwound(r)
      BY <2>2 DEF Passes, ImporterReturns, CreatorWaits, LauncherReturns
    <3>2. QED
      BY <3>1, Emptied
  <2>3. QED
    BY <1>1, <2>1, <2>2
<1>6. exit[r] = "none"
  BY <1>1 DEF IInv, Phases
<1> HIDE DEF q
<1>7. TypeOK'
  BY <1>1, <1>4 DEF TypeOK
<1>8. Phases'
  <2>1. \A e \in Role : exit'[e] = "none" <=> phase'[e] # "gone"
    BY <1>1, <1>2, <1>4, <1>6 DEF IInv, Phases, CaseVerdict, Verdict
  <2>2. phase[r] \notin {"unborn", "forked", "launch"} /\ phase'[r] \notin {"unborn", "forked", "launch"}
    BY <1>1, <1>4
  <2>3. CASE r = "creator"
    BY <1>1, <1>2, <1>4, <2>1, <2>2, <2>3 DEF IInv, Phases, Role
  <2>4. CASE r = "importer"
    BY <1>1, <1>2, <1>4, <2>1, <2>2, <2>4 DEF IInv, Phases, Role
  <2>5. QED
    BY <2>3, <2>4 DEF Role
<1>9. Places'
  <2>1. phase'[r] = "wait" => at[r] <= Len(Unwind[probe]) + 1
    BY <1>1 DEF IInv, Places
  <2>2. ~busy[r]
    BY <1>1 DEF IInv, Places
  <2>3. QED
    BY <1>1, <1>2, <1>4, <2>1, <2>2 DEF IInv, Places, Before, OpAt, N
<1>10. Flags'
  BY <1>1, <1>2, <1>4, <1>5 DEF IInv, Flags, Before, Covered
<1>11. Verdicts'
  <2>1. exit'[r] = "pass" => ~failed[r]
    BY <1>4, <1>6 DEF CaseVerdict, Verdict, Role
  <2>2. r = "creator" /\ exit'[r] = "pass" => exit["importer"] = "pass"
    BY <1>4, <1>6 DEF CaseVerdict
  <2>3. r = "importer" => exit["creator"] # "pass"
    BY <1>6 DEF IInv, Verdicts
  <2>4. QED
    BY <1>1, <1>2, <1>4, <2>1, <2>2, <2>3 DEF IInv, Verdicts, Role
<1>12. Drops' /\ Words' /\ Buffer' /\ LastWord'
  <2>1. ~Talking(r)' /\ ~Talking(r)
    BY <1>1, <1>4 DEF Talking, Before
  <2>2. CameThrough' => CameThrough
    <3>1. CASE r = "creator"
      BY <1>1, <1>6, <2>1, <3>1 DEF CameThrough
    <3>2. CASE r = "importer"
      BY <1>1, <1>2, <1>4, <3>2 DEF CameThrough, Talking, Role
    <3>3. QED
      BY <3>1, <3>2 DEF Role
  <2>3. QED
    BY <1>1, <1>4, <2>1, <2>2, Silenced DEF q
<1>13. Ends'
  BY <1>1, <1>2, <1>4 DEF IInv, Ends
<1>14. Quiet'
  <2>1. SUFFICES ASSUME faults = 0 PROVE Quiet'
    BY <1>1 DEF Quiet
  <2>2. \A e \in Role : ~threw[e] /\ ~failed[e] /\ exit[e] \in {"none", "pass"}
    BY <2>1 DEF IInv, Quiet
  <2>3. exit'[r] \in {"none", "pass"}
    <3>1. CASE phase'[r] = "gone" /\ r = "creator"
      <4>1. phase["importer"] = "gone" /\ exit["importer"] = "pass" /\ ~failed["creator"]
        BY <1>3, <2>2, <3>1, <1>4 DEF IInv, Phases, Role
      <4>2. QED
        BY <1>4, <3>1, <4>1 DEF CaseVerdict
    <3>2. CASE phase'[r] = "gone" /\ r # "creator"
      BY <1>4, <2>2, <3>2 DEF Verdict
    <3>3. CASE phase'[r] # "gone"
      BY <1>4, <1>6, <3>3
    <3>4. QED
      BY <3>1, <3>2, <3>3
  <2>4. /\ Talking("importer")' <=> Talking("importer")
        /\ Talking("creator")' <=> Talking("creator")
    BY <1>1, <1>2, <1>4 DEF Talking, Before, Role
  <2>5. LastSpoken' <=> LastSpoken
    BY <1>1, Fixed DEF LastSpoken, Turn, TurnAt
  <2>6. QED
    BY <1>1, <1>2, <1>4, <2>1, <2>2, <2>3, <2>4, <2>5 DEF IInv, Quiet
<1> QED
  BY <1>7, <1>8, <1>9, <1>10, <1>11, <1>12, <1>13, <1>14 DEF IInv

(***************************************************************************)
(* A process is killed: nothing of it is left but its words.               *)
(***************************************************************************)
LEMMA DieKeeps == ASSUME IInv, NEW r \in Role, Die(r) PROVE IInv'
<1> DEFINE q == Peer(r)
<1>1. /\ TypeOK /\ phase[r] \notin {"unborn", "gone"}
      /\ UNCHANGED <<probe, at, failed, threw, wire, content>>
  BY DEF IInv, Die
<1>2. q \in Role /\ q # r /\ Role = {r, q}
  BY Two
<1>3. /\ phase' \in [Role -> {"unborn", "launch", "forked", "try", "unwind", "wait", "gone"}]
      /\ phase'[q] = phase[q] /\ phase'[r] = "gone"
      /\ exit' \in [Role -> {"none", "pass", "fail", "launch_error", "killed"}]
      /\ exit'[q] = exit[q] /\ exit'[r] = "killed"
  <2>1. /\ phase \in [Role -> {"unborn", "launch", "forked", "try", "unwind", "wait", "gone"}]
        /\ exit \in [Role -> {"none", "pass", "fail", "launch_error", "killed"}]
    BY <1>1 DEF TypeOK
  <2>2. QED
    BY <1>2, <2>1 DEF Die, End
<1>4. busy' \in [Role -> BOOLEAN] /\ busy'[r] = FALSE /\ busy'[q] = busy[q]
  BY <1>1, <1>2, Boolean DEF TypeOK, Die
<1>5. /\ held' \in [Role -> SUBSET Resource] /\ held'[r] = {} /\ held'[q] = held[q]
      /\ flag' \in [Role -> SUBSET Resource] /\ flag'[r] = {} /\ flag'[q] = flag[q]
  <2>1. flag \in [Role -> SUBSET Resource] /\ held \in [Role -> SUBSET Resource]
    BY <1>1 DEF TypeOK
  <2>2. QED
    BY <1>2, <2>1 DEF Die
<1>6. ends' \in [Role -> SUBSET Role] /\ ends'[q] = ends[q] \ {r}
  <2>1. ends \in [Role -> SUBSET Role]
    BY <1>1 DEF TypeOK
  <2>2. QED
    BY <1>2, <2>1 DEF Die
<1>7. faults' \in 1 .. MaxFaults
  <2>1. faults \in 0 .. MaxFaults
    BY <1>1 DEF TypeOK
  <2>2. QED
    BY <2>1, MaxFaultsAssumption DEF Die, Fault
<1> HIDE DEF q
<1>8. TypeOK'
  <2>1. faults' \in 0 .. MaxFaults
    BY <1>7, MaxFaultsAssumption
  <2>2. QED
    BY <1>1, <1>3, <1>4, <1>5, <1>6, <2>1 DEF TypeOK
<1>9. Phases'
  <2>1. \A e \in Role : exit'[e] = "none" <=> phase'[e] # "gone"
    BY <1>1, <1>2, <1>3 DEF IInv, Phases
  <2>2. CASE r = "creator"
    BY <1>1, <1>2, <1>3, <2>1, <2>2 DEF IInv, Phases, Role
  <2>3. CASE r = "importer"
    BY <1>1, <1>2, <1>3, <2>1, <2>3 DEF IInv, Phases, Role
  <2>4. QED
    BY <2>2, <2>3 DEF Role
<1>10. Places'
  BY <1>1, <1>2, <1>3, <1>4 DEF IInv, Places, Before, OpAt, N
<1>11. Flags'
  <2>1. flag'[r] \subseteq Covered(probe)'
    BY <1>5
  <2>2. Covered(probe)' = Covered(probe)
    BY <1>1 DEF Covered
  <2>3. QED
    BY <1>1, <1>2, <1>3, <1>5, <2>1, <2>2 DEF IInv, Flags, Before
<1>12. Verdicts'
  <2>1. exit[r] # "pass"
    BY <1>1 DEF IInv, Phases
  <2>2. r = "importer" => exit["creator"] # "pass"
    BY <2>1 DEF IInv, Verdicts
  <2>3. QED
    BY <1>1, <1>2, <1>3, <2>1, <2>2 DEF IInv, Verdicts, Role
<1>13. Drops' /\ Words' /\ Buffer' /\ LastWord'
  <2>1. ~Talking(r)'
    BY <1>3 DEF Talking, Before
  <2>2. CameThrough' => CameThrough
    <3>1. CASE r = "creator"
      BY <1>3, <3>1 DEF CameThrough
    <3>2. CASE r = "importer"
      BY <1>1, <1>2, <1>3, <3>2 DEF CameThrough, Talking, Role
    <3>3. QED
      BY <3>1, <3>2 DEF Role
  <2>3. held'["importer"] \subseteq held["importer"]
    BY <1>2, <1>5 DEF Role
  <2>4. faults' # 0
    BY <1>7, MaxFaultsAssumption
  <2>5. QED
    BY <1>1, <1>3, <1>4, <1>5, <2>1, <2>2, <2>3, <2>4, Silenced DEF q
<1>14. Ends'
  BY <1>2, <1>3, <1>6 DEF IInv, Ends
<1>15. Quiet'
  BY <1>7 DEF Quiet
<1> QED
  BY <1>8, <1>9, <1>10, <1>11, <1>12, <1>13, <1>14, <1>15 DEF IInv

(***************************************************************************)
(* The launch: a process comes nearer to its try block, or is not started. *)
(***************************************************************************)
LEMMA Underway ==
  ASSUME IInv, UNCHANGED <<probe, at, failed, exit, threw, busy, flag, held, wire, content, faults>>,
         phase' \in [Role -> {"unborn", "launch", "forked", "try", "unwind", "wait", "gone"}],
         ends' \in [Role -> SUBSET Role],
         \A e \in Role : \/ phase'[e] = phase[e]
                         \/ phase[e] \in Before /\ phase'[e] \in {"launch", "forked", "try"}
  PROVE  /\ TypeOK' /\ Places' /\ Flags' /\ Drops' /\ Verdicts' /\ Words' /\ Buffer'
         /\ LastWord' /\ Quiet'
<1>1. /\ \A e \in Role : Turn(e)' = Turn(e) /\ N(e)' = N(e) /\ (Talking(e)' <=> Talking(e))
      /\ \A e \in Role, k \in Nat : /\ OpAt(e, k)' = OpAt(e, k) /\ ArgAt(e, k)' = ArgAt(e, k)
                                    /\ SownAt(e, k)' = SownAt(e, k)
  BY Fixed DEF Turn, TurnAt, N, Talking, Before
<1>2. TypeOK'
  BY DEF IInv, TypeOK
<1>3. \A e \in Role : N(e) \in 11 .. 20 /\ (phase[e] \in Before => held[e] = {} /\ flag[e] = {})
  BY SizesHold DEF IInv, TypeOK, Sizes, Flags
<1>4. Places'
  <2>1. \A e \in Role : phase[e] \in Before => ~busy[e] /\ at[e] = 1
    BY DEF IInv, Places, Before
  <2>2. QED
    BY <1>1, <1>3, <2>1 DEF IInv, Places, Before, OpAt
<1>5. Flags'
  <2>1. Covered(probe)' = Covered(probe)
    BY DEF Covered
  <2>2. SUFFICES ASSUME NEW e \in Role
        PROVE  /\ phase'[e] \in Before => held[e] = {}
               /\ phase'[e] = "try" \/ ~failed[e] => flag[e] = held[e]
               /\ phase'[e] = "unwind" => \A k \in 1 .. at[e] - 1 : Unwind[probe][k] \notin flag[e]
               /\ phase'[e] \in {"wait", "gone"} => flag[e] = {}
    BY <2>1 DEF IInv, Flags
  <2>3. CASE phase'[e] = phase[e]
    BY <2>3 DEF IInv, Flags
  <2>4. CASE phase[e] \in Before
    BY <1>3, <2>4
  <2>5. QED
    BY <2>3, <2>4
<1>6. Drops'
  <2>1. \A x : ToDrop(x)' <=> ToDrop(x)
    BY DEF ToDrop, OpAt, ArgAt, N
  <2>2. QED
    BY <1>3, <2>1 DEF IInv, Drops, Before, Role
<1>7. Verdicts'
  BY DEF IInv, Verdicts
<1>8. Words'
  BY <1>1, Untold
<1>9. Buffer'
  BY <1>1 DEF IInv, Buffer, Pattern, Unmoved, OpAt, SownAt
<1>10. LastWord'
  <2>1. GivenUp => GivenUp'
    BY <1>1 DEF GivenUp, Before, Role
  <2>2. CameThrough' => CameThrough
    BY <1>1 DEF CameThrough, Role
  <2>3. QED
    BY <1>1, <2>1, <2>2, LastWordStands DEF Role
<1>11. Quiet'
  <2>1. LastSpoken' <=> LastSpoken
    BY <1>1, Fixed DEF LastSpoken, Role
  <2>2. QED
    BY <1>1, <2>1 DEF IInv, Quiet, Role
<1> QED
  BY <1>2, <1>4, <1>5, <1>6, <1>7, <1>8, <1>9, <1>10, <1>11

\* A launch that fails: the process ends before it has anything.
NotStarted(r, how) ==
  /\ phase[r] = "launch" /\ End(r, how) /\ Fault /\ how \in {"fail", "launch_error"}
  /\ ends' \in [Role -> SUBSET Role] /\ \A e \in Role : ends[e] \ {r} \subseteq ends'[e]
  /\ UNCHANGED <<probe, at, failed, threw, busy, flag, held, wire, content>>

LEMMA NotStartedKeeps ==
  ASSUME IInv, NEW r \in Role, NEW how, NotStarted(r, how),
         r = "importer" \/ how # "fail"
  PROVE  IInv'
<1> DEFINE q == Peer(r)
<1>1. TypeOK /\ phase[r] = "launch"
      /\ UNCHANGED <<probe, at, failed, threw, busy, flag, held, wire, content>>
  BY DEF IInv, NotStarted
<1>2. q \in Role /\ q # r /\ Role = {r, q}
  BY Two
<1>3. /\ phase' \in [Role -> {"unborn", "launch", "forked", "try", "unwind", "wait", "gone"}]
      /\ phase'[q] = phase[q] /\ phase'[r] = "gone"
      /\ exit' \in [Role -> {"none", "pass", "fail", "launch_error", "killed"}]
      /\ exit'[q] = exit[q] /\ exit'[r] = how /\ how \notin {"none", "pass"}
  <2>1. /\ phase \in [Role -> {"unborn", "launch", "forked", "try", "unwind", "wait", "gone"}]
        /\ exit \in [Role -> {"none", "pass", "fail", "launch_error", "killed"}]
    BY <1>1 DEF TypeOK
  <2>2. QED
    BY <1>2, <2>1 DEF NotStarted, End
<1>4. faults' \in 1 .. MaxFaults
  <2>1. faults \in 0 .. MaxFaults
    BY <1>1 DEF TypeOK
  <2>2. QED
    BY <2>1, MaxFaultsAssumption DEF NotStarted, Fault
<1>5. ~busy[r] /\ held[r] = {} /\ flag[r] = {}
  BY <1>1 DEF IInv, Places, Flags, Before
<1> HIDE DEF q
<1>6. TypeOK'
  <2>1. faults' \in 0 .. MaxFaults
    BY <1>4, MaxFaultsAssumption
  <2>2. QED
    BY <1>1, <1>3, <2>1 DEF TypeOK, NotStarted
<1>7. Phases'
  <2>1. \A e \in Role : exit'[e] = "none" <=> phase'[e] # "gone"
    BY <1>1, <1>2, <1>3 DEF IInv, Phases
  <2>2. CASE r = "creator"
    BY <1>1, <1>2, <1>3, <2>1, <2>2 DEF IInv, Phases, Role
  <2>3. CASE r = "importer"
    BY <1>1, <1>2, <1>3, <2>1, <2>3 DEF IInv, Phases, Role
  <2>4. QED
    BY <2>2, <2>3 DEF Role
<1>8. Places'
  BY <1>1, <1>2, <1>3, <1>5 DEF IInv, Places, Before, OpAt, N
<1>9. Flags'
  BY <1>1, <1>2, <1>3, <1>5 DEF IInv, Flags, Before, Covered
<1>10. Verdicts'
  <2>1. exit[r] # "pass"
    BY <1>1 DEF IInv, Phases
  <2>2. r = "importer" => exit["creator"] # "pass"
    BY <2>1 DEF IInv, Verdicts
  <2>3. QED
    BY <1>1, <1>2, <1>3, <2>1, <2>2 DEF IInv, Verdicts, Role
<1>11. Drops' /\ Words' /\ Buffer' /\ LastWord'
  <2>1. ~Talking(r)'
    BY <1>3 DEF Talking, Before
  <2>2. CameThrough' => CameThrough
    <3>1. CASE r = "creator"
      <4>1. exit'["creator"] = "launch_error"
        BY <1>3, <3>1 DEF NotStarted
      <4>2. QED
        BY <4>1 DEF CameThrough
    <3>2. CASE r = "importer"
      BY <1>1, <1>2, <1>3, <3>2 DEF CameThrough, Talking, Role
    <3>3. QED
      BY <3>1, <3>2 DEF Role
  <2>3. faults' # 0
    BY <1>4, MaxFaultsAssumption
  <2>4. QED
    BY <1>1, <1>3, <2>1, <2>2, <2>3, Silenced DEF q
<1>12. Ends'
  BY <1>2, <1>3 DEF IInv, Ends, NotStarted
<1>13. Quiet'
  BY <1>4 DEF Quiet
<1> QED
  BY <1>6, <1>7, <1>8, <1>9, <1>10, <1>11, <1>12, <1>13 DEF IInv

LEMMA ForkKeeps == ASSUME IInv, Fork PROVE IInv'
<1>1. /\ TypeOK /\ phase["creator"] = "launch" /\ phase["importer"] = "unborn"
      /\ UNCHANGED <<probe, at, failed, threw, busy, flag, held, wire, content>>
  BY DEF IInv, Phases, Fork
<1>2. CASE /\ phase' = [phase EXCEPT !["creator"] = "forked", !["importer"] = "launch"]
           /\ ends' = [r \in Role |-> Role]
           /\ UNCHANGED <<exit, faults>>
  <2>1. /\ phase' \in [Role -> {"unborn", "launch", "forked", "try", "unwind", "wait", "gone"}]
        /\ phase'["creator"] = "forked" /\ phase'["importer"] = "launch"
        /\ ends' \in [Role -> SUBSET Role] /\ \A e \in Role : e \in ends'[e]
    BY <1>1, <1>2 DEF TypeOK, Role
  <2>2. /\ TypeOK' /\ Places' /\ Flags' /\ Drops' /\ Verdicts' /\ Words' /\ Buffer'
        /\ LastWord' /\ Quiet'
    BY <1>1, <1>2, <2>1, Underway DEF Before, Role
  <2>3. Phases'
    BY <1>1, <1>2, <2>1 DEF IInv, Phases, Role
  <2>4. Ends'
    BY <2>1 DEF Ends
  <2>5. QED
    BY <2>2, <2>3, <2>4 DEF IInv
<1>3. CASE End("creator", "launch_error") /\ Fault /\ UNCHANGED ends
  <2>1. NotStarted("creator", "launch_error")
    BY <1>1, <1>3 DEF NotStarted, TypeOK
  <2>2. QED
    BY <2>1, NotStartedKeeps DEF Role
<1> QED
  BY <1>2, <1>3 DEF Fork

LEMMA CloseKeeps == ASSUME IInv, CloseImporterEnd PROVE IInv'
<1>1. /\ TypeOK /\ phase["creator"] = "forked"
      /\ phase' = [phase EXCEPT !["creator"] = "try"]
      /\ ends' = [ends EXCEPT !["importer"] = @ \ {"creator"}]
      /\ UNCHANGED <<probe, at, failed, exit, threw, busy, flag, held, wire, content, faults>>
  BY DEF IInv, CloseImporterEnd
<1>2. /\ phase' \in [Role -> {"unborn", "launch", "forked", "try", "unwind", "wait", "gone"}]
      /\ phase'["creator"] = "try" /\ phase'["importer"] = phase["importer"]
  <2>1. phase \in [Role -> {"unborn", "launch", "forked", "try", "unwind", "wait", "gone"}]
    BY <1>1 DEF TypeOK
  <2>2. QED
    BY <1>1, <2>1 DEF Role
<1>3. ends' \in [Role -> SUBSET Role] /\ \A e \in Role : e \in ends[e] => e \in ends'[e]
  <2>1. ends \in [Role -> SUBSET Role]
    BY <1>1 DEF TypeOK
  <2>2. QED
    BY <1>1, <2>1 DEF Role
<1>4. /\ TypeOK' /\ Places' /\ Flags' /\ Drops' /\ Verdicts' /\ Words' /\ Buffer'
      /\ LastWord' /\ Quiet'
  BY <1>1, <1>2, <1>3, Underway DEF Before, Role
<1>5. Phases'
  BY <1>1, <1>2 DEF IInv, Phases, Role
<1>6. Ends'
  BY <1>1, <1>2, <1>3 DEF IInv, Ends, Role
<1> QED
  BY <1>4, <1>5, <1>6 DEF IInv

LEMMA ExecKeeps == ASSUME IInv, Exec PROVE IInv'
<1>1. /\ TypeOK /\ phase["importer"] = "launch"
      /\ UNCHANGED <<probe, at, failed, threw, busy, flag, held, wire, content>>
  BY DEF IInv, Exec
<1>2. ends \in [Role -> SUBSET Role]
  BY <1>1 DEF TypeOK
<1>3. CASE /\ phase' = [phase EXCEPT !["importer"] = "try"]
           /\ ends' = [ends EXCEPT !["creator"] = @ \ {"importer"}]
           /\ UNCHANGED <<exit, faults>>
  <2>1. /\ phase' \in [Role -> {"unborn", "launch", "forked", "try", "unwind", "wait", "gone"}]
        /\ phase'["importer"] = "try" /\ phase'["creator"] = phase["creator"]
    <3>1. phase \in [Role -> {"unborn", "launch", "forked", "try", "unwind", "wait", "gone"}]
      BY <1>1 DEF TypeOK
    <3>2. QED
      BY <1>3, <3>1 DEF Role
  <2>2. ends' \in [Role -> SUBSET Role] /\ \A e \in Role : e \in ends[e] => e \in ends'[e]
    BY <1>2, <1>3 DEF Role
  <2>3. /\ TypeOK' /\ Places' /\ Flags' /\ Drops' /\ Verdicts' /\ Words' /\ Buffer'
        /\ LastWord' /\ Quiet'
    BY <1>1, <1>3, <2>1, <2>2, Underway DEF Before, Role
  <2>4. Phases'
    BY <1>1, <1>3, <2>1 DEF IInv, Phases, Role
  <2>5. Ends'
    BY <1>1, <1>3, <2>1, <2>2 DEF IInv, Ends, Role
  <2>6. QED
    BY <2>3, <2>4, <2>5 DEF IInv
<1>4. CASE /\ End("importer", "fail") /\ Fault
           /\ ends' = [r \in Role |-> ends[r] \ {"importer"}]
  <2>1. NotStarted("importer", "fail")
    BY <1>1, <1>2, <1>4 DEF NotStarted
  <2>2. QED
    BY <2>1, NotStartedKeeps DEF Role
<1> QED
  BY <1>3, <1>4 DEF Exec

(***************************************************************************)
(* Every step of the script is one of those above: what could surprise a   *)
(* process, a word or a pattern not its own or an end of the conversation  *)
(* that nothing explains, does not happen.                                 *)
(***************************************************************************)
LEMMA Counted == ASSUME TypeOK, Fault PROVE faults' \in 1 .. MaxFaults
BY MaxFaultsAssumption DEF TypeOK, Fault

LEMMA Idle ==
  ASSUME IInv, NEW r \in Role, In(r), Op(r) \notin Accesses
  PROVE  [busy EXCEPT ![r] = FALSE] = busy
<1>1. busy \in [Role -> BOOLEAN] /\ Op(r) = OpAt(r, at[r])
  BY Entry DEF IInv, TypeOK
<1>2. busy[r] = FALSE
  BY <1>1 DEF IInv, Places
<1> QED
  BY <1>1, <1>2

\* A read finds the pattern it looks for, unless something has gone wrong.
LEMMA Found ==
  ASSUME IInv, NEW r \in Role, In(r), busy[r], Op(r) \in Reading
  PROVE  content = Arg(r) \/ faults # 0
<1>1. /\ TypeOK /\ at[r] \in 1 .. N(r) /\ Op(r) = OpAt(r, at[r]) /\ Arg(r) = SownAt(r, at[r])
      /\ phase[r] = "try"
  BY Entry DEF IInv, In
<1>2. OpAt(r, at[r]) \in Accesses /\ OpAt(r, at[r]) \notin Writing
  BY <1>1 DEF Accesses, Reading, Writing
<1>3. MyTurn(r, Turn(r))
  BY <1>1, <1>2, Silent DEF Turn
<1> QED
  BY <1>1, <1>2, <1>3 DEF IInv, Buffer, Pattern, Unmoved, Talking

\* A peer is gone from an unfinished conversation only after something went wrong.
LEMMA Deserted ==
  ASSUME IInv, NEW r \in Role, In(r), Op(r) \in {"send"} \cup Hearing,
         wire[r] = <<>>, ends[Peer(r)] = {}
  PROVE  faults \in 1 .. MaxFaults
<1>1. /\ TypeOK /\ at[r] \in 1 .. N(r) /\ Op(r) = OpAt(r, at[r]) /\ phase[r] = "try"
      /\ N(r) \in 11 .. 20
  BY Entry DEF IInv, In
<1>2. SUFFICES ASSUME faults = 0 PROVE FALSE
  BY <1>1, MaxFaultsAssumption DEF TypeOK
<1>3. CASE r = "creator"
  <2>1. phase["importer"] \notin {"unborn", "launch", "forked", "try"}
    BY <1>1, <1>3 DEF IInv, Phases, Ends, Peer, Role
  <2>2. LastSpoken
    BY <1>1, <1>2, <1>3, <2>1 DEF IInv, Quiet, Talking, Before
  <2>3. Turn(r) = Full
    BY <1>3, <2>2 DEF LastSpoken
  <2>4. Turn(r) + 1 \in 0 .. Full /\ Full \in {4, 6}
    <3>1. TurnAt(r, at[r] + 1) = Turn(r) + 1
      BY <1>1, Speaking, Listening DEF Turn
    <3>2. TurnAt(r, at[r] + 1) \in 0 .. Full
      BY <1>1, Turns
    <3>3. QED
      BY <1>1, <3>1, <3>2, SizesHold DEF TypeOK
  <2>5. QED
    BY <2>3, <2>4
<1>4. CASE r = "importer"
  <2>1. phase["creator"] \notin {"unborn", "launch", "forked", "try"}
    BY <1>1, <1>4 DEF IInv, Phases, Ends, Peer, Role
  <2>2. CameThrough
    BY <1>2, <2>1 DEF IInv, Quiet, CameThrough, Talking, Before, Role
  <2>3. QED
    BY <2>2, NotThrough
<1> QED
  BY <1>3, <1>4 DEF Role

LEMMA CallKeeps ==
  ASSUME IInv, NEW r \in Role, Acquire(r) \/ Release(r) \/ CheckedCall(r)
  PROVE  IInv'
<1>1. /\ In(r) /\ Op(r) \in {"take", "drop", "call"} /\ TypeOK
      /\ UNCHANGED <<probe, exit, busy, wire, ends, content>>
  BY DEF IInv, Acquire, Release, CheckedCall
<1>2. CASE Throw(r)
  <2>1. Fault /\ UNCHANGED <<held, flag>>
    BY <1>1, <1>2 DEF Acquire, Release, CheckedCall, Throw, Advance, In, TypeOK
  <2>2. Op(r) \notin Accesses
    BY <1>1 DEF Accesses, Writing, Reading
  <2>3. Thrown(r)
    BY <1>1, <1>2, <2>1, <2>2, Counted, Idle DEF Thrown
  <2>4. QED
    BY <2>3, ThrownKeeps
<1>3. CASE ~Throw(r)
  <2>1. Plain(r)
    BY <1>1, <1>3 DEF Acquire, Release, CheckedCall, Cleared, Plain
  <2>2. QED
    BY <2>1, PlainKeeps
<1> QED
  BY <1>2, <1>3

LEMMA EndKeeps ==
  ASSUME IInv, NEW r \in Role, EndWrite(r) \/ EndRead(r)
  PROVE  IInv'
<1>1. /\ In(r) /\ busy[r] /\ Op(r) \in Accesses /\ TypeOK /\ busy' = [busy EXCEPT ![r] = FALSE]
      /\ UNCHANGED <<probe, exit, flag, held, wire, ends>>
  BY DEF IInv, EndWrite, EndRead, Accesses
<1>2. Op(r) \in Reading => (content = Arg(r) \/ faults # 0) /\ Op(r) \notin Writing
  BY <1>1, Found DEF Reading, Writing
<1>3. CASE Throw(r)
  <2>1. ~Advance(r)
    <3>1. phase[r] = "try" /\ phase \in [Role -> {"unborn", "launch", "forked", "try", "unwind", "wait", "gone"}]
      BY <1>1 DEF In, TypeOK
    <3>2. QED
      BY <1>3, <3>1 DEF Throw, Advance
  <2>2. (Fault \/ (UNCHANGED faults /\ faults # 0)) /\ UNCHANGED content
    BY <1>1, <1>2, <2>1 DEF EndWrite, EndRead
  <2>3. faults' \in 1 .. MaxFaults
    BY <1>1, <2>2, Counted, MaxFaultsAssumption DEF TypeOK
  <2>4. QED
    BY <1>1, <1>3, <2>2, <2>3, ThrownKeeps DEF Thrown
<1>4. CASE ~Throw(r)
  <2>1. Accessed(r)
    <3>1. CASE EndWrite(r)
      BY <1>1, <1>2, <1>4, <3>1, Counted DEF EndWrite, Accessed
    <3>2. CASE EndRead(r)
      BY <1>1, <1>2, <1>4, <3>2 DEF EndRead, Accessed
    <3>3. QED
      BY <3>1, <3>2
  <2>2. QED
    BY <2>1, AccessedKeeps
<1> QED
  BY <1>3, <1>4

LEMMA SpeakKeeps == ASSUME IInv, NEW r \in Role, SendWord(r) PROVE IInv'
<1>1. In(r) /\ Op(r) = "send" /\ TypeOK /\ UNCHANGED <<probe, exit, busy, flag, held, ends, content, faults>>
  BY DEF IInv, SendWord
<1>2. CASE ends[Peer(r)] = {}
  <2>1. Throw(r) /\ UNCHANGED wire
    BY <1>2 DEF SendWord
  <2>2. wire[r] = <<>>
    <3>1. at[r] \in 1 .. N(r) /\ OpAt(r, at[r]) = "send"
      BY <1>1, Entry
    <3>2. MyTurn(r, Turn(r))
      BY <1>1, <3>1, Speaking DEF Turn
    <3>3. QED
      BY <1>1, <3>2, Alone
  <2>3. faults' \in 1 .. MaxFaults
    BY <1>1, <1>2, <2>2, Deserted
  <2>4. busy' = [busy EXCEPT ![r] = FALSE]
    BY <1>1, Idle DEF Accesses, Writing, Reading
  <2>5. QED
    BY <1>1, <2>1, <2>3, <2>4, ThrownKeeps DEF Thrown
<1>3. CASE ends[Peer(r)] # {}
  <2>1. Sent(r)
    BY <1>1, <1>3 DEF SendWord, Sent
  <2>2. QED
    BY <2>1, SentKeeps
<1> QED
  BY <1>2, <1>3

LEMMA ReceiveKeeps ==
  ASSUME IInv, NEW r \in Role, ReceiveWord(r) \/ ReceiveTimeout(r)
  PROVE  IInv'
<1>1. In(r) /\ Op(r) \in Hearing /\ TypeOK /\ UNCHANGED <<probe, exit, busy, flag, held, ends, content>>
  BY DEF IInv, ReceiveWord, ReceiveTimeout, Hearing
<1>2. busy' = [busy EXCEPT ![r] = FALSE]
  BY <1>1, Idle DEF Accesses, Writing, Reading, Hearing
<1>3. CASE ReceiveTimeout(r)
  BY <1>1, <1>2, <1>3, Counted, ThrownKeeps DEF ReceiveTimeout, Thrown
<1>4. CASE ReceiveWord(r) /\ wire[r] = <<>>
  <2>1. ends[Peer(r)] = {} /\ Throw(r) /\ UNCHANGED <<wire, faults>>
    BY <1>4 DEF ReceiveWord
  <2>2. faults' \in 1 .. MaxFaults
    BY <1>1, <1>4, <2>1, Deserted
  <2>3. QED
    BY <1>1, <1>2, <2>1, <2>2, ThrownKeeps DEF Thrown
<1>5. CASE ReceiveWord(r) /\ wire[r] # <<>>
  <2>1. Op(r) = "expect" => Head(wire[r]) = Arg(r)
    BY <1>1, <1>5, Due
  <2>2. Heard(r)
    BY <1>1, <1>5, <2>1 DEF ReceiveWord, Heard
  <2>3. QED
    BY <2>2, HeardKeeps
<1> QED
  BY <1>3, <1>4, <1>5

LEMMA StepKeeps == ASSUME IInv, NEW r \in Role, Step(r) PROVE IInv'
BY CallKeeps, BeginKeeps, EndKeeps, SpeakKeeps, ReceiveKeeps, LeaveKeeps, CleanUpKeeps DEF Step

LEMMA StutterKeeps == ASSUME IInv, UNCHANGED vars PROVE IInv'
<1>1. UNCHANGED <<probe, phase, at, failed, exit, threw, busy, flag, held, wire, ends, content, faults>>
  BY DEF vars, process
<1>2. \A e \in Role : phase'[e] = phase[e]
  BY <1>1
<1>3. /\ TypeOK' /\ Places' /\ Flags' /\ Drops' /\ Verdicts' /\ Words' /\ Buffer'
      /\ LastWord' /\ Quiet'
  BY <1>1, <1>2, Underway DEF IInv, TypeOK
<1>4. Phases' /\ Ends'
  BY <1>1 DEF IInv, Phases, Ends
<1> QED
  BY <1>3, <1>4 DEF IInv

(***************************************************************************)
(* Every step of the two processes keeps the outline.                      *)
(***************************************************************************)
THEOREM Invariance == Spec => []IInv
<1>1. ASSUME IInv, [Next]_vars PROVE IInv'
  <2>1. CASE CreatorStep
    BY <1>1, <2>1, ForkKeeps, CloseKeeps, StepKeeps, PassesKeeps DEF CreatorStep, Passes, Role
  <2>2. CASE ImporterStep
    BY <1>1, <2>2, ExecKeeps, StepKeeps, PassesKeeps DEF ImporterStep, Passes, Role
  <2>3. CASE \E r \in Role : ReceiveTimeout(r) \/ Die(r)
    BY <1>1, <2>3, ReceiveKeeps, DieKeeps
  <2>4. CASE Finished \/ UNCHANGED vars
    BY <1>1, <2>4, StutterKeeps DEF Finished
  <2>5. QED
    BY <1>1, <2>1, <2>2, <2>3, <2>4 DEF Next
<1> QED
  BY <1>1, Starts, PTL DEF Spec

-----------------------------------------------------------------------------
(***************************************************************************)
(* No process leaves the range of its variables: at most one word is ever  *)
(* on a wire, and no position is beyond its script or its destructors.     *)
(***************************************************************************)
THEOREM PairTypeCorrect == Spec => []TypeOK
<1>1. IInv => TypeOK
  BY DEF IInv
<1> QED
  BY <1>1, Invariance, PTL

(***************************************************************************)
(* host_share.cpp, device_share.cpp and hal_map_probe.cpp hand the buffer  *)
(* over by bare words: whatever call fails, times out or is killed, the    *)
(* two processes are never inside an access of it together, and a creator  *)
(* that came through its conversation releases after the importer did.     *)
(***************************************************************************)
THEOREM PassedInTurn == Spec => []BufferPassedInTurn
<1>1. IInv => OneAccessor
  <2>1. SUFFICES ASSUME IInv, busy["creator"], busy["importer"] PROVE FALSE
    BY DEF OneAccessor
  <2>2. ASSUME NEW r \in Role PROVE In(r) /\ Talking(r) /\ MyTurn(r, Turn(r))
    <3>1. /\ TypeOK /\ phase[r] = "try" /\ at[r] <= N(r) /\ OpAt(r, at[r]) \in Accesses
      BY <2>1, <2>2 DEF IInv, Places, Role
    <3>2. probe \in Probe /\ at[r] \in 1 .. N(r)
      <4>1. probe \in Probe /\ at[r] \in 1 .. 32
        BY <2>2, <3>1 DEF TypeOK
      <4>2. N(r) \in 11 .. 20
        BY <2>2, <4>1, SizesHold DEF Sizes
      <4>3. QED
        BY <3>1, <4>1, <4>2
    <3>3. MyTurn(r, Turn(r))
      BY <3>1, <3>2, Silent DEF Turn
    <3>4. Len(Script[probe][r]) = N(r)
      BY <3>2, Table DEF Transcribes, N
    <3>5. QED
      BY <3>1, <3>2, <3>3, <3>4 DEF In, Ops, Talking
  <2>3. QED
    BY <2>1, <2>2, Alone, Two DEF Role
<1>2. IInv => ReleasesLast
  BY DEF IInv, ReleasesLast, LastWord, CameThrough, GivenUp, Talking, Before
<1>3. IInv => BufferPassedInTurn
  BY <1>1, <1>2 DEF BufferPassedInTurn
<1> QED
  BY <1>3, Invariance, PTL

(***************************************************************************)
(* The flags the destructors of Allocation and of the probes go by are the *)
(* grants of the driver: nothing is released twice, and a process that     *)
(* returns without a failure leaves nothing behind.                        *)
(***************************************************************************)
THEOREM GrantsAreFlagged == Spec => []FlagsAreGrants
<1>1. IInv => FlagsAreGrants
  <2>1. SUFFICES ASSUME IInv, NEW r \in Role
        PROVE  /\ flag[r] \subseteq held[r]
               /\ phase[r] = "try" => flag[r] = held[r]
               /\ exit[r] = "pass" => held[r] = {}
    BY DEF FlagsAreGrants
  <2>2. exit[r] = "pass" => phase[r] = "gone" /\ ~failed[r]
    BY <2>1 DEF IInv, Phases, Verdicts
  <2>3. QED
    BY <2>1, <2>2 DEF IInv, Flags
<1> QED
  BY <1>1, Invariance, PTL

(***************************************************************************)
(* PROCESS_RESULT PASS of a launcher: both scripts ran to their end, every *)
(* word was used and the last pattern is in the buffer; and with no fault  *)
(* of the driver, the sockets or the processes nothing is ever noted.      *)
(***************************************************************************)
THEOREM PassIsTrue == Spec => []VerdictIsTrue
<1>1. ASSUME IInv, exit["creator"] = "pass"
      PROVE  /\ exit["importer"] = "pass"
             /\ \A r \in Role : ~threw[r] /\ wire[r] = <<>>
             /\ content = LastSeed
  <2>1. exit["importer"] = "pass" /\ \A r \in Role : ~threw[r]
    BY <1>1 DEF IInv, Verdicts, Role
  <2>2. phase["creator"] = "gone"
    BY <1>1 DEF IInv, Phases, Role
  <2>3. CameThrough
    BY <1>1, <2>1, <2>2 DEF CameThrough, Talking, Before, Role
  <2>4. QED
    BY <1>1, <2>1, <2>3 DEF IInv, LastWord, GivenUp, Role
<1>2. ASSUME IInv, faults = 0 PROVE \A r \in Role : ~threw[r] /\ ~failed[r]
  BY <1>2 DEF IInv, Quiet
<1>3. IInv => VerdictIsTrue
  BY <1>1, <1>2 DEF VerdictIsTrue
<1> QED
  BY <1>3, Invariance, PTL

-----------------------------------------------------------------------------
(***************************************************************************)
(* To its runner the pair is a case of CasePair.                           *)
(***************************************************************************)
Shown == [parent |-> StatusOf("creator"), child |-> StatusOf("importer")]

\* What a step of CasePair may do, by what it shows of the two processes.
LEMMA Moves ==
  ASSUME \/ UNCHANGED Shown
         \/ /\ StatusOf("creator") = "running" /\ UNCHANGED StatusOf("importer")
            /\ StatusOf("creator")' \in Case!Verdicts(StatusOf("importer"))
         \/ /\ StatusOf("creator") = "running" /\ UNCHANGED StatusOf("creator")
            /\ StatusOf("importer") = "none" /\ StatusOf("importer")' = "running"
         \/ /\ StatusOf("importer") = "running" /\ UNCHANGED StatusOf("creator")
            /\ StatusOf("importer")' \in {"pass", "fail", "killed"}
  PROVE  [Case!Next]_Shown
<1> DEFINE a == StatusOf("creator")
           b == StatusOf("importer")
<1>1. Shown = [parent |-> a, child |-> b] /\ Shown' = [parent |-> a', child |-> b']
  BY DEF Shown
<1> HIDE DEF a, b
<1>2. Shown.parent = a /\ Shown.child = b
  BY <1>1
<1>3. CASE a = "running" /\ b' = b /\ a' \in Case!Verdicts(b)
  <2>1. Shown' = [Shown EXCEPT !.parent = a']
    BY <1>1, <1>3
  <2>2. Shown' \in Case!ParentSteps(Shown)
    BY <1>2, <1>3, <2>1 DEF Case!ParentSteps
  <2>3. QED
    BY <2>2 DEF Case!Next, Shown
<1>4. CASE a = "running" /\ a' = a /\ b = "none" /\ b' = "running"
  <2>1. Shown' = [Shown EXCEPT !.child = "running"]
    BY <1>1, <1>4
  <2>2. Shown' \in Case!ParentSteps(Shown)
    BY <1>2, <1>4, <2>1 DEF Case!ParentSteps
  <2>3. QED
    BY <2>2 DEF Case!Next, Shown
<1>5. CASE b = "running" /\ a' = a /\ b' \in {"pass", "fail", "killed"}
  <2>1. Shown' = [Shown EXCEPT !.child = b']
    BY <1>1, <1>5
  <2>2. Shown' \in Case!ChildSteps(Shown)
    BY <1>2, <1>5, <2>1 DEF Case!ChildSteps
  <2>3. QED
    BY <2>2 DEF Case!Next, Shown
<1> QED
  BY <1>3, <1>4, <1>5 DEF a, b

\* Within a process's code nothing is seen of it from outside.
LEMMA Unseen ==
  ASSUME TypeOK, NEW r \in Role, UNCHANGED exit,
         phase[r] \notin {"unborn", "gone"}, phase'[r] \notin {"unborn", "gone"},
         phase'[Peer(r)] = phase[Peer(r)]
  PROVE  UNCHANGED Shown
<1>1. StatusOf(r) = "running" /\ StatusOf(r)' = "running"
  BY DEF StatusOf
<1>2. StatusOf(Peer(r))' = StatusOf(Peer(r))
  BY DEF StatusOf
<1> QED
  BY <1>1, <1>2, Two DEF Shown, Role

LEMMA StepUnseen ==
  ASSUME TypeOK, NEW r \in Role, Step(r) \/ ReceiveTimeout(r)
  PROVE  UNCHANGED Shown
<1>1. /\ phase[r] \in {"try", "unwind"} /\ UNCHANGED exit
      /\ UNCHANGED phase \/ phase' = [phase EXCEPT ![r] = "unwind"]
  BY DEF Step, ReceiveTimeout, Acquire, Release, CheckedCall, BeginAccess, EndWrite, EndRead,
         SendWord, ReceiveWord, LeaveTry, CleanUp, In, Advance, Throw
<1>2. phase \in [Role -> {"unborn", "launch", "forked", "try", "unwind", "wait", "gone"}]
  BY DEF TypeOK
<1>3. phase'[r] \in {"try", "unwind"} /\ phase'[Peer(r)] = phase[Peer(r)]
  BY <1>1, <1>2, Two
<1> QED
  BY <1>1, <1>3, Unseen

\* A process ends, and only it.
LEMMA Ending ==
  ASSUME TypeOK, NEW r \in Role, NEW how, End(r, how), phase[r] \notin {"unborn", "gone"}
  PROVE  StatusOf(r) = "running" /\ StatusOf(r)' = how /\ StatusOf(Peer(r))' = StatusOf(Peer(r))
<1>1. /\ phase \in [Role -> {"unborn", "launch", "forked", "try", "unwind", "wait", "gone"}]
      /\ exit \in [Role -> {"none", "pass", "fail", "launch_error", "killed"}]
  BY DEF TypeOK
<1>2. /\ phase'[r] = "gone" /\ exit'[r] = how
      /\ phase'[Peer(r)] = phase[Peer(r)] /\ exit'[Peer(r)] = exit[Peer(r)]
  BY <1>1, Two DEF End
<1> QED
  BY <1>2 DEF StatusOf

(***************************************************************************)
(* launch and waitpid of cli.hpp: every step of the two processes is, to   *)
(* the runner, a step of the case or none.  Exit code 0 of the launcher    *)
(* stands for both, and 2 is returned only where nobody was started.       *)
(***************************************************************************)
THEOREM PairIsACase == Spec => Case!Init /\ [][Case!Next]_Shown
<1>1. Init => Case!Init
  BY DEF Init, Case!Init, Case!Started, StatusOf, Role
<1>2. ASSUME IInv, [Next]_vars PROVE [Case!Next]_Shown
  <2>1. TypeOK /\ Phases /\ "creator" \in Role /\ "importer" \in Role
        /\ Peer("creator") = "importer" /\ Peer("importer") = "creator"
    BY <1>2 DEF IInv, Role, Peer
  <2>2. phase \in [Role -> {"unborn", "launch", "forked", "try", "unwind", "wait", "gone"}]
        /\ exit \in [Role -> {"none", "pass", "fail", "launch_error", "killed"}]
    BY <2>1 DEF TypeOK
  <2>3. CASE Fork
    <3>1. StatusOf("creator") = "running" /\ StatusOf("importer") = "none"
      BY <2>1, <2>3 DEF Fork, Phases, StatusOf
    <3>2. CASE phase' = [phase EXCEPT !["creator"] = "forked", !["importer"] = "launch"]
      <4>1. phase'["creator"] = "forked" /\ phase'["importer"] = "launch"
        BY <2>1, <2>2, <3>2
      <4>2. StatusOf("creator")' = "running" /\ StatusOf("importer")' = "running"
        BY <4>1 DEF StatusOf
      <4>3. QED
        BY <3>1, <4>2, Moves
    <3>3. CASE End("creator", "launch_error")
      <4>1. StatusOf("creator")' = "launch_error" /\ UNCHANGED StatusOf("importer")
        BY <2>1, <2>3, <3>3, Ending DEF Fork
      <4>2. QED
        BY <3>1, <4>1, Moves DEF Case!Verdicts
    <3>4. QED
      BY <2>3, <3>2, <3>3 DEF Fork
  <2>4. CASE Exec
    <3>1. CASE phase' = [phase EXCEPT !["importer"] = "try"] /\ UNCHANGED exit
      <4>1. phase'["importer"] = "try" /\ phase'["creator"] = phase["creator"]
        BY <2>1, <2>2, <3>1
      <4>2. QED
        BY <2>1, <2>4, <3>1, <4>1, Unseen, Moves DEF Exec
    <3>2. CASE End("importer", "fail")
      <4>1. /\ StatusOf("importer") = "running" /\ StatusOf("importer")' = "fail"
            /\ UNCHANGED StatusOf("creator")
        BY <2>1, <2>4, <3>2, Ending DEF Exec
      <4>2. QED
        BY <4>1, Moves
    <3>3. QED
      BY <2>4, <3>1, <3>2 DEF Exec
  <2>5. CASE CloseImporterEnd \/ CreatorWaits
    <3>1. /\ phase["creator"] \notin {"unborn", "gone"} /\ UNCHANGED exit
          /\ \/ phase' = [phase EXCEPT !["creator"] = "try"]
             \/ phase' = [phase EXCEPT !["creator"] = "wait"]
      BY <2>5 DEF CloseImporterEnd, CreatorWaits, Unwound
    <3>2. phase'["creator"] \in {"try", "wait"} /\ phase'["importer"] = phase["importer"]
      BY <2>1, <2>2, <3>1
    <3>3. QED
      BY <2>1, <3>1, <3>2, Unseen, Moves
  <2>6. CASE LauncherReturns
    <3>1. /\ StatusOf("creator") = "running" /\ StatusOf("creator")' = CaseVerdict
          /\ UNCHANGED StatusOf("importer")
      BY <2>1, <2>6, Ending DEF LauncherReturns
    <3>2. StatusOf("importer") = exit["importer"] /\ exit["importer"] # "none"
      BY <2>1, <2>6 DEF LauncherReturns, StatusOf, Phases
    <3>3. exit["importer"] \in {"pass", "fail", "launch_error", "killed"}
      BY <2>1, <2>2, <3>2
    <3>4. CaseVerdict \in Case!Verdicts(exit["importer"])
      BY <3>3 DEF CaseVerdict, Case!Verdicts, Case!Ended
    <3>5. QED
      BY <3>1, <3>2, <3>4, Moves
  <2>7. CASE ImporterReturns
    <3>1. /\ StatusOf("importer") = "running" /\ StatusOf("importer")' = Verdict("importer")
          /\ UNCHANGED StatusOf("creator")
      BY <2>1, <2>7, Ending DEF ImporterReturns, Unwound
    <3>2. QED
      BY <3>1, Moves DEF Verdict
  <2>8. CASE \E r \in Role : Step(r) \/ ReceiveTimeout(r)
    BY <2>1, <2>8, StepUnseen, Moves
  <2>9. CASE \E r \in Role : Die(r)
    <3>1. PICK r \in Role : Die(r)
      BY <2>9
    <3>2. /\ StatusOf(r) = "running" /\ StatusOf(r)' = "killed"
          /\ StatusOf(Peer(r))' = StatusOf(Peer(r))
      BY <2>1, <3>1, Ending DEF Die
    <3>3. CASE r = "creator"
      BY <2>1, <3>2, <3>3, Moves DEF Case!Verdicts
    <3>4. CASE r = "importer"
      BY <2>1, <3>2, <3>4, Moves
    <3>5. QED
      BY <3>3, <3>4 DEF Role
  <2>10. CASE Finished \/ UNCHANGED vars
    <3>1. UNCHANGED <<phase, exit>>
      BY <2>10 DEF Finished, vars, process
    <3>2. QED
      BY <3>1 DEF Shown, StatusOf
  <2>11. QED
    BY <1>2, <2>1, <2>3, <2>4, <2>5, <2>6, <2>7, <2>8, <2>9, <2>10
    DEF Next, CreatorStep, ImporterStep
<1> QED
  BY <1>1, <1>2, Invariance, PTL DEF Spec

===============================================================================
