-------------------------- MODULE BioClientProofs --------------------------
(***************************************************************************)
(* Proofs about the RAM disk of src/src/bdev/main.c and its client in      *)
(* src/src/bio/main.c, for any number of tags, sectors and requests of     *)
(* other users of the disk.                                                *)
(***************************************************************************)
EXTENDS BioClient, FiniteSetTheorems, TLAPS

USE RamBlockAssumption, BioClientAssumption

Buffers == UNION {[0 .. n - 1 -> Values] : n \in Nat}
Requests ==
  [op : {"none", "READ", "WRITE", "passthrough"}, start : Nat, nr : Nat, buf : Buffers]

TypeOK ==
  /\ module \in {"none", "data", "tags", "disk", "queue", "live", "gone"}
  /\ data \in [Sectors -> Values]
  /\ made \in Nat
  /\ cur \in [Tags -> Nat]
  /\ pc \in [Tags -> {"free", "queued", "copy", "fail"}]
  /\ req \in [Tags -> Requests]
  /\ moved \in [Tags -> Nat]
  /\ oops \in BOOLEAN

(* What ramblock_init holds after each of its steps, and what is left.     *)
HeldBySteps ==
  /\ module = "none" => held = {}
  /\ module = "data" => held = {"data"}
  /\ module = "tags" => held = {"data", "tag_set"}
  /\ module = "disk" => held = {"data", "tag_set", "disk", "queue"}
  /\ module \in {"queue", "live"} => held = {"data", "tag_set", "disk", "queue", "queue2"}
  /\ module = "gone" => held \in {{}, {"disk", "queue", "data"}, {"queue"}}

(* A tag belongs to one request, no two tags to the same one.              *)
TagsOwned ==
  /\ \A g \in Tags : cur[g] =< made /\ (cur[g] = 0 <=> pc[g] = "free")
  /\ \A g, h \in Tags : cur[g] = cur[h] /\ cur[g] # 0 => g = h

(* A request is served only if it lies on the disk, so that its offset     *)
(* does not wrap, and fails only if it does not or is not a read or write. *)
Served(g) ==
  /\ req[g].buf \in [0 .. req[g].nr - 1 -> Values]
  /\ pc[g] # "copy" => moved[g] = 0
  /\ pc[g] = "copy" => /\ req[g].op # "passthrough" /\ moved[g] =< req[g].nr
                       /\ req[g].start + req[g].nr =< CAPACITY
  /\ pc[g] = "fail" => req[g].op = "passthrough" \/ req[g].start + req[g].nr > CAPACITY

DiskInv == TypeOK /\ HeldBySteps /\ TagsOwned /\ \A g \in Tags : Served(g)

(* What an error of ramblock_process_request can still end.                *)
EarlyInv ==
  /\ again \in SUBSET Tags /\ refused \in Nat
  /\ IsFiniteSet(again) /\ IsFiniteSet(early)
  /\ EarlyEndsBounded

(* The client: what it holds, and how many bios it has made, at each step. *)
Steps == {"open", "alloc", "write", "writing", "read", "reading", "cleanup", "done"}
OwnedBySteps ==
  /\ bpc \in Steps /\ bios \in Nat /\ sector \in Nat /\ mine \in Nat /\ disturbed \in BOOLEAN
  /\ bpc \in {"open", "done"} => owned = {}
  /\ bpc \notin {"open", "done"} => module = "live" /\ "bdev" \in owned
  /\ bpc \in {"open", "alloc", "write"} => bios = 0 /\ ret = 0
  /\ bpc \in {"writing", "read"} => bios = 1 /\ ret = 0
  /\ bpc = "reading" => bios = 2 /\ ret = 0
  /\ bpc \in {"cleanup", "done"} /\ ret = 0 => bios = 2

(* The request that the client waits for, as long as it has a tag.         *)
Mine(g) == mine # 0 /\ cur[g] = mine
Waits ==
  /\ mine # 0 <=> bpc \in {"writing", "reading"}
  /\ mine =< made
  /\ \A g \in Tags : Mine(g) =>
       /\ req[g].start = sector /\ req[g].nr = 1
       /\ bpc = "writing" => req[g].op = "WRITE" /\ req[g].buf[0] = Hello
       /\ bpc = "reading" => req[g].op = "READ"

(* The request of the client has been carried out, or is over.             *)
Carried == \A g \in Tags : Mine(g) => moved[g] = 1

(* Where Hello is while nobody else writes to the sector.                  *)
HelloThere ==
  /\ sector < CAPACITY /\ ~disturbed =>
       /\ bpc = "writing" /\ Carried => data[sector] = Hello
       /\ bpc \in {"read", "reading"} => data[sector] = Hello
       /\ bpc = "reading" /\ Carried => read_buffer = Hello
       /\ bpc \in {"cleanup", "done"} /\ ret = 0 => read_buffer = Hello
  /\ sector >= CAPACITY => read_buffer = Junk

ClientInv == OwnedBySteps /\ Waits /\ HelloThere

IInv == DiskInv /\ EarlyInv /\ ClientInv

-----------------------------------------------------------------------------
(* A tag that belongs to nobody.                                           *)
LEMMA NoRequestOK == NoRequest \in Requests /\ NoRequest.buf \in [0 .. NoRequest.nr - 1 -> Values]
<1>1. << >> \in [0 .. 0 - 1 -> Values]
  OBVIOUS
<1>2. << >> \in Buffers
  BY <1>1 DEF Buffers
<1> QED
  BY <1>1, <1>2 DEF NoRequest, Requests

(* The disk before ramblock_init.                                          *)
LEMMA DiskInit ==
  ASSUME Init
  PROVE  DiskInv /\ EarlyInv
<1>1. TypeOK
  BY NoRequestOK DEF Init, TypeOK
<1>2. HeldBySteps /\ TagsOwned
  BY DEF Init, HeldBySteps, TagsOwned
<1>3. ASSUME NEW g \in Tags PROVE Served(g)
  BY NoRequestOK DEF Init, Served
<1>4. EarlyInv
  BY FS_EmptySet DEF Init, EarlyInv, EarlyEndsBounded
<1> QED
  BY <1>1, <1>2, <1>3, <1>4 DEF DiskInv

(* ramblock_init, with every failure of its steps, and ramblock_exit.      *)
LEMMA SetupKeeps ==
  ASSUME DiskInv, Setup \/ ramblock_exit
  PROVE  DiskInv'
<1>0. TypeOK /\ HeldBySteps /\ TagsOwned /\ \A g \in Tags : Served(g)
  BY DEF DiskInv
<1>1. UNCHANGED <<data, serving, oops>>
  BY DEF Setup, vmalloc_data, alloc_tag_set, alloc_disk, init_queue, add_disk, Acquire, ramblock_exit
<1>2. TagsOwned' /\ \A g \in Tags : Served(g)'
  BY <1>0, <1>1 DEF TagsOwned, Served, serving
<1>3. TypeOK'
  <2>1. module' \in {"none", "data", "tags", "disk", "queue", "live", "gone"}
    BY DEF Setup, vmalloc_data, alloc_tag_set, alloc_disk, init_queue, add_disk, Acquire,
           ramblock_exit
  <2> QED
    BY <1>0, <1>1, <2>1 DEF TypeOK, serving
<1>4. HeldBySteps'
  <2> USE <1>0 DEF HeldBySteps
  <2>1. CASE vmalloc_data
    BY <2>1 DEF vmalloc_data, Acquire
  <2>2. CASE alloc_tag_set
    BY <2>2 DEF alloc_tag_set, Acquire
  <2>3. CASE alloc_disk
    BY <2>3 DEF alloc_disk, Acquire
  <2>4. CASE init_queue
    BY <2>4 DEF init_queue, Acquire
  <2>5. CASE add_disk
    BY <2>5 DEF add_disk
  <2>6. CASE ramblock_exit
    BY <2>6 DEF ramblock_exit
  <2> QED
    BY <2>1, <2>2, <2>3, <2>4, <2>5, <2>6 DEF Setup
<1> QED
  BY <1>2, <1>3, <1>4 DEF DiskInv

(* A tag is given to a request that nobody has made yet.                   *)
LEMMA GiveTagKeeps ==
  ASSUME DiskInv, NEW g \in Tags, NEW r \in Requests, r.buf \in [0 .. r.nr - 1 -> Values],
         give_tag(g, r)
  PROVE  DiskInv'
<1>0. TypeOK /\ HeldBySteps /\ TagsOwned /\ \A h \in Tags : Served(h)
  BY DEF DiskInv
<1>1. TypeOK'
  BY <1>0 DEF TypeOK, give_tag
<1>2. HeldBySteps'
  BY <1>0 DEF HeldBySteps, give_tag
<1>3. TagsOwned'
  BY <1>0 DEF TagsOwned, TypeOK, give_tag
<1>4. ASSUME NEW h \in Tags PROVE Served(h)'
  BY <1>0 DEF Served, TypeOK, give_tag
<1> QED
  BY <1>1, <1>2, <1>3, <1>4 DEF DiskInv

(* The requests that users submit.                                         *)
LEMMA SubmitKeeps ==
  ASSUME DiskInv, NEW g \in Tags, submit(g)
  PROVE  DiskInv'
<1>1. PICK o \in {"READ", "WRITE", "passthrough"}, st \in Starts, n \in Lengths :
      \E b \in [0 .. n - 1 -> IF o = "WRITE" THEN Values ELSE {0}] :
        give_tag(g, [op |-> o, start |-> st, nr |-> n, buf |-> b])
  BY DEF submit
<1>2. PICK b \in [0 .. n - 1 -> IF o = "WRITE" THEN Values ELSE {0}] :
        give_tag(g, [op |-> o, start |-> st, nr |-> n, buf |-> b])
  BY <1>1
<1>3. b \in [0 .. n - 1 -> Values] /\ n \in Nat
  OBVIOUS
<1>4. b \in Buffers
  BY <1>3 DEF Buffers
<1>5. [op |-> o, start |-> st, nr |-> n, buf |-> b] \in Requests
  BY <1>3, <1>4 DEF Requests
<1> QED
  BY <1>2, <1>3, <1>5, GiveTagKeeps

(* The offset of a request that is being served does not wrap around.      *)
LEMMA OffsetExact ==
  ASSUME DiskInv, NEW g \in Tags, pc[g] = "copy", moved[g] < req[g].nr
  PROVE  offset(g) = req[g].start + moved[g] /\ offset(g) \in Sectors
<1>1. /\ req[g].start \in Nat /\ req[g].nr \in Nat /\ moved[g] \in Nat
      /\ req[g].start + req[g].nr =< CAPACITY
  BY DEF DiskInv, TypeOK, Requests, Served
<1>2. req[g].start % UINT_SECTORS = req[g].start
  <2>1. req[g].start < UINT_SECTORS
    BY <1>1
  <2> QED
    BY <1>1, <2>1
<1> QED
  BY <1>1, <1>2 DEF offset, Sectors

(* So each turn of the loop copies one sector that the request names.      *)
LEMMA CopyEffect ==
  ASSUME DiskInv, NEW g \in Tags, copy_segment(g)
  PROVE  LET s == req[g].start + moved[g] IN
         /\ pc[g] = "copy" /\ moved[g] < req[g].nr /\ s \in Sectors
         /\ req' = IF req[g].op = "READ"
                   THEN [req EXCEPT ![g].buf[moved[g]] = data[s]] ELSE req
         /\ data' = IF req[g].op = "WRITE"
                    THEN [data EXCEPT ![s] = req[g].buf[moved[g]]] ELSE data
         /\ moved' = [moved EXCEPT ![g] = @ + 1]
         /\ oops' \in BOOLEAN
         /\ UNCHANGED <<pc, module, held, made, cur, again, refused, early>>
<1>1. pc[g] = "copy" /\ moved[g] < req[g].nr
  BY DEF copy_segment
<1>2. offset(g) = req[g].start + moved[g] /\ offset(g) \in Sectors
  BY <1>1, OffsetExact
<1>3. ~(offset(g) >= CAPACITY)
  BY <1>2 DEF Sectors
<1> QED
  BY <1>1, <1>2, <1>3 DEF copy_segment

(* What a request has read goes into its buffer, and nothing else changes. *)
LEMMA CopyRequest ==
  ASSUME DiskInv, NEW g \in Tags, copy_segment(g)
  PROVE  /\ req' \in [Tags -> Requests]
         /\ \A h \in Tags \ {g} : req'[h] = req[h]
         /\ req'[g].op = req[g].op /\ req'[g].start = req[g].start /\ req'[g].nr = req[g].nr
         /\ req'[g].buf \in [0 .. req[g].nr - 1 -> Values]
         /\ req[g].op = "WRITE" => req' = req
<1> DEFINE i == moved[g]
           s == req[g].start + moved[g]
<1>0. /\ req \in [Tags -> Requests] /\ req[g] \in Requests /\ i \in Nat /\ data \in [Sectors -> Values]
      /\ req[g].buf \in [0 .. req[g].nr - 1 -> Values] /\ req[g].nr \in Nat
  BY DEF DiskInv, TypeOK, Served, Requests
<1>1. /\ i < req[g].nr /\ s \in Sectors
      /\ req' = IF req[g].op = "READ" THEN [req EXCEPT ![g].buf[i] = data[s]] ELSE req
  BY CopyEffect
<1>2. CASE req[g].op # "READ"
  BY <1>0, <1>1, <1>2
<1>3. CASE req[g].op = "READ"
  <2> DEFINE b == [req[g].buf EXCEPT ![i] = data[s]]
             r == [req[g] EXCEPT !.buf = b]
  <2>1. b \in [0 .. req[g].nr - 1 -> Values]
    BY <1>0, <1>1
  <2>2. b \in Buffers
    BY <1>0, <2>1 DEF Buffers
  <2>3. /\ r \in Requests /\ r.op = req[g].op /\ r.start = req[g].start /\ r.nr = req[g].nr
        /\ r.buf = b
    <3> HIDE DEF b
    <3> QED
      BY <1>0, <2>2 DEF Requests
  <2>4. req' = [req EXCEPT ![g] = r]
    BY <1>1, <1>3
  <2> HIDE DEF r, b
  <2> QED
    BY <1>0, <1>3, <2>1, <2>3, <2>4
<1> QED
  BY <1>2, <1>3

LEMMA CopyKeeps ==
  ASSUME DiskInv, NEW g \in Tags, copy_segment(g)
  PROVE  DiskInv'
<1>0. TypeOK /\ HeldBySteps /\ TagsOwned /\ \A h \in Tags : Served(h)
  BY DEF DiskInv
<1> DEFINE s == req[g].start + moved[g]
<1>1. /\ pc[g] = "copy" /\ moved[g] < req[g].nr /\ s \in Sectors
      /\ data' = IF req[g].op = "WRITE" THEN [data EXCEPT ![s] = req[g].buf[moved[g]]] ELSE data
      /\ moved' = [moved EXCEPT ![g] = @ + 1]
      /\ oops' \in BOOLEAN
      /\ UNCHANGED <<pc, module, held, made, cur, again, refused, early>>
  BY CopyEffect
<1>2. /\ req' \in [Tags -> Requests]
      /\ \A h \in Tags \ {g} : req'[h] = req[h]
      /\ req'[g].op = req[g].op /\ req'[g].start = req[g].start /\ req'[g].nr = req[g].nr
      /\ req'[g].buf \in [0 .. req[g].nr - 1 -> Values]
  BY CopyRequest
<1>3. req[g].nr \in Nat /\ moved[g] \in Nat /\ req[g].buf \in [0 .. req[g].nr - 1 -> Values]
  BY <1>0 DEF TypeOK, Requests, Served
<1>4. TypeOK'
  <2>1. data' \in [Sectors -> Values]
    BY <1>0, <1>1, <1>3 DEF TypeOK
  <2>2. moved' \in [Tags -> Nat]
    BY <1>0, <1>1 DEF TypeOK
  <2> QED
    BY <1>0, <1>1, <1>2, <2>1, <2>2 DEF TypeOK
<1>5. HeldBySteps' /\ TagsOwned'
  BY <1>0, <1>1 DEF HeldBySteps, TagsOwned
<1>6. ASSUME NEW h \in Tags PROVE Served(h)'
  <2>1. CASE h # g
    BY <1>0, <1>1, <1>2, <2>1 DEF Served, TypeOK
  <2>2. CASE h = g
    BY <1>0, <1>1, <1>2, <1>3, <2>2 DEF Served, TypeOK
  <2> QED
    BY <2>1, <2>2
<1> QED
  BY <1>4, <1>5, <1>6 DEF DiskInv

(* A request is ended, and its tag given back.                             *)
LEMMA ReleaseKeeps ==
  ASSUME DiskInv, NEW g \in Tags, Release(g), UNCHANGED <<module, held, data, made, oops>>
  PROVE  DiskInv'
<1>0. TypeOK /\ HeldBySteps /\ TagsOwned /\ \A h \in Tags : Served(h)
  BY DEF DiskInv
<1>1. TypeOK'
  BY <1>0, NoRequestOK DEF TypeOK, Release
<1>2. HeldBySteps' /\ TagsOwned'
  BY <1>0 DEF HeldBySteps, TagsOwned, TypeOK, Release
<1>3. ASSUME NEW h \in Tags PROVE Served(h)'
  BY <1>0, NoRequestOK DEF Served, TypeOK, Release
<1> QED
  BY <1>1, <1>2, <1>3 DEF DiskInv

(* The two checks at the beginning, and the second end of a request.       *)
LEMMA ProcessKeeps ==
  ASSUME DiskInv, NEW g \in Tags, ramblock_process_request(g)
  PROVE  DiskInv'
<1>0. TypeOK /\ HeldBySteps /\ TagsOwned /\ \A h \in Tags : Served(h)
  BY DEF DiskInv
<1>1. TypeOK' /\ HeldBySteps' /\ TagsOwned'
  BY <1>0 DEF TypeOK, HeldBySteps, TagsOwned, ramblock_process_request
<1>2. ASSUME NEW h \in Tags PROVE Served(h)'
  <2>1. req[h].start \in Nat /\ req[h].nr \in Nat
    BY <1>0 DEF TypeOK, Requests
  <2> QED
    BY <1>0, <2>1 DEF Served, TypeOK, ramblock_process_request, in_capacity
<1> QED
  BY <1>1, <1>2 DEF DiskInv

(* Every step of the disk keeps DiskInv.                                   *)
LEMMA DiskInductive ==
  ASSUME DiskInv, Next
  PROVE  DiskInv'
<1>1. CASE Setup \/ ramblock_exit
  BY <1>1, SetupKeeps
<1>2. ASSUME NEW g \in Tags, submit(g) \/ Serve(g) PROVE DiskInv'
  <2>1. CASE submit(g)
    BY <2>1, SubmitKeeps
  <2>2. CASE ramblock_process_request(g)
    BY <2>2, ProcessKeeps
  <2>3. CASE copy_segment(g)
    BY <2>3, CopyKeeps
  <2>4. CASE end_request(g) \/ end_request_error(g)
    BY <2>4, ReleaseKeeps DEF end_request, end_request_error
  <2>5. CASE end_failed_request(g)
    <3>1. /\ oops' \in BOOLEAN
          /\ UNCHANGED <<module, held, data, made, cur, pc, req, moved>>
      BY <2>5 DEF end_failed_request
    <3> QED
      BY <3>1 DEF DiskInv, TypeOK, HeldBySteps, TagsOwned, Served
  <2> QED
    BY <1>2, <2>1, <2>2, <2>3, <2>4, <2>5 DEF Serve
<1> QED
  BY <1>1, <1>2 DEF Next

-----------------------------------------------------------------------------
(* Adding one element makes a finite set larger by one at most.            *)
LEMMA OneMore ==
  ASSUME NEW S, NEW x, IsFiniteSet(S)
  PROVE  /\ IsFiniteSet(S \cup {x}) /\ Cardinality(S) \in Nat
         /\ Cardinality(S \cup {x}) \in Nat /\ Cardinality(S \cup {x}) =< Cardinality(S) + 1
<1>1. Cardinality(S) \in Nat
  BY FS_CardinalityType
<1>2. /\ IsFiniteSet(S \cup {x})
      /\ Cardinality(S \cup {x}) = IF x \in S THEN Cardinality(S) ELSE Cardinality(S) + 1
  BY FS_AddElement
<1> QED
  BY <1>1, <1>2

(* A request that is refused pays for one that is ended early.             *)
LEMMA EarlyInductive ==
  ASSUME EarlyInv, DiskInv, Next \/ \E g \in Tags, r \in Requests : give_tag(g, r)
  PROVE  EarlyInv'
<1>0. /\ again \in SUBSET Tags /\ refused \in Nat /\ IsFiniteSet(again) /\ IsFiniteSet(early)
      /\ Cardinality(early) + Cardinality(again) =< refused
      /\ Cardinality(early) \in Nat /\ Cardinality(again) \in Nat
  BY FS_CardinalityType DEF EarlyInv, EarlyEndsBounded
<1>1. ASSUME UNCHANGED <<again, refused, early>> PROVE EarlyInv'
  BY <1>0, <1>1 DEF EarlyInv, EarlyEndsBounded
<1>2. CASE Setup \/ ramblock_exit \/ \E g \in Tags, r \in Requests : give_tag(g, r)
  BY <1>1, <1>2 DEF Setup, vmalloc_data, alloc_tag_set, alloc_disk, init_queue, add_disk,
     Acquire, ramblock_exit, give_tag, serving
<1>3. ASSUME NEW g \in Tags, submit(g) PROVE EarlyInv'
  BY <1>1, <1>3 DEF submit, give_tag
<1>4. ASSUME NEW g \in Tags, end_request_error(g) PROVE EarlyInv'
  <2>1. again' = again \cup {g} /\ refused' = refused + 1 /\ early' = early
    BY <1>4 DEF end_request_error
  <2>2. IsFiniteSet(again') /\ Cardinality(again') \in Nat /\ Cardinality(again') =< Cardinality(again) + 1
    BY <1>0, <2>1, OneMore
  <2> QED
    BY <1>0, <2>1, <2>2 DEF EarlyInv, EarlyEndsBounded
<1>5. ASSUME NEW g \in Tags, end_failed_request(g) PROVE EarlyInv'
  <2>1. g \in again /\ again' = again \ {g} /\ refused' = refused
        /\ early' = early \cup ({cur[g]} \ {0})
    BY <1>5 DEF end_failed_request
  <2>2. IsFiniteSet(again') /\ Cardinality(again') = Cardinality(again) - 1
    BY <1>0, <2>1, FS_RemoveElement
  <2>3. IsFiniteSet(early') /\ Cardinality(early') \in Nat /\ Cardinality(early') =< Cardinality(early) + 1
    <3>1. CASE cur[g] = 0
      <4>1. early' = early
        BY <2>1, <3>1
      <4> QED BY <1>0, <4>1
    <3>2. CASE cur[g] # 0
      <4>1. early' = early \cup {cur[g]}
        BY <2>1, <3>2
      <4> QED BY <1>0, <4>1, OneMore
    <3> QED BY <3>1, <3>2
  <2> QED
    BY <1>0, <2>1, <2>2, <2>3 DEF EarlyInv, EarlyEndsBounded
<1>6. ASSUME NEW g \in Tags, ramblock_process_request(g) \/ copy_segment(g) \/ end_request(g)
      PROVE  EarlyInv'
  BY <1>1, <1>6 DEF ramblock_process_request, copy_segment, end_request
<1> QED
  BY <1>2, <1>3, <1>4, <1>5, <1>6 DEF Next, Serve

-----------------------------------------------------------------------------
(* A step of the disk that copies nothing keeps what the client relies on, *)
(* if it ends the request of the client only after it was carried out.     *)
LEMMA QuietKeeps ==
  ASSUME IInv, UNCHANGED <<bpc, sector, owned, bios, mine, ret, data, read_buffer, disturbed>>,
         "bdev" \in owned => module' = module,
         made' \in Nat, made =< made',
         \A g \in Tags : Mine(g)' => Mine(g) /\ req'[g] = req[g] /\ moved'[g] = moved[g],
         \A g \in Tags : Mine(g) => Mine(g)' \/ moved[g] = 1 \/ sector >= CAPACITY
  PROVE  ClientInv'
<1>0. TypeOK /\ OwnedBySteps /\ Waits /\ HelloThere
  BY DEF IInv, DiskInv, ClientInv
<1>1. OwnedBySteps'
  BY <1>0 DEF OwnedBySteps
<1>2. Waits'
  BY <1>0 DEF Waits, OwnedBySteps, TypeOK, Mine
<1>3. sector < CAPACITY /\ Carried' => Carried
  <2> SUFFICES ASSUME sector < CAPACITY, Carried', NEW g \in Tags, Mine(g) PROVE moved[g] = 1
    BY DEF Carried
  <2>1. ~(sector >= CAPACITY)
    BY <1>0 DEF OwnedBySteps
  <2> QED
    BY <2>1 DEF Carried
<1>4. HelloThere'
  <2> HIDE DEF Carried
  <2> QED
    BY <1>0, <1>3 DEF HelloThere
<1> QED
  BY <1>1, <1>2, <1>4 DEF ClientInv

(* The sector of the client, if its request is being copied.               *)
LEMMA CopyClient ==
  ASSUME IInv, NEW g \in Tags, copy_segment(g), Disk
  PROVE  ClientInv'
<1> DEFINE s == req[g].start + moved[g]
<1>0. TypeOK /\ OwnedBySteps /\ Waits /\ HelloThere /\ TagsOwned /\ DiskInv
  BY DEF IInv, DiskInv, ClientInv
<1>1. /\ pc[g] = "copy" /\ moved[g] < req[g].nr /\ s \in Sectors
      /\ data' = IF req[g].op = "WRITE" THEN [data EXCEPT ![s] = req[g].buf[moved[g]]] ELSE data
      /\ moved' = [moved EXCEPT ![g] = @ + 1]
      /\ UNCHANGED <<pc, module, held, made, cur, again, refused, early>>
  BY <1>0, CopyEffect
<1>2. /\ \A h \in Tags \ {g} : req'[h] = req[h]
      /\ req'[g].op = req[g].op /\ req'[g].start = req[g].start /\ req'[g].nr = req[g].nr
      /\ req[g].op = "WRITE" => req' = req
  BY <1>0, CopyRequest
<1>3. /\ moved[g] \in Nat /\ req[g].start \in Nat /\ req[g].nr \in Nat /\ sector \in Nat
      /\ moved \in [Tags -> Nat] /\ data \in [Sectors -> Values]
      /\ cur[g] # 0
  BY <1>0, <1>1 DEF TypeOK, Requests, OwnedBySteps, TagsOwned
<1>4. \A h \in Tags : Copies(h) <=> h = g
  BY <1>1, <1>3 DEF Copies
<1>5. UNCHANGED <<bpc, sector, owned, bios, mine, ret>>
  BY DEF Disk
<1>6. /\ read_buffer' = IF Mine(g) /\ req[g].op = "READ" THEN data[sector] ELSE read_buffer
      /\ disturbed' = (disturbed \/ (/\ bpc \in {"writing", "read", "reading"} /\ ~Mine(g)
                                     /\ req[g].op = "WRITE" /\ s = sector))
  <2>1. Mine(g) <=> cur[g] = mine
    BY <1>3 DEF Mine
  <2> QED
    BY <1>4, <2>1 DEF Disk
<1>7. OwnedBySteps'
  <2>1. disturbed' \in BOOLEAN
    <3>1. disturbed \in BOOLEAN
      BY <1>0 DEF OwnedBySteps
    <3> QED
      BY <1>6, <3>1, Zenon
  <2> QED
    BY <1>0, <1>1, <1>5, <2>1 DEF OwnedBySteps
<1>8. Waits'
  <2>1. \A h \in Tags : Mine(h)' => Mine(h)
    BY <1>1, <1>5 DEF Mine
  <2>2. ASSUME NEW h \in Tags, Mine(h)
        PROVE  /\ req'[h].start = sector /\ req'[h].nr = 1
               /\ bpc = "writing" => req'[h].op = "WRITE" /\ req'[h].buf[0] = Hello
               /\ bpc = "reading" => req'[h].op = "READ"
    <3>1. /\ req[h].start = sector /\ req[h].nr = 1
          /\ bpc = "writing" => req[h].op = "WRITE" /\ req[h].buf[0] = Hello
          /\ bpc = "reading" => req[h].op = "READ"
      BY <1>0, <2>2 DEF Waits
    <3> QED
      BY <1>2, <3>1
  <2> QED
    BY <1>0, <1>1, <1>5, <2>1, <2>2 DEF Waits
<1>9. HelloThere'
  <2>1. CASE Mine(g)
    <3>1. /\ req[g].start = sector /\ req[g].nr = 1 /\ moved[g] = 0 /\ s = sector
          /\ bpc = "writing" => req[g].op = "WRITE" /\ req[g].buf[0] = Hello
          /\ bpc = "reading" => req[g].op = "READ"
          /\ bpc \in {"writing", "reading"} /\ sector < CAPACITY
      BY <1>0, <1>1, <1>3, <2>1 DEF Waits, Mine, Sectors
    <3>2. disturbed' = disturbed
      BY <1>0, <1>6, <2>1 DEF OwnedBySteps
    <3>3. bpc = "writing" => data'[sector] = Hello
      BY <1>1, <1>3, <3>1
    <3>4. bpc = "reading" => data' = data /\ read_buffer' = data[sector]
      BY <1>1, <1>6, <2>1, <3>1
    <3> QED
      BY <1>0, <1>3, <1>5, <3>1, <3>2, <3>3, <3>4 DEF HelloThere
  <2>2. CASE ~Mine(g)
    <3>1. read_buffer' = read_buffer
      BY <1>6, <2>2
    <3>2. Carried' => Carried
      <4> SUFFICES ASSUME Carried', NEW h \in Tags, Mine(h) PROVE moved[h] = 1
        BY DEF Carried
      <4>1. h # g /\ Mine(h)' /\ moved'[h] = moved[h]
        BY <1>1, <1>3, <1>5, <2>2 DEF Mine
      <4> QED
        BY <4>1 DEF Carried
    <3>3. ASSUME bpc \in {"writing", "read", "reading"}, ~disturbed', sector < CAPACITY
          PROVE  ~disturbed /\ data'[sector] = data[sector]
      <4>1. ~disturbed /\ ~(req[g].op = "WRITE" /\ s = sector)
        BY <1>6, <2>2, <3>3
      <4>2. sector \in Sectors
        BY <1>3, <3>3 DEF Sectors
      <4> QED
        BY <1>1, <1>3, <4>1, <4>2
    <3>4. ASSUME ~disturbed' PROVE ~disturbed
      BY <1>6, <3>4
    <3> HIDE DEF Carried
    <3> QED
      BY <1>0, <1>5, <3>1, <3>2, <3>3, <3>4 DEF HelloThere
  <2> QED
    BY <2>1, <2>2
<1> QED
  BY <1>7, <1>8, <1>9 DEF ClientInv

(* The steps of the disk, as the client sees them.                         *)
LEMMA DiskClient ==
  ASSUME IInv, Disk
  PROVE  ClientInv'
<1>0. TypeOK /\ OwnedBySteps /\ Waits /\ TagsOwned /\ DiskInv /\ \A g \in Tags : Served(g)
  BY DEF IInv, DiskInv, ClientInv
<1>1. /\ UNCHANGED <<bpc, sector, owned, bios, mine, ret>>
      /\ "bdev" \in owned => module' = module
      /\ Next
  BY DEF Disk
<1>2. ASSUME \A g \in Tags : ~Copies(g) PROVE UNCHANGED <<read_buffer, disturbed>>
  <2>1. read_buffer' = read_buffer
    BY <1>2 DEF Disk
  <2>2. disturbed' = (disturbed \/ FALSE)
    BY <1>2 DEF Disk
  <2> QED
    BY <1>0, <2>1, <2>2 DEF OwnedBySteps
<1>3. ASSUME UNCHANGED <<data, made, cur, req, moved>> PROVE ClientInv'
  <2>1. \A g \in Tags : ~Copies(g)
    BY <1>0, <1>3 DEF TypeOK, Copies
  <2> QED
    BY <1>0, <1>1, <1>2, <1>3, <2>1, QuietKeeps DEF TypeOK, Mine
<1>4. CASE Setup \/ ramblock_exit
  BY <1>3, <1>4 DEF Setup, vmalloc_data, alloc_tag_set, alloc_disk, init_queue, add_disk,
     Acquire, ramblock_exit, serving
<1>5. ASSUME NEW g \in Tags, ramblock_process_request(g) \/ end_failed_request(g) PROVE ClientInv'
  BY <1>3, <1>5 DEF ramblock_process_request, end_failed_request
<1>6. ASSUME NEW g \in Tags, submit(g) PROVE ClientInv'
  <2>1. PICK r : give_tag(g, r)
    BY <1>6 DEF submit
  <2>2. /\ pc[g] = "free" /\ made' = made + 1 /\ cur' = [cur EXCEPT ![g] = made + 1]
        /\ moved' = [moved EXCEPT ![g] = 0] /\ req' = [req EXCEPT ![g] = r] /\ data' = data
    BY <2>1 DEF give_tag
  <2>3. \A h \in Tags : ~Copies(h)
    BY <1>0, <2>2 DEF TypeOK, Copies
  <2>4. mine \in Nat /\ mine =< made /\ made \in Nat /\ cur[g] = 0
    BY <1>0, <2>2 DEF TypeOK, OwnedBySteps, Waits, TagsOwned
  <2>5. \A h \in Tags : Mine(h)' => Mine(h) /\ req'[h] = req[h] /\ moved'[h] = moved[h]
    BY <1>0, <1>1, <2>2, <2>4 DEF TypeOK, Mine
  <2>6. \A h \in Tags : Mine(h) => Mine(h)'
    BY <1>0, <1>1, <2>2, <2>4 DEF TypeOK, Mine
  <2> QED
    BY <1>1, <1>2, <2>2, <2>3, <2>4, <2>5, <2>6, QuietKeeps
<1>7. ASSUME NEW g \in Tags, end_request(g) \/ end_request_error(g) PROVE ClientInv'
  <2>1. /\ Release(g) /\ UNCHANGED <<data, made>>
        /\ \/ pc[g] = "copy" /\ moved[g] = req[g].nr
           \/ pc[g] = "fail"
    BY <1>7 DEF end_request, end_request_error
  <2>2. \A h \in Tags : ~Copies(h)
    BY <1>0, <2>1 DEF TypeOK, Copies, Release
  <2>3. \A h \in Tags : Mine(h)' => Mine(h) /\ req'[h] = req[h] /\ moved'[h] = moved[h]
    BY <1>0, <1>1, <2>1 DEF TypeOK, Mine, Release
  <2>4. \A h \in Tags : h # g /\ Mine(h) => Mine(h)'
    BY <1>0, <1>1, <2>1 DEF TypeOK, Mine, Release
  <2>5. Mine(g) => moved[g] = 1 \/ sector >= CAPACITY
    <3> SUFFICES ASSUME Mine(g), pc[g] = "fail" PROVE sector >= CAPACITY
      BY <1>0, <2>1 DEF Waits
    <3>1. req[g].start = sector /\ req[g].nr = 1 /\ req[g].op # "passthrough" /\ sector \in Nat
      BY <1>0 DEF Waits, Mine, OwnedBySteps
    <3> QED
      BY <1>0, <3>1 DEF Served
  <2> QED
    BY <1>0, <1>1, <1>2, <2>1, <2>2, <2>3, <2>4, <2>5, QuietKeeps DEF TypeOK
<1> QED
  BY <1>1, <1>4, <1>5, <1>6, <1>7, CopyClient DEF Next, Serve

-----------------------------------------------------------------------------
(* The client before it is loaded.                                         *)
LEMMA BioInitIInv ==
  ASSUME BioInit
  PROVE  IInv
<1>1. DiskInv /\ EarlyInv
  BY DiskInit DEF BioInit
<1>2. disturbed \in BOOLEAN
  BY Zenon DEF BioInit
<1>3. sector \in Nat
  BY BioClientAssumption DEF BioInit
<1>4. OwnedBySteps
  BY <1>2, <1>3 DEF BioInit, OwnedBySteps, Steps
<1>5. Waits
  BY DEF BioInit, Init, Waits, Mine
<1>6. HelloThere
  BY DEF BioInit, HelloThere
<1> QED
  BY <1>1, <1>4, <1>5, <1>6 DEF IInv, ClientInv

(* The client makes a bio and waits for it, or gives up.                   *)
LEMMA SubmitBioKeeps ==
  ASSUME IInv, NEW op \in {"WRITE", "READ"}, bpc = IF op = "WRITE" THEN "write" ELSE "read",
         submit_custom_bio(op)
  PROVE  IInv'
<1>0. /\ TypeOK /\ OwnedBySteps /\ Waits /\ HelloThere /\ TagsOwned /\ DiskInv /\ EarlyInv
      /\ sector \in Nat /\ made \in Nat /\ bios \in Nat
  BY DEF IInv, DiskInv, ClientInv, OwnedBySteps, TypeOK
<1> DEFINE b == [i \in {0} |-> IF op = "WRITE" THEN Hello ELSE 0]
           r == [op |-> op, start |-> sector, nr |-> 1, buf |-> b]
<1>r. r \in Requests /\ r.buf \in [0 .. r.nr - 1 -> Values]
  <2>1. 0 .. 1 - 1 = {0}
    OBVIOUS
  <2>2. b \in [0 .. 1 - 1 -> Values]
    BY <2>1
  <2>3. b \in Buffers
    <3>1. 1 \in Nat
      OBVIOUS
    <3> QED BY <2>2, <3>1 DEF Buffers
  <2> QED
    BY <1>0, <2>2, <2>3 DEF Requests
<1>b. op = "WRITE" => b[0] = Hello
  OBVIOUS
<1>1. CASE \E g \in Tags : give_tag(g, r) /\ bios' = bios + 1 /\ mine' = made + 1
             /\ bpc' = (IF op = "WRITE" THEN "writing" ELSE "reading")
             /\ UNCHANGED <<sector, owned, read_buffer, ret, disturbed>>
  <2>1. PICK g \in Tags : give_tag(g, r) /\ bios' = bios + 1 /\ mine' = made + 1
               /\ bpc' = (IF op = "WRITE" THEN "writing" ELSE "reading")
               /\ UNCHANGED <<sector, owned, read_buffer, ret, disturbed>>
    BY <1>1
  <2> HIDE DEF r
  <2>2. DiskInv'
    BY <1>0, <1>r, <2>1, GiveTagKeeps
  <2>3. EarlyInv'
    BY <1>0, <1>r, <2>1, EarlyInductive
  <2>4. /\ made' = made + 1 /\ cur' = [cur EXCEPT ![g] = made + 1] /\ module' = module
        /\ moved' = [moved EXCEPT ![g] = 0] /\ req' = [req EXCEPT ![g] = r] /\ data' = data
    BY <2>1 DEF give_tag
  <2>5. OwnedBySteps'
    BY <1>0, <2>1, <2>4 DEF OwnedBySteps, Steps
  <2>6. /\ \A h \in Tags : Mine(h)' <=> h = g
        /\ req'[g] = r /\ moved'[g] = 0
    BY <1>0, <2>1, <2>4 DEF Mine, TypeOK, TagsOwned
  <2>7. /\ r.start = sector /\ r.nr = 1 /\ r.op = op
        /\ op = "WRITE" => r.buf[0] = Hello
    BY <1>b DEF r
  <2>8. Waits'
    BY <1>0, <2>1, <2>4, <2>6, <2>7 DEF Waits
  <2>9. ~Carried'
    BY <2>6 DEF Carried
  <2>10. HelloThere'
    BY <1>0, <2>1, <2>4, <2>9 DEF HelloThere
  <2> QED
    BY <2>2, <2>3, <2>5, <2>8, <2>10 DEF IInv, ClientInv
<1>2. CASE bpc' = "cleanup" /\ ret' = ENOMEM
           /\ UNCHANGED <<vars, sector, owned, bios, mine, read_buffer, disturbed>>
  <2>1. DiskInv' /\ EarlyInv'
    BY <1>0, <1>2 DEF vars, serving, DiskInv, TypeOK, HeldBySteps, TagsOwned, Served, EarlyInv, EarlyEndsBounded
  <2>2. ret' # 0
    BY <1>2 DEF ENOMEM
  <2>3. OwnedBySteps'
    BY <1>0, <1>2, <2>2 DEF OwnedBySteps, Steps, vars
  <2>4. Waits' /\ HelloThere'
    BY <1>0, <1>2, <2>2 DEF Waits, HelloThere, Mine, vars, serving
  <2> QED
    BY <2>1, <2>3, <2>4 DEF IInv, ClientInv
<1> QED
  BY <1>1, <1>2 DEF submit_custom_bio

(* The steps of the client.                                                *)
LEMMA ClientKeeps ==
  ASSUME IInv, Client
  PROVE  IInv'
<1>0. /\ OwnedBySteps /\ Waits /\ HelloThere /\ DiskInv /\ EarlyInv
  BY DEF IInv, ClientInv
<1>d. ASSUME UNCHANGED vars PROVE DiskInv' /\ EarlyInv'
  BY <1>0, <1>d DEF vars, serving, DiskInv, TypeOK, HeldBySteps, TagsOwned, Served, EarlyInv, EarlyEndsBounded
<1>1. CASE write_sector \/ read_sector
  BY <1>1, SubmitBioKeeps DEF write_sector, read_sector
<1>2. CASE blkdev_get_by_path
  <2>1. OwnedBySteps'
    BY <1>0, <1>2 DEF blkdev_get_by_path, OwnedBySteps, Steps, vars, ENXIO
  <2>2. Waits' /\ HelloThere'
    BY <1>0, <1>2 DEF blkdev_get_by_path, Waits, HelloThere, Mine, vars, serving, ENXIO
  <2> QED
    BY <1>2, <1>d, <2>1, <2>2 DEF IInv, ClientInv, blkdev_get_by_path
<1>3. CASE alloc_buffers
  <2>1. OwnedBySteps'
    BY <1>0, <1>3 DEF alloc_buffers, OwnedBySteps, Steps, vars, ENOMEM
  <2>2. Waits' /\ HelloThere'
    BY <1>0, <1>3 DEF alloc_buffers, Waits, HelloThere, Mine, vars, serving, ENOMEM
  <2> QED
    BY <1>3, <1>d, <2>1, <2>2 DEF IInv, ClientInv, alloc_buffers
<1>4. CASE bio_done
  <2>1. OwnedBySteps'
    BY <1>0, <1>4 DEF bio_done, OwnedBySteps, Steps, vars
  <2>2. Carried
    BY <1>4 DEF bio_done, Carried, Mine
  <2>3. Waits' /\ HelloThere'
    <3> HIDE DEF Carried
    <3>1. Waits'
      BY <1>0, <1>4 DEF bio_done, Waits, Mine, vars, serving, OwnedBySteps, DiskInv, TypeOK
    <3>2. HelloThere'
      BY <1>0, <1>4, <2>2 DEF bio_done, HelloThere, vars, serving
    <3> QED BY <3>1, <3>2
  <2> QED
    BY <1>4, <1>d, <2>1, <2>3 DEF IInv, ClientInv, bio_done
<1>5. CASE cleanup
  <2>1. OwnedBySteps'
    BY <1>0, <1>5 DEF cleanup, OwnedBySteps, Steps, vars
  <2>2. Waits' /\ HelloThere'
    BY <1>0, <1>5 DEF cleanup, Waits, HelloThere, Mine, vars, serving
  <2> QED
    BY <1>5, <1>d, <2>1, <2>2 DEF IInv, ClientInv, cleanup
<1> QED
  BY <1>1, <1>2, <1>3, <1>4, <1>5 DEF Client

(* The strengthened invariant holds of the disk and its client together.   *)
THEOREM BioClientIInv == BioSpec => []IInv
<1>1. BioInit => IInv
  BY BioInitIInv
<1>2. ASSUME IInv, [BioNext]_<<vars, bio>> PROVE IInv'
  <2>1. CASE UNCHANGED <<vars, bio>>
    BY <1>2, <2>1 DEF vars, serving, bio, IInv, DiskInv, TypeOK, HeldBySteps, TagsOwned, Served,
       EarlyInv, EarlyEndsBounded, ClientInv, OwnedBySteps, Waits, HelloThere, Carried, Mine
  <2>2. CASE Client
    BY <1>2, <2>2, ClientKeeps
  <2>3. CASE Disk
    <3>1. DiskInv' /\ EarlyInv'
      BY <1>2, <2>3, DiskInductive, EarlyInductive DEF IInv, Disk
    <3> QED
      BY <1>2, <2>3, <3>1, DiskClient DEF IInv
  <2> QED
    BY <1>2, <2>1, <2>2, <2>3 DEF BioNext
<1> QED
  BY <1>1, <1>2, PTL DEF BioSpec

(* What the client wrote is what it reads back, on every disk that has its *)
(* sector, unless somebody else has written there; on one that has not it  *)
(* reports success with a buffer that nobody has filled (submit_bio_wait   *)
(* in src/src/bio/main.c, ramblock_process_request in src/src/bdev/main.c).*)
THEOREM ReadsBackTheorem == BioSpec => []ReadsBack
<1>1. IInv => ReadsBack
  BY DEF IInv, ClientInv, OwnedBySteps, HelloThere, ReadsBack
<1> QED
  BY <1>1, BioClientIInv, PTL

(* Each failure of ramblock_init, ramblock_exit and the client leave       *)
(* allocated exactly what Leaks says, and the open disk keeps its data.    *)
THEOREM LeaksTheorem == BioSpec => []Leaks
<1>1. IInv => Leaks
  BY DEF IInv, DiskInv, HeldBySteps, ClientInv, OwnedBySteps, Leaks
<1> QED
  BY <1>1, BioClientIInv, PTL

(* No more requests are ended under the code that serves them than were    *)
(* refused: every end of somebody else's request is the second end of one  *)
(* that ramblock_process_request refused.                                  *)
THEOREM EarlyEndsTheorem == BioSpec => []EarlyEndsBounded
<1>1. IInv => EarlyEndsBounded
  BY DEF IInv, EarlyInv
<1> QED
  BY <1>1, BioClientIInv, PTL

(* The same of the disk alone, whoever its users are.                      *)
THEOREM DiskAloneTheorem == Spec => [](DiskInv /\ EarlyEndsBounded)
<1>1. Init => DiskInv /\ EarlyInv
  BY DiskInit
<1>2. ASSUME DiskInv, EarlyInv, [Next]_vars PROVE DiskInv' /\ EarlyInv'
  <2>1. CASE UNCHANGED vars
    BY <1>2, <2>1 DEF vars, serving, DiskInv, TypeOK, HeldBySteps, TagsOwned, Served, EarlyInv,
       EarlyEndsBounded
  <2>2. CASE Next
    BY <1>2, <2>2, DiskInductive, EarlyInductive
  <2> QED
    BY <1>2, <2>1, <2>2
<1>3. EarlyInv => EarlyEndsBounded
  BY DEF EarlyInv
<1> QED
  BY <1>1, <1>2, <1>3, PTL DEF Spec
=============================================================================
