----------------------------- MODULE BioClient -----------------------------
(***************************************************************************)
(* The module of src/src/bio/main.c at work on the RAM disk of RamBlock:   *)
(* while it is being loaded it opens the disk, writes a sector, reads it   *)
(* back and cleans up.  Each bio is waited for, and nobody looks at how it *)
(* ended.  Other users of the disk are not kept from submitting requests   *)
(* meanwhile.                                                              *)
(*                                                                         *)
(* An open disk holds a reference to the module of its driver.  The page   *)
(* of a bio is the client's buffer, so what a request reads is in          *)
(* read_buffer as soon as it is copied.                                    *)
(***************************************************************************)
EXTENDS RamBlock

CONSTANTS
  Hello,      \* the sector that strcpy puts into write_buffer
  BioStarts,  \* the sector that the client writes (2 in the source), on a
              \* disk that has it and on one that has not
  MaxOthers   \* bound: requests that others submit

ASSUME BioClientAssumption ==
  Hello \in Values /\ BioStarts \subseteq Nat /\ MaxOthers \in Nat

VARIABLES
  bpc,          \* what my_module_init does next
  sector,       \* the sector it uses
  owned,        \* the device and the buffers that it holds
  bios,         \* the bios that it has allocated; none is ever put
  mine,         \* the request made of its bio, 0 for none
  read_buffer,  \* the contents of read_buffer
  ret,          \* its result
  disturbed     \* somebody else has written to the sector since the client
                \* began to

bio == <<bpc, sector, owned, bios, mine, read_buffer, ret, disturbed>>

Junk == -1     \* whatever kmalloc leaves in a buffer
ENOMEM == -12
ENXIO == -6

BioInit ==
  /\ Init
  /\ bpc = "open"
  /\ sector \in BioStarts
  /\ owned = {}
  /\ bios = 0 /\ mine = 0
  /\ read_buffer = Junk
  /\ ret = 0
  /\ disturbed = FALSE

-----------------------------------------------------------------------------
(* blkdev_get_by_path: without the disk the module is not loaded.          *)
blkdev_get_by_path ==
  /\ bpc = "open"
  /\ \/ /\ module = "live"
        /\ bpc' = "alloc" /\ owned' = {"bdev"} /\ UNCHANGED ret
     \/ /\ bpc' = "done" /\ ret' = ENXIO /\ UNCHANGED owned
  /\ UNCHANGED <<vars, sector, bios, mine, read_buffer, disturbed>>

alloc_buffers ==
  /\ bpc = "alloc"
  /\ \E got \in SUBSET {"read_buffer", "write_buffer"} :
       /\ owned' = owned \cup got
       /\ \/ Cardinality(got) = 2 /\ bpc' = "write" /\ UNCHANGED ret
          \/ Cardinality(got) < 2 /\ bpc' = "cleanup" /\ ret' = ENOMEM
  /\ UNCHANGED <<vars, sector, bios, mine, read_buffer, disturbed>>

(* submit_custom_bio up to the wait in submit_bio_wait.                    *)
submit_custom_bio(op) ==
  \/ /\ \E g \in Tags :
          give_tag(g, [op |-> op, start |-> sector, nr |-> 1,
                       buf |-> [i \in {0} |-> IF op = "WRITE" THEN Hello ELSE 0]])
     /\ bios' = bios + 1
     /\ mine' = made + 1
     /\ bpc' = IF op = "WRITE" THEN "writing" ELSE "reading"
     /\ UNCHANGED <<sector, owned, read_buffer, ret, disturbed>>
  \/ /\ bpc' = "cleanup"
     /\ ret' = ENOMEM
     /\ UNCHANGED <<vars, sector, owned, bios, mine, read_buffer, disturbed>>

write_sector == bpc = "write" /\ submit_custom_bio("WRITE")
read_sector == bpc = "read" /\ submit_custom_bio("READ")

(* submit_bio_wait returns; its status is not looked at.                   *)
bio_done ==
  /\ bpc \in {"writing", "reading"}
  /\ \A g \in Tags : cur[g] # mine
  /\ bpc' = IF bpc = "writing" THEN "read" ELSE "cleanup"
  /\ mine' = 0
  /\ UNCHANGED <<vars, sector, owned, bios, read_buffer, ret, disturbed>>

cleanup ==
  /\ bpc = "cleanup"
  /\ bpc' = "done"
  /\ owned' = {}
  /\ UNCHANGED <<vars, sector, bios, mine, read_buffer, ret, disturbed>>

Client ==
  \/ blkdev_get_by_path \/ alloc_buffers \/ write_sector \/ read_sector
  \/ bio_done \/ cleanup

-----------------------------------------------------------------------------
(* A step of the disk: what it copies for the client arrives in            *)
(* read_buffer, and a write of somebody else to the sector is noted.       *)
Copies(g) == moved'[g] = moved[g] + 1
Disk ==
  /\ Next
  /\ "bdev" \in owned => module' = module
  /\ made' - bios =< MaxOthers
  /\ read_buffer' =
       IF \E g \in Tags : cur[g] = mine /\ Copies(g) /\ req[g].op = "READ"
       THEN data[sector] ELSE read_buffer
  /\ disturbed' =
       (\/ disturbed
        \/ /\ bpc \in {"writing", "read", "reading"}
           /\ \E g \in Tags : /\ cur[g] # mine
                              /\ Copies(g) /\ req[g].op = "WRITE"
                              /\ req[g].start + moved[g] = sector)
  /\ UNCHANGED <<bpc, sector, owned, bios, mine, ret>>

BioNext == ~oops /\ (Client \/ Disk)

BioSpec == BioInit /\ [][BioNext]_<<vars, bio>>

(* Under BioFairSpec: insmod is scheduled, and the hardware queue is run   *)
(* until it is empty.                                                      *)
BioFairSpec ==
  /\ BioSpec
  /\ WF_<<vars, bio>>(~oops /\ Client)
  /\ \A g \in Tags : WF_<<vars, bio>>(~oops /\ Serve(g) /\ Disk)

-----------------------------------------------------------------------------
(* What the client reports when it has succeeded: on a disk that has the   *)
(* sector it reads back what it wrote, unless somebody else has written to *)
(* this sector (no request ever touches a sector that it does not name,    *)
(* also beyond the 4 GiB where the byte offset wraps around); on a disk    *)
(* that has not, it reports success with a buffer nobody has filled.       *)
ReadsBack ==
  bpc = "done" /\ ret = 0 /\ ~disturbed =>
    read_buffer = IF sector < CAPACITY THEN Hello ELSE Junk

(* What remains allocated.  RamBlock: nothing if the first steps of        *)
(* ramblock_init fail; the disk, its queue and the data if the second      *)
(* queue cannot be made; after ramblock_exit the first queue.  The client  *)
(* gives back the disk and both buffers on every way out, and none of its  *)
(* bios: two if it succeeds.  The disk never goes away while it is open.   *)
Leaks ==
  /\ module = "gone" => held \in {{}, {"disk", "queue", "data"}, {"queue"}}
  /\ bpc = "done" => owned = {} /\ (ret = 0 => bios = 2)
  /\ "bdev" \in owned => "data" \in held

(* Under BioFairSpec: every request is ended, and so is the client.        *)
RequestsEnd ==
  /\ \A g \in Tags : cur[g] # 0 ~> (cur[g] = 0 \/ oops)
  /\ bpc = "writing" ~> (bpc = "done" \/ oops)
=============================================================================
