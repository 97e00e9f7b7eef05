------------------------------ MODULE RamBlock ------------------------------
(***************************************************************************)
(* The RAM block device of src/src/bdev/main.c: how it is set up and torn  *)
(* down, and how ramblock_process_request serves the requests of the block *)
(* layer, several at a time.                                               *)
(*                                                                         *)
(* The block layer is modelled from how the code uses it: a request lives  *)
(* in a tag until blk_mq_end_request, after which the tag may be given to  *)
(* another request; when queue_rq returns an error the block layer ends    *)
(* the request itself.  ramblock_process_request does both for a request   *)
(* it refuses.  Positions are counted in sectors, a segment is a sector,   *)
(* and the byte offset, an unsigned int, wraps after UINT_SECTORS.         *)
(***************************************************************************)
EXTENDS Integers, FiniteSets

CONSTANTS
  Tags,          \* tags of tag_set (128 in the source)
  CAPACITY,      \* sectors of the disk (RAMBLOCK_SIZE / 512)
  UINT_SECTORS,  \* sectors whose byte offset is an unsigned int (2^32 / 512)
  Values,        \* contents of a sector, 0 among them
  Starts,        \* bound: the first sectors that requests name
  Lengths        \* bound: their numbers of sectors

ASSUME RamBlockAssumption ==
  /\ CAPACITY \in Nat \ {0}
  /\ UINT_SECTORS \in Nat /\ UINT_SECTORS >= CAPACITY
  /\ 0 \in Values
  /\ Starts \subseteq Nat /\ Lengths \subseteq Nat \ {0}

VARIABLES
  module,   \* "none", "data", "tags", "disk", "queue", "live", "gone"
  held,     \* what ramblock_init has allocated and nobody has freed
  data,     \* ramblock_data, by sector
  made,     \* requests submitted so far; a request is known by its number
  cur,      \* cur[g]: the request that tag g belongs to, 0 for none
  pc,       \* pc[g]: "free", "queued", "copy" or "fail"
  req,      \* req[g]: the request: op, start, nr, and the buffer's sectors
  moved,    \* moved[g]: segments copied so far
  again,    \* tags whose request queue_rq ended and also reported as failed
  refused,  \* requests that ramblock_process_request has refused
  early,    \* requests that were ended while they were being served
  oops      \* nothing more is specified: an unchecked vmalloc has failed, or a
            \* request has been ended under the code that serves it

serving == <<made, cur, pc, req, moved, again, refused, early>>
vars == <<module, held, data, serving, oops>>

Sectors == 0 .. CAPACITY - 1
NoRequest == [op |-> "none", start |-> 0, nr |-> 0, buf |-> << >>]

-----------------------------------------------------------------------------
(* ramblock_init: the data, the tag set, the disk with a queue of its own, *)
(* a second queue that takes its place, and the disk is added.  Each step  *)
(* may fail; add_disk's failure is not looked at.                          *)
Acquire(from, to, what, undone) ==
  /\ module = from
  /\ \/ module' = to /\ held' = held \cup what
     \/ module' = "gone" /\ held' = held \ undone
  /\ UNCHANGED <<data, serving, oops>>

vmalloc_data == Acquire("none", "data", {"data"}, {})
alloc_tag_set == Acquire("data", "tags", {"tag_set"}, {"data"})
alloc_disk == Acquire("tags", "disk", {"disk", "queue"}, {"tag_set", "data"})
init_queue == Acquire("disk", "queue", {"queue2"}, {"tag_set"})

add_disk ==
  /\ module = "queue"
  /\ module' = "live"
  /\ UNCHANGED <<held, data, serving, oops>>

(* ramblock_exit: del_gendisk waits for the requests; put_disk frees the   *)
(* disk with the queue that it has by now.                                 *)
ramblock_exit_keeps_data ==
  /\ module = "live"
  /\ \A g \in Tags : cur[g] = 0
  /\ module' = "gone"
  /\ held' = held \ {"disk", "queue2", "tag_set"}
  /\ UNCHANGED <<data, serving, oops>>
ramblock_exit ==
  /\ module = "live"
  /\ \A g \in Tags : cur[g] = 0
  /\ module' = "gone"
  /\ held' = held \ {"disk", "queue2", "tag_set", "data"}
  /\ UNCHANGED <<data, serving, oops>>

-----------------------------------------------------------------------------
(* The block layer gives a tag to a new request.                           *)
give_tag(g, r) ==
  /\ module = "live"
  /\ pc[g] = "free"
  /\ made' = made + 1
  /\ cur' = [cur EXCEPT ![g] = made + 1]
  /\ pc' = [pc EXCEPT ![g] = "queued"]
  /\ moved' = [moved EXCEPT ![g] = 0]
  /\ req' = [req EXCEPT ![g] = r]
  /\ UNCHANGED <<module, held, data, again, refused, early, oops>>

submit(g) ==
  \E o \in {"READ", "WRITE", "passthrough"}, s \in Starts, n \in Lengths :
  \E b \in [0 .. n - 1 -> IF o = "WRITE" THEN Values ELSE {0}] :
    give_tag(g, [op |-> o, start |-> s, nr |-> n, buf |-> b])

(* The two checks at the beginning of ramblock_process_request.            *)
in_capacity_start(r) == r.start % UINT_SECTORS =< CAPACITY
in_capacity(r) == r.start + r.nr =< CAPACITY

ramblock_process_request(g) ==
  /\ pc[g] = "queued"
  /\ pc' = [pc EXCEPT ![g] =
              IF in_capacity(req[g]) /\ req[g].op # "passthrough" THEN "copy" ELSE "fail"]
  /\ UNCHANGED <<module, held, data, made, cur, req, moved, again, refused, early, oops>>

(* One turn of rq_for_each_segment; offset is start_sector * 512 cut to an *)
(* unsigned int, and grows with the segments.                              *)
offset(g) == (req[g].start % UINT_SECTORS) + moved[g]

copy_segment(g) ==
  /\ pc[g] = "copy"
  /\ moved[g] < req[g].nr
  /\ \/ /\ offset(g) >= CAPACITY
        /\ pc' = [pc EXCEPT ![g] = "fail"]
        /\ UNCHANGED <<data, req, moved, oops>>
     \/ /\ offset(g) < CAPACITY
        /\ req' = IF req[g].op = "READ"
                  THEN [req EXCEPT ![g].buf[moved[g]] = data[offset(g)]] ELSE req
        /\ data' = IF req[g].op = "WRITE"
                   THEN [data EXCEPT ![offset(g)] = req[g].buf[moved[g]]] ELSE data
        /\ moved' = [moved EXCEPT ![g] = @ + 1]
        /\ oops' \in BOOLEAN
        /\ UNCHANGED pc
  /\ UNCHANGED <<module, held, made, cur, again, refused, early>>

Release(g) ==
  /\ pc' = [pc EXCEPT ![g] = "free"]
  /\ cur' = [cur EXCEPT ![g] = 0]
  /\ req' = [req EXCEPT ![g] = NoRequest]
  /\ moved' = [moved EXCEPT ![g] = 0]

(* blk_mq_end_request with BLK_STS_OK, which is also what is returned.     *)
end_request_returns_error(g) ==
  /\ pc[g] = "copy"
  /\ moved[g] = req[g].nr
  /\ Release(g)
  /\ again' = again \cup {g}
  /\ UNCHANGED <<module, held, data, made, refused, early, oops>>
end_request_too_late(g) ==
  /\ pc[g] = "copy"
  /\ moved[g] > req[g].nr
  /\ Release(g)
  /\ UNCHANGED <<module, held, data, made, again, refused, early, oops>>
end_request(g) ==
  /\ pc[g] = "copy"
  /\ moved[g] = req[g].nr
  /\ Release(g)
  /\ UNCHANGED <<module, held, data, made, again, refused, early, oops>>

(* blk_mq_end_request with an error, and the error is returned too.        *)
end_request_error(g) ==
  /\ pc[g] = "fail"
  /\ Release(g)
  /\ again' = again \cup {g}
  /\ refused' = refused + 1
  /\ UNCHANGED <<module, held, data, made, early, oops>>

(* The block layer ends the failed request.  If its tag belongs to another *)
(* request by now that one is ended, and its pages are given back while    *)
(* ramblock_process_request copies them.                                   *)
end_failed_request(g) ==
  /\ g \in again
  /\ again' = again \ {g}
  /\ early' = early \cup ({cur[g]} \ {0})
  /\ oops' = (cur[g] # 0)
  /\ UNCHANGED <<module, held, data, made, cur, pc, req, moved, refused>>

-----------------------------------------------------------------------------
Init ==
  /\ module = "none"
  /\ held = {}
  /\ data = [s \in Sectors |-> 0]
  /\ made = 0
  /\ cur = [g \in Tags |-> 0]
  /\ pc = [g \in Tags |-> "free"]
  /\ req = [g \in Tags |-> NoRequest]
  /\ moved = [g \in Tags |-> 0]
  /\ again = {}
  /\ refused = 0
  /\ early = {}
  /\ oops = FALSE

Setup == vmalloc_data \/ alloc_tag_set \/ alloc_disk \/ init_queue \/ add_disk

Serve(g) ==
  \/ ramblock_process_request(g) \/ copy_segment(g)
  \/ end_request(g) \/ end_request_error(g) \/ end_failed_request(g)

Next ==
  /\ ~oops
  /\ \/ Setup \/ ramblock_exit
     \/ \E g \in Tags : submit(g) \/ Serve(g)

Spec == Init /\ [][Next]_vars

-----------------------------------------------------------------------------
(* A request is ended by anybody else than the code that serves it only    *)
(* after another one was refused, and no more of them than were refused: a *)
(* device that refuses nothing ends every request once, when it is done.   *)
EarlyEndsBounded == Cardinality(early) + Cardinality(again) =< refused
=============================================================================
