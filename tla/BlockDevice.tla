---------------------------- MODULE BlockDevice ----------------------------
(***************************************************************************)
(* block_device: a kernel module with one small disk.  Loading acquires    *)
(* its resources one by one and each of them may fail; then, or when the   *)
(* module is removed, blkdev_remove_device() gives back what there is, in  *)
(* an order of its own, while the block layer may still run requests.      *)
(*                                                                         *)
(* A request is handled by _queue_rq() on the CPU that issues it, several  *)
(* at a time: nothing serialises the accesses to device_write_counter.     *)
(* A write of "hello" counts, a read is answered by "Hi!" while the        *)
(* counter is not 0 and counts back.                                       *)
(***************************************************************************)
EXTENDS Integers, Sequences, FiniteSets, SequencesExt

CONSTANTS
  Cpus,
  Capacity,    \* sectors of the disk (_blkdev_buffer_size >> SECTOR_SHIFT)
  Segments,    \* segments of a request: [hello : BOOLEAN, len : sectors]
  MaxSegments, \* bound of the model: segments of one request
  CounterMod,  \* 2^16: the counter is an unsigned short
  MaxRequests, \* bound of the model: requests per load
  MaxLoads     \* bound of the model: how often the module is loaded

ASSUME BlockAssumption ==
  /\ Capacity \in Nat \ {0}
  /\ Segments \subseteq [hello : BOOLEAN, len : 1..Capacity]
  /\ CounterMod \in Nat \ {0}
  /\ MaxSegments \in Nat /\ MaxRequests \in Nat /\ MaxLoads \in Nat

VARIABLES
  phase,    \* what insmod or rmmod is doing
  has,      \* the resources that are held
  data,     \* dev->data by sectors
  counter,  \* device_write_counter
  cpc,      \* where each CPU is in _queue_rq()
  rq,       \* the request of each CPU: direction, sector, segments left
  reg,      \* the counter value a CPU has read
  loads, requests,  \* how many there were
  hellos, greets,   \* history: "hello" segments stored, "Hi!" answers given
  raced             \* history: two requests of this load were under way at once

modVars == <<phase, has, loads>>
ioVars == <<data, counter, cpc, rq, reg, requests, hellos, greets, raced>>
vars == <<modVars, ioVars>>

Requests ==
  {[write |-> d, pos |-> p, segs |-> s] :
     d \in BOOLEAN, p \in 0..(Capacity - 1),
     s \in UNION {[1..n -> Segments] : n \in 1..MaxSegments}}

NoRequest == [write |-> FALSE, pos |-> 0, segs |-> <<>>]

Quiet == \A c \in Cpus : cpc[c] = "idle"

Init ==
  /\ phase = "out"
  /\ has = {}
  /\ data = [s \in 0..(Capacity - 1) |-> "junk"]
  /\ counter = 0
  /\ cpc = [c \in Cpus |-> "idle"]
  /\ rq = [c \in Cpus |-> NoRequest]
  /\ reg = [c \in Cpus |-> 0]
  /\ loads = 0 /\ requests = 0 /\ hellos = 0 /\ greets = 0
  /\ raced = FALSE
----------------------------------------------------------------------------
(* blkdev_init() and blkdev_exit() *)

\* The order in which blkdev_init() and blkdev_add_device() acquire; "live"
\* is add_disk().
LoadOrder == <<"major", "dev", "buffer", "tags", "queue", "disk", "live">>

\* An order that frees the buffer before the queue is drained.
RemoveOrderSoon == <<"live", "buffer", "queue", "tags", "disk", "dev">>

\* The order of blkdev_remove_device(); "live" is del_gendisk().
RemoveOrder == <<"live", "queue", "tags", "disk", "buffer", "dev">>

\* insmod: the module's static data is new.
Insmod ==
  /\ phase = "out"
  /\ loads < MaxLoads
  /\ phase' = "loading"
  /\ loads' = loads + 1
  /\ data' = [s \in 0..(Capacity - 1) |-> "junk"]
  /\ counter' = 0 /\ requests' = 0 /\ hellos' = 0 /\ greets' = 0
  /\ raced' = FALSE
  /\ UNCHANGED <<has, cpc, rq, reg>>

\* The next call of the load succeeds; after add_disk() there is none.
Acquire ==
  /\ phase = "loading"
  /\ LET r == LoadOrder[Cardinality(has) + 1]
     IN  /\ has' = has \cup {r}
         /\ phase' = IF r = "live" THEN "loaded" ELSE "loading"
  /\ UNCHANGED <<loads, ioVars>>

\* It fails.  Without a major number there is nothing to give back; without
\* the device structure blkdev_add_device() returns at once.
AcquireFails ==
  /\ phase = "loading"
  /\ "disk" \notin has
  /\ phase' = CASE has = {} -> "out"
                [] has = {"major"} -> "unregister"
                [] OTHER -> "removing"
  /\ UNCHANGED <<has, loads, ioVars>>

\* rmmod
Rmmod ==
  /\ phase = "loaded"
  /\ phase' = "removing"
  /\ UNCHANGED <<has, loads, ioVars>>

\* blkdev_remove_device(): what is not there is skipped, and
\* blk_cleanup_queue() waits for the requests under way.
ReleaseNext ==
  /\ phase = "removing"
  /\ \E i \in 1..Len(RemoveOrder) :
       /\ RemoveOrder[i] \in has
       /\ \A j \in 1..(i - 1) : RemoveOrder[j] \notin has
       /\ RemoveOrder[i] = "queue" => Quiet
       /\ has' = has \ {RemoveOrder[i]}
       /\ phase' = IF i = Len(RemoveOrder) THEN "unregister" ELSE phase
  /\ UNCHANGED <<loads, ioVars>>

\* A module that leaves the major number behind when the load has failed.
UnregisterNot ==
  /\ phase = "unregister"
  /\ phase' = "out"
  /\ UNCHANGED <<has, loads, ioVars>>

\* unregister_blkdev(), after a failed load and at the end of blkdev_exit().
Unregister ==
  /\ phase = "unregister"
  /\ has' = has \ {"major"}
  /\ phase' = "out"
  /\ UNCHANGED <<loads, ioVars>>

ModuleNext ==
  Insmod \/ Acquire \/ AcquireFails \/ Rmmod \/ ReleaseNext \/ Unregister
----------------------------------------------------------------------------
(* _queue_rq() and do_simple_request() *)

SectorsOf(segs) == FoldSeq(LAMBDA s, n : s.len + n, 0, segs)

\* The block layer issues a request for sectors of the disk, from add_disk()
\* to del_gendisk().
Submit(c, r) ==
  /\ "live" \in has
  /\ cpc[c] = "idle"
  /\ requests < MaxRequests
  /\ r.pos + SectorsOf(r.segs) <= Capacity
  /\ requests' = requests + 1
  /\ rq' = [rq EXCEPT ![c] = r]
  /\ cpc' = [cpc EXCEPT ![c] = "segment"]
  /\ raced' = (raced \/ ~Quiet)
  /\ UNCHANGED <<modVars, data, counter, reg, hellos, greets>>

\* One round of rq_for_each_segment() up to the access to the counter.  All
\* segments are stored at the request's position: pos is not advanced.
Segment(c) ==
  LET r == rq[c]
      s == Head(r.segs)
      end == IF r.pos + s.len > Capacity THEN Capacity ELSE r.pos + s.len
      counts == IF r.write THEN s.hello ELSE counter # 0
  IN  /\ cpc[c] = "segment"
      /\ r.segs # <<>>
      /\ data' = IF r.write /\ s.hello
                 THEN [i \in DOMAIN data |-> IF i \in r.pos..(end - 1) THEN "hello" ELSE data[i]]
                 ELSE data
      /\ hellos' = IF r.write /\ counts THEN hellos + 1 ELSE hellos
      /\ greets' = IF ~r.write /\ counts THEN greets + 1 ELSE greets
      /\ IF counts
         THEN cpc' = [cpc EXCEPT ![c] = "fetch"] /\ UNCHANGED rq
         ELSE rq' = [rq EXCEPT ![c].segs = Tail(@)] /\ UNCHANGED cpc
      /\ UNCHANGED <<modVars, counter, reg, requests, raced>>

\* device_write_counter++ or --, in two accesses.
Fetch(c) ==
  /\ cpc[c] = "fetch"
  /\ reg' = [reg EXCEPT ![c] = counter]
  /\ cpc' = [cpc EXCEPT ![c] = "store"]
  /\ UNCHANGED <<modVars, data, counter, rq, requests, hellos, greets, raced>>

\* A read that does not count back.
StoreNot(c) ==
  /\ cpc[c] = "store"
  /\ counter' = IF rq[c].write THEN (reg[c] + 1) % CounterMod ELSE counter
  /\ rq' = [rq EXCEPT ![c].segs = Tail(@)]
  /\ cpc' = [cpc EXCEPT ![c] = "segment"]
  /\ UNCHANGED <<modVars, data, reg, requests, hellos, greets, raced>>

Store(c) ==
  /\ cpc[c] = "store"
  /\ counter' = (IF rq[c].write THEN reg[c] + 1 ELSE reg[c] - 1) % CounterMod
  /\ rq' = [rq EXCEPT ![c].segs = Tail(@)]
  /\ cpc' = [cpc EXCEPT ![c] = "segment"]
  /\ UNCHANGED <<modVars, data, reg, requests, hellos, greets, raced>>

\* A _queue_rq() that does not end its request.
EndRequestNot(c) ==
  /\ cpc[c] = "segment"
  /\ rq[c].segs = <<>>
  /\ UNCHANGED vars

\* blk_mq_end_request()
EndRequest(c) ==
  /\ cpc[c] = "segment"
  /\ rq[c].segs = <<>>
  /\ rq' = [rq EXCEPT ![c] = NoRequest]
  /\ cpc' = [cpc EXCEPT ![c] = "idle"]
  /\ UNCHANGED <<modVars, data, counter, reg, requests, hellos, greets, raced>>

_queue_rq(c) == Segment(c) \/ Fetch(c) \/ Store(c) \/ EndRequest(c)

Next ==
  \/ ModuleNext
  \/ \E c \in Cpus : _queue_rq(c) \/ \E r \in Requests : Submit(c, r)

Spec == Init /\ [][Next]_vars

\* The kernel runs the handlers to their end; nobody has to load, remove or
\* use the module.
Fairness ==
  /\ WF_vars(ReleaseNext)
  /\ WF_vars(Unregister)
  /\ \A c \in Cpus : WF_vars(_queue_rq(c))

FairSpec == Spec /\ Fairness
----------------------------------------------------------------------------
\* Types: no request leaves the disk's sectors, and the counter stays within
\* its unsigned short over all increments and decrements (main.c:45).
TypeOK ==
  /\ phase \in {"out", "loading", "loaded", "removing", "unregister"}
  /\ has \subseteq {LoadOrder[i] : i \in 1..Len(LoadOrder)}
  /\ data \in [0..(Capacity - 1) -> {"junk", "hello"}]
  /\ counter \in 0..(CounterMod - 1)
  /\ cpc \in [Cpus -> {"idle", "segment", "fetch", "store"}]
  /\ reg \in [Cpus -> 0..(CounterMod - 1)]

\* A request under way finds the buffer, the queue and the device structure
\* it uses (main.c:102,122), although the module may be on its way out: they
\* are given back only behind blk_cleanup_queue() (main.c:76,89,91).
RequestsSafe ==
  ~Quiet => {"dev", "buffer", "tags", "queue", "disk"} \subseteq has

\* Nothing stays behind, however far a load got before it failed and after
\* every removal; and what is removed is not there twice (main.c:236-259).
NothingLeaks ==
  /\ phase = "out" => has = {} /\ Quiet
  /\ phase = "unregister" => has = {"major"}
  /\ phase = "loaded" => Cardinality(has) = Len(LoadOrder)

\* As long as the requests of a load come one after the other, the counter is
\* the number of "hello"s not answered yet, modulo 2^16, and no "Hi!" is
\* given that was not earned, not even behind an overflow.
AloneCounts ==
  ~raced =>
    /\ greets <= hellos
    /\ Quiet => counter = (hellos - greets) % CounterMod

\* A removal comes to its end: blk_cleanup_queue() does not wait for ever.
RemovalEnds == phase = "removing" ~> phase = "out"
============================================================================
