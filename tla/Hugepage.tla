------------------------------- MODULE Hugepage -------------------------------
(***************************************************************************)
(* The huge-page slab allocator of the user-space memory driver           *)
(* (qae_mem_hugepage_utils.c): init_hugepages reads the number of huge    *)
(* pages the process may map; hugepage_alloc_slab maps one, backed by a   *)
(* temporary file in /dev/hugepages whose descriptor is kept in the slab  *)
(* header, and takes it from g_num_hugepages; hugepage_free_slab gives it *)
(* back and closes the descriptor.                                        *)
(*                                                                         *)
(* Slab and descriptor ids are the number of the allocation attempt that  *)
(* created them.  The callers (the NUMA allocator) serialise the calls    *)
(* and free only slabs they hold.  Failures is the set of system calls    *)
(* the environment may make fail.                                         *)
(***************************************************************************)
EXTENDS Naturals, FiniteSets

CONSTANTS
  NumHpt,      \* the largest count DEV_MEM_IOC_GET_NUM_HPT may report
  MaxAllocs,   \* bound on allocation attempts
  Failures     \* the failing calls the environment may choose

ASSUME Failures \subseteq {"mkstemp", "mmap", "madvise", "open",
                           "lseek", "read"}

VARIABLES
  g_num_hugepages,      \* huge pages the process may still map
  g_hugepages_enabled,  \* hugepage_enabled()
  initDone,             \* init_hugepages has run
  attempts,             \* allocation attempts so far
  fds,                  \* open huge-page file descriptors
  live                  \* slabs allocated and not yet freed

vars == <<g_num_hugepages, g_hugepages_enabled, initDone, attempts, fds, live>>

Init ==
  /\ g_num_hugepages = 0
  /\ g_hugepages_enabled = FALSE
  /\ initDone = FALSE
  /\ attempts = 0
  /\ fds = {}
  /\ live = {}

(* init_hugepages: the ioctl reports the page count, or fails and the   *)
(* count is set to 0 (the n = 0 case); huge pages are enabled when the   *)
(* count is nonzero.                                                     *)
InitHugepages ==
  /\ ~initDone
  /\ \E n \in 0..NumHpt :
       /\ g_num_hugepages' = n
       /\ g_hugepages_enabled' = (n > 0)
  /\ initDone' = TRUE
  /\ UNCHANGED <<attempts, fds, live>>

(* How hugepage_mmap_phy_addr ends: mkstemp fails (no descriptor), mmap   *)
(* or madvise fails (the descriptor stays open), or the page is mapped.   *)
HugepageMmapPhyAddr ==
  {"mapped"} \cup ({"mkstemp", "mmap", "madvise"} \cap Failures)

(* How hugepage_virt2phy ends: opening, seeking or reading the pagemap   *)
(* fails and 0 is returned (its own descriptor is closed), or it returns *)
(* the physical address.                                                 *)
HugepageVirt2phy ==
  {"phys"} \cup ({"open", "lseek", "read"} \cap Failures)

(***************************************************************************)
(* hugepage_alloc_slab: refused when no huge page is left; otherwise the  *)
(* page is mapped and its physical address looked up.  When virt2phy     *)
(* fails the page is unmapped; only a success takes a page from           *)
(* g_num_hugepages.  Every path after mkstemp keeps the descriptor open.  *)
(***************************************************************************)
HugepageAllocSlab ==
  /\ attempts < MaxAllocs
  /\ attempts' = attempts + 1
  /\ LET s == attempts + 1 IN
     IF g_num_hugepages = 0
       THEN UNCHANGED <<g_num_hugepages, fds, live>>
       ELSE \E m \in HugepageMmapPhyAddr, v \in HugepageVirt2phy :
              /\ fds' = IF m = "mkstemp" THEN fds ELSE fds \cup {s}
              /\ IF m = "mapped" /\ v = "phys"
                   THEN /\ live' = live \cup {s}
                        /\ g_num_hugepages' = g_num_hugepages - 1
                   ELSE UNCHANGED <<live, g_num_hugepages>>
  /\ UNCHANGED <<g_hugepages_enabled, initDone>>

(* hugepage_free_slab: the page is given back and its descriptor closed. *)
HugepageFreeSlab ==
  /\ \E s \in live :
       /\ g_num_hugepages' = g_num_hugepages + 1
       /\ fds' = fds \ {s}
       /\ live' = live \ {s}
  /\ UNCHANGED <<g_hugepages_enabled, initDone, attempts>>

(* The process has made its last allocation and holds no slab. *)
Terminated == attempts = MaxAllocs /\ live = {} /\ UNCHANGED vars

Next ==
  \/ InitHugepages \/ HugepageAllocSlab \/ HugepageFreeSlab \/ Terminated

Spec == Init /\ [][Next]_vars

-----------------------------------------------------------------------------

TypeOK ==
  /\ g_num_hugepages \in 0..NumHpt
  /\ g_hugepages_enabled \in BOOLEAN
  /\ initDone \in BOOLEAN
  /\ attempts \in 0..MaxAllocs
  /\ fds \subseteq 1..MaxAllocs
  /\ live \subseteq fds

(***************************************************************************)
(* Every open huge-page descriptor belongs to a slab the caller holds, so *)
(* freeing every slab closes every descriptor the allocator opened and a *)
(* long-running process does not run out of descriptors.  About the      *)
(* failure exits of hugepage_mmap_phy_addr and hugepage_alloc_slab.       *)
(***************************************************************************)
DescriptorsOwned == fds \subseteq live

=============================================================================
