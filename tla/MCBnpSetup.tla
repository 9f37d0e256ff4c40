------------------------------ MODULE MCBnpSetup ------------------------------
(* BnpSetup with every failure point of the worker thread enabled; the   *)
(* semaphore initialisation has none.                                    *)
EXTENDS BnpSetup, Functions

MCAllFaults ==
  ({s.name : s \in Range(ThreadSteps) \cup Range(PreSteps)} \ {"sem_init"})
  \cup {"meta_t", "dst_alloc", "cmp_alloc", "pcmp_alloc", "seed_alloc"}
  \cup {"perform_node", "total_size", "job_meta", "create_src", "fill",
        "submit", "job_error", "meta_t_other"}

=============================================================================
