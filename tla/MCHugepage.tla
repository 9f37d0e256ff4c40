------------------------------ MODULE MCHugepage ------------------------------
(* Two huge pages and three allocation attempts: enough to exhaust the    *)
(* pages, free one and allocate again, with every system call able to    *)
(* fail.                                                                  *)
EXTENDS Hugepage

MCFailures == {"mkstemp", "mmap", "madvise", "open", "lseek", "read"}
=============================================================================
