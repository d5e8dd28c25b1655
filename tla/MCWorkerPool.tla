---------------------------- MODULE MCWorkerPool ----------------------------
(***************************************************************************)
(* WorkerPool with a handful of clients: an embedding read, plain and      *)
(* embedding writes, a text search and a compat read, which mutates.       *)
(***************************************************************************)
EXTENDS WorkerPool

CONSTANTS search, ask, put, putEmbed, compatRead
=============================================================================
