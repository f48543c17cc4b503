---------------------------- MODULE MCThreadPool ----------------------------
(***************************************************************************)
(* ThreadPool with one initial thread, room for one more, and more tasks   *)
(* than threads.                                                           *)
(***************************************************************************)
EXTENDS ThreadPool

=============================================================================
