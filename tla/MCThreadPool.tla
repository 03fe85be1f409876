---------------------------- MODULE MCThreadPool ----------------------------
(****************************************************************************)
(* Two workers, the libevent thread as the only outside submitter, and      *)
(* enough tasks for a backlog while both workers are busy.                  *)
(****************************************************************************)
EXTENDS ThreadPool
=============================================================================
