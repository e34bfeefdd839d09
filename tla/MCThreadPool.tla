----------------------------- MODULE MCThreadPool -----------------------------
(***************************************************************************)
(* ThreadPool for TLC.  A pool of one thread may Wait again and again; of  *)
(* several threads one Wait is right and the second is not.                *)
(***************************************************************************)
EXTENDS ThreadPool

MCWaits == <<3, 1, 1>>

MCTwoWaits == <<0, 2>>

=============================================================================
