---------------------------- MODULE MCThreadPool -----------------------------
(* The constants of ThreadPool are numbers, which the .cfg files give.     *)
EXTENDS ThreadPool
=============================================================================
