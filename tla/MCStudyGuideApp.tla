-------------------------- MODULE MCStudyGuideApp ---------------------------
(* Three generations, two threads, two texts that pass and one that fails. *)
EXTENDS StudyGuideApp
=============================================================================
