---------------------------- MODULE MCRunJournal ----------------------------
(***************************************************************************)
(* Instance of RunJournal for TLC.                                         *)
(***************************************************************************)
EXTENDS RunJournal

\* Both kinds of hook on either side of a plug-in without any.
ThreePlugins == <<{"pre_run", "post_run"}, {}, {"pre_run", "post_run"}>>
=============================================================================
