----------------------------- MODULE MCLiveTabs ------------------------------
(* One meeting and one tab, with loads of its own beside the reloads.         *)
EXTENDS LiveTabs
==============================================================================
