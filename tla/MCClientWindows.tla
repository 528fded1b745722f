--------------------------- MODULE MCClientWindows ---------------------------
(***************************************************************************)
(* The main window and the panels a configuration names: the log, whose    *)
(* view is kept in step, and the sidebar, which has none.                  *)
(***************************************************************************)
EXTENDS ClientWindows

CONSTANTS main, log, sidebar, v0, v1
=============================================================================
