----------------------------- MODULE MCDeskSearch -----------------------------
(* Two lookups, and up to two requests under way at once.                  *)
EXTENDS DeskSearch

CONSTANTS l1, l2
=============================================================================
