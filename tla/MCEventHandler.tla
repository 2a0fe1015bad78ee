--------------------------- MODULE MCEventHandler ---------------------------
(***************************************************************************)
(* TLC instances of EventHandler.                                          *)
(***************************************************************************)
EXTENDS EventHandler, TLC

\* Two versions of the block of one slot.
MCOneSlot == <<1, 1>> :> RootBlock @@ <<1, 2>> :> RootBlock

\* A window of two slots.
MCOneWindow == <<2, 1>> :> RootBlock @@ <<3, 1>> :> <<2, 1>>

\* The first two blocks of the window 3, 4, 5.
MCLongWindow == <<3, 1>> :> RootBlock @@ <<4, 1>> :> <<3, 1>>

\* A window whose leader stops after its first block.
MCHalfWindow == <<2, 1>> :> RootBlock
=============================================================================
