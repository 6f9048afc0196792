------------------------------- MODULE MCBoards -------------------------------
(* Two commands beside the two loops, on pages of one player.               *)
EXTENDS Boards

MCSetups == {{"event"}, {"status"}, {"guild"}}
=============================================================================
