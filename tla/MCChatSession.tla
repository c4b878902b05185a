--------------------------- MODULE MCChatSession ----------------------------
(***************************************************************************)
(* Values for the constants of ChatSession, for model checking.            *)
(***************************************************************************)
EXTENDS ChatSession, TLC

Symmetry == Permutations(Turns) \cup Permutations(Workers)
                \cup Permutations(Sessions)

=============================================================================
