--------------------------- MODULE MCClientRecords ---------------------------
(* Instance of ClientRecords for TLC: nothing distinguishes one company, one *)
(* newcomer or one worker from another.                                      *)
EXTENDS ClientRecords, TLC

AllPayloads == SUBSET {"phone", "owner", "status"}

Symmetry == Permutations(Ids) \cup Permutations(Phones) \cup Permutations(Statuses)
                \cup Permutations(Workers) \cup Permutations(Staff \ Legacy)
                \cup Permutations(Companies)
=============================================================================
