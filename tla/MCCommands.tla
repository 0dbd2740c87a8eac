----------------------------- MODULE MCCommands -----------------------------
(* Three command ids over a cache of two results, two runs of the Forward,  *)
(* one or two previews of the operations that race each other.              *)
EXTENDS Commands, TLC

ClientMixes ==
    { [ops |-> {"host", "save"},    tokens |-> 1],
      [ops |-> {"host", "route"},   tokens |-> 1],
      [ops |-> {"route", "move"},   tokens |-> 1],
      [ops |-> {"route"},           tokens |-> 2],
      [ops |-> {"import"},          tokens |-> 2] }

IDSymmetry == Permutations(CommandIDs)

=============================================================================
