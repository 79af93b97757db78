--------------------------- MODULE MCMessageWizard ---------------------------
EXTENDS MessageWizard, TLC

CONSTANTS assembly, committees, left, right

MCRecipients == (assembly :> {1, 2}) @@ (committees :> {2})
MCExisting == (assembly :> {1, 2}) @@ (committees :> {1, 2})
MCChoosable == {<<1, 2>>}

(* The tabs are alike.                                                     *)
Tabs == Permutations(Tab)
=============================================================================
