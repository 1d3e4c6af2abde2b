------------------------------ MODULE MCIntake ------------------------------
(* Instances of Intake for TLC: what the customer may write. *)
EXTENDS Intake, TLC

Everything == Text("text", Facts)
TradeOnly == Text("text", {"trade"})
NoFact == Text("text", {})

AllPhrases ==
    {Text("trivial", {}), Text("yes", {}), Text("contacts", {}), Everything}

Direct == {Text("yes", {}), Everything}

Vague == {TradeOnly, NoFact}

Symmetry == Permutations(Workers)

AnyModel == BOOLEAN
ModelWorks == {TRUE}
ModelDown == {FALSE}

=============================================================================
