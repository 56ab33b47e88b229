------------------------------ MODULE MCConfig ------------------------------
(* Two valid names and an invalid one; text "1" converts for both types,   *)
(* text "x" for one of them only.                                          *)
EXTENDS Config, TLC

MCCast == ("int" :> ("1" :> 1 @@ "x" :> Null)) @@ ("str" :> ("1" :> 1 @@ "x" :> 0))
Node(n, x) == [name |-> n, text |-> x]
MCFiles == { <<Node("a", "x"), Node("A.b", "1"), Node("a", "1"), Node("a.b", "x")>> }
=============================================================================
