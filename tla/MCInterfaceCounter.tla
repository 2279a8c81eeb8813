------------------------- MODULE MCInterfaceCounter -------------------------
(* Instances of InterfaceCounter: a program of one thread and one of two. *)
EXTENDS InterfaceCounter, TLC

(* One thread, three names; a and b have the last slot for their home. *)
OneUses == [t \in {"main"} |-> {"a", "b", "c"}]
OneHome == "a" :> 3 @@ "b" :> 3 @@ "c" :> 0

(* Both threads call a; c is the main thread's own, and b, which collides *)
(* with a, the other's, which calls either a or, once, b.                  *)
TwoUses == "main" :> {"a", "c"} @@ "other" :> {"a", "b"}

TwoHome == "a" :> 7 @@ "b" :> 7 @@ "c" :> 3

OneOfTwo == calls["other"] \in {<<>>, <<"a">>, <<"a", "a">>, <<"b">>}
=============================================================================
