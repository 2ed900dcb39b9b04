----------------------------- MODULE MCRetention -----------------------------
(* Small instances of Retention: up to ten lines, with times a text, a       *)
(* number of seconds or of milliseconds, none, or under the second key.     *)
EXTENDS Retention, TLC

CONSTANTS f1, f2

TwoFiles == {f1, f2}
Keys     == <<"time", "ts">>

Text(n)   == [type |-> "text", at |-> n]
Number(n) == [type |-> "number", at |-> n]
Other     == [type |-> "other"]
Object(o) == [kind |-> "object", obj |-> o]

T1 == Object("time" :> Text(1))
T2 == Object("time" :> Number(2))
T3 == Object("time" :> Other @@ "ts" :> Number(30))
T5 == Object("time" :> Text(5) @@ "ts" :> Text(1))
U  == Object("time" :> Other)
B  == [kind |-> "blank"]
J  == [kind |-> "junk"]

SomeContents == {<<T1, T1, T2, T3, T5>>, <<T5, J, U, B, T3>>, <<U, U, T2, U>>,
                 <<T3, T3, T3, T3>>, <<T2, T5>>}
Symmetry     == Permutations(Files)
==============================================================================
