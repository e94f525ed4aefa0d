------------------------------ MODULE MCWatch ------------------------------
(* Instances of Watch. *)
EXTENDS Watch

None == [ok |-> FALSE, d |-> 0]
F(type) == [type |-> type, duration |-> None, min |-> None, max |-> None, rate |-> 0, limit |-> 0]
R(name, kinds, counter, fault) ==
  [name |-> name, kinds |-> kinds, glob |-> "", attrs |-> {},
   counter |-> [type |-> counter, n |-> 1, from |-> 0, to |-> 0, p |-> 0],
   faults |-> <<F(fault)>>, stages |-> << >>]
Safe(name)    == R(name, <<"sql">>, "", "error")
Parsed(list)  == [ok |-> TRUE, specs |-> list]

A         == Parsed(<<Safe("a"), Safe("")>>)
B         == Parsed(<<Safe("b")>>)
Malformed == [ok |-> FALSE, specs |-> << >>]
HalfBad   == Parsed(<<Safe("c"), R("d", <<"sql">>, "poisson", "error")>>)
Twice     == Parsed(<<Safe("a"), Safe("a")>>)
Hazardous == Parsed(<<R("a", << >>, "", "panic")>>)

GoodAndBad == {B, HalfBad}
OneGood    == {B}
Starts     == {A, Malformed, Hazardous, Twice}
=============================================================================
