---------------------------- MODULE MCInstrument ----------------------------
(* Instrument over fns with one or two attributes and all small bodies, and  *)
(* over impl blocks with a few bodies that differ in how they end.          *)
EXTENDS Instrument

\* Deeper(S): the expressions one level above those of S.
Deeper(S) ==
  S \cup {Return(<<e>>) : e \in S} \cup {Try(<<e>>) : e \in S} \cup {Loop(<<e>>) : e \in S}
    \cup {Inner(<<e>>) : e \in S} \cup {Macro(<<e>>, w) : e \in S, w \in BOOLEAN}
    \cup {If(<<a>>, b) : a \in S, b \in {<<>>, <<Return(<<Work>>)>>}}

Shallow == Deeper({Value, Work})
Deep == Deeper(Shallow)

SmallBodies ==
  {[stmts |-> s, tail |-> t] :
     s \in {<<e>> : e \in Deep} \cup {<<a, b>> : a \in Deep, b \in Shallow}, t \in BOOLEAN}

Fns == [block : {0}, own : {<<1>>, <<2>>}, body : {<<b>> : b \in SmallBodies}]

With(stmts, tail) == [stmts |-> stmts, tail |-> tail]
FewBodies ==
  {With(<<>>, FALSE), With(<<Work>>, TRUE), With(<<If(<<Value>>, <<Work, Return(<<Work>>)>>), Work>>, FALSE),
   With(<<Inner(<<Return(<<Work>>)>>)>>, TRUE),
   With(<<Inner(<<Macro(<<Return(<<Value>>)>>, TRUE)>>), Block(<<Work>>)>>, TRUE),
   With(<<Macro(<<Return(<<Work>>)>>, TRUE)>>, FALSE), With(<<Try(<<Work>>), Return(<<Value>>)>>, FALSE)}

Impls ==
  UNION {[block : {1, 2}, own : [1 .. n -> {0, 1}], body : [1 .. n -> FewBodies]] : n \in 1 .. 2}

MCItems == Fns \cup Impls

=============================================================================
