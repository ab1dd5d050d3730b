----------------------------- MODULE Instrument -----------------------------
(***************************************************************************)
(* How the budget macros rewrite what they annotate (budget-macros,        *)
(* lib.rs).  An attribute on a fn, or on an impl block, puts an assertion  *)
(* on the paths that leave a body: after its tail, or inside each return,  *)
(* but not in the closures it holds, and it refuses a return that stands   *)
(* in the tokens of a macro.  Attributes stack: each rewrites what the     *)
(* ones before it have made, the block's before the methods'.              *)
(*                                                                         *)
(* Bodies are trees, reduced to what decides where control goes.  An       *)
(* expression stands in a list of statements, of which it is the last.     *)
(* Eval is the reference: the ways in which Rust may run them.             *)
(*                                                                         *)
(* What is defined along a tree is a function for each height, made from   *)
(* the function for the height below.                                      *)
(***************************************************************************)
EXTENDS Naturals, SequencesExt

CONSTANTS
  Items,   \* what is annotated, before anything is expanded
  Height   \* bound: the height of the trees

Value == [k |-> "value"]                 \* anything that costs nothing
Work == [k |-> "work"]                   \* a call that is being measured
Assertion == [k |-> "assert"]            \* the injected assertion
Return(e) == [k |-> "return", e |-> e]
Try(e) == [k |-> "try", e |-> e]         \* e?
Loop(e) == [k |-> "loop", e |-> e]
Block(e) == [k |-> "block", e |-> e]
If(a, b) == [k |-> "if", a |-> a, b |-> b]
\* A body of its own, run where it stands: a closure, an async block, a nested fn.
Inner(e) == [k |-> "inner", e |-> e]
\* A macro call whose expansion runs e, which is `written' in its tokens or not.
Macro(e, written) == [k |-> "macro", e |-> e, written |-> written]

\* The closures that read limits: they return, and panic!, in bodies of their own.
Prelude == [k |-> "closure", e |-> <<Return(<<Value>>), Macro(<<Value>>, TRUE)>>]

Leaves == {Value, Work, Assertion}

Over(lists) ==
  [k : {"return", "try", "loop", "block", "inner", "closure"}, e : lists]
    \cup [k : {"if"}, a : lists, b : lists]
    \cup [k : {"macro"}, e : lists, written : BOOLEAN]

Trees[h \in 0 .. Height] ==
  IF h = 0 THEN Leaves ELSE Leaves \cup Over(Seq(Trees[h - 1]))

\* With a tail, the last statement has no semicolon and is the value.
Bodies == [stmts : Seq(Trees[Height]), tail : BOOLEAN]

ASSUME HeightAssumption == Height \in Nat /\ Height >= 2
ASSUME ItemsAssumption ==
  \A item \in Items :
    /\ item.block \in Nat
    /\ \A i \in DOMAIN item.own : item.own[i] \in Nat
    /\ DOMAIN item.body = DOMAIN item.own
    /\ \A i \in DOMAIN item.body : item.body[i] \in Bodies

----------------------------------------------------------------------------
(* Running a tree: the work and the assertions in their order, and whether  *)
(* it ends with a value, a return, the error of a `?', or a return that     *)
(* only the expansion of a macro contains.                                  *)

Way(trace, out) == [trace |-> trace, out |-> out]
Through == Way(<<>>, "value")

After(r, S) ==
  IF r.out = "value" THEN {Way(r.trace \o s.trace, s.out) : s \in S} ELSE {r}

\* The ways of S, and onward from those that end with a value.
Onward(S, T) == UNION {After(r, T) : r \in S}

Ending(S, from, to) ==
  {IF r.out \in from THEN Way(r.trace, to) ELSE r : r \in S}

\* One statement after the other, each of which runs as `eval' says.
InOrder(stmts, eval) ==
  LET first[j \in 0 .. Len(stmts)] ==
        IF j = 0 THEN {Through}
        ELSE Onward(first[j - 1], eval[stmts[j]])
  IN  first[Len(stmts)]

\* A loop runs its body not at all, once or twice.
Repeated(S) == {Through} \cup S \cup Onward(S, S)

RunsOf(e, eval) ==
  CASE e.k \in {"value", "closure"} -> {Through}
    [] e.k \in {"work", "assert"} -> {Way(<<e.k>>, "value")}
    [] e.k = "return" -> Ending(InOrder(e.e, eval), {"value"}, "return")
    [] e.k = "try" -> InOrder(e.e, eval) \cup Ending(InOrder(e.e, eval), {"value"}, "error")
    [] e.k = "if" -> InOrder(e.a, eval) \cup InOrder(e.b, eval)
    [] e.k = "loop" -> Repeated(InOrder(e.e, eval))
    [] e.k = "block" -> InOrder(e.e, eval)
    [] e.k = "inner" -> Ending(InOrder(e.e, eval), {"return", "error", "hidden"}, "value")
    [] e.k = "macro" ->
         IF e.written THEN InOrder(e.e, eval) ELSE Ending(InOrder(e.e, eval), {"return"}, "hidden")

Runs[h \in 0 .. Height] ==
  IF h = 0 THEN [e \in Leaves |-> RunsOf(e, <<>>)]
  ELSE [e \in Trees[h] |-> RunsOf(e, Runs[h - 1])]

Eval(stmts) == InOrder(stmts, Runs[Height])

\* The statements that a visit meets in e: a macro call's, if its tokens show them.
Children(e) ==
  CASE e.k \in {"return", "try", "loop", "block", "inner", "closure"} -> {e.e[j] : j \in DOMAIN e.e}
    [] e.k = "macro" -> IF e.written THEN {e.e[j] : j \in DOMAIN e.e} ELSE {}
    [] e.k = "if" -> {e.a[j] : j \in DOMAIN e.a} \cup {e.b[j] : j \in DOMAIN e.b}
    [] OTHER -> {}

\* The trees that can be reached from e without entering one of the kinds opaque.
PartsOf(e, opaque, parts) ==
  {e} \cup IF e.k \in opaque THEN {} ELSE UNION {parts[c] : c \in Children(e)}

Parts(stmts, opaque) ==
  LET parts[h \in 0 .. Height] ==
        IF h = 0 THEN [e \in Leaves |-> {e}]
        ELSE [e \in Trees[h] |-> PartsOf(e, opaque, parts[h - 1])]
  IN  UNION {parts[Height][stmts[j]] : j \in DOMAIN stmts}

----------------------------------------------------------------------------
(* ReturnRewriter.                                                         *)

\* find_return_token: an identifier `return' anywhere in the tokens of a macro call,
\* those of closures and of nested macro calls included.
ReturnToken(m) == \E r \in Parts(m.e, {}) : r.k = "return"

\* Mutant: a return is looked for in every body that a macro call stands in.
VisitingClosures(stmts) ==
  \E m \in Parts(stmts, {}) : m.k = "macro" /\ ReturnToken(m)

\* visit_macro_mut: the visit, which enters no closure, async block or item, meets
\* a macro call with such a token.
MacroReturn(stmts) ==
  \E m \in Parts(stmts, {"inner", "closure", "macro"}) : m.k = "macro" /\ m.written /\ ReturnToken(m)

\* Mutant: the assertion runs before the returned value is computed.
AssertingFirst(e) == Return(<<Assertion>> \o e)

\* return { let __budget_returned = e; <assertion>; __budget_returned }
Asserting(e) == Return(e \o <<Assertion, Value>>)

Each(stmts, rewrite) == [j \in DOMAIN stmts |-> rewrite[stmts[j]]]

\* visit_expr_mut: inner expressions first, so that what is injected is not met.
RewriteOf(e, rewrite) ==
  CASE e.k = "return" -> Asserting(Each(e.e, rewrite))
    [] e.k \in {"try", "loop", "block"} -> [k |-> e.k, e |-> Each(e.e, rewrite)]
    [] e.k = "if" -> If(Each(e.a, rewrite), Each(e.b, rewrite))
    [] OTHER -> e

Rewrites[h \in 0 .. Height] ==
  IF h = 0 THEN [e \in Leaves |-> e]
  ELSE [e \in Trees[h] |-> RewriteOf(e, Rewrites[h - 1])]

Rewrite(stmts) == Each(stmts, Rewrites[Height])

----------------------------------------------------------------------------
(* instrument_exit_paths.                                                  *)

EndsIn(body, kinds) == body.tail /\ body.stmts # <<>> /\ Last(body.stmts).k \in kinds

\* A tail is bound before the assertion and yielded afterwards.  Without one the
\* assertion, a block with no semicolon, is the tail of what is emitted; a
\* trailing return carries an assertion already.
Instrument(body) ==
  LET tail == body.tail /\ body.stmts # <<>> /\ ~ EndsIn(body, {"return"})
  IN  [stmts |-> <<Prelude>> \o Rewrite(body.stmts)
                   \o (IF tail THEN <<Assertion, Value>> ELSE <<Assertion>>),
       tail |-> TRUE]

----------------------------------------------------------------------------
(* expand_targets: an item is an impl block with its methods, or a fn, which *)
(* is a single method under no block.                                       *)

VARIABLES
  block,     \* attributes of the impl block that are not yet expanded
  own,       \* own[i]: those of the i-th method
  body,      \* body[i]: the body it has by now
  error,     \* compile_error! was emitted
  source     \* history: the item as it was written

rewriteVars == <<block, own, body, error, source>>

RewriteInit ==
  /\ source \in Items
  /\ block = source.block
  /\ own = source.own
  /\ body = source.body
  /\ error = FALSE

\* is_budget_attr: a method with an attribute of its own is left to that one.
WithoutOwn == {i \in DOMAIN own : own[i] = 0}

Unreachable(S) == \E i \in S : MacroReturn(body[i].stmts)

\* The tokens of a refused item replace it, or stand beside it with compile_error!:
\* nothing of it runs.  That syn parses a trailing return with no semicolon once
\* the assertion follows it is not for this model to say.
Refuse(S) ==
  /\ \/ S = {}
     \/ Unreachable(S)
     \/ \E i \in S : EndsIn(body[i], {"return"})
  /\ error' = TRUE
  /\ UNCHANGED body

Rebuild(S) ==
  /\ S # {}
  /\ ~ Unreachable(S)
  /\ body' = [i \in DOMAIN body |-> IF i \in S THEN Instrument(body[i]) ELSE body[i]]
  /\ UNCHANGED error

ExpandBlock ==
  /\ ~ error
  /\ block > 0
  /\ Refuse(WithoutOwn) \/ Rebuild(WithoutOwn)
  /\ block' = block - 1
  /\ UNCHANGED <<own, source>>

\* The compiler expands what is left on a method when its block is done with.
ExpandMethod(i) ==
  /\ ~ error
  /\ block = 0
  /\ own[i] > 0
  /\ Refuse({i}) \/ Rebuild({i})
  /\ own' = [own EXCEPT ![i] = @ - 1]
  /\ UNCHANGED <<block, source>>

Expanded == error \/ (block = 0 /\ \A i \in DOMAIN own : own[i] = 0)

Compiled == Expanded /\ UNCHANGED rewriteVars

RewriteNext == ExpandBlock \/ (\E i \in DOMAIN own : ExpandMethod(i)) \/ Compiled

RewriteSpec == RewriteInit /\ [][RewriteNext]_rewriteVars

----------------------------------------------------------------------------
\* The attributes a method is under, its own or else its block's, that are expanded.
Applied(i) ==
  IF source.own[i] > 0 THEN source.own[i] - own[i] ELSE source.block - block

WithAsserts(r, n) ==
  IF r.out \in {"value", "return"} THEN Way(r.trace \o [j \in 1 .. n |-> "assert"], r.out) ELSE r

\* A method runs as it was written to run, to the same end, and then through one
\* assertion for each attribute it is under: after the value of its tail or of the
\* return it takes, in no closure it holds, and for no attribute of a block that
\* its own replaces.  Only the error of a `?' and a return that a macro's expansion
\* produces leave without (mechanics.md:71; ReturnRewriter, instrument_exit_paths).
AssertedOnEveryExit ==
  \A i \in DOMAIN body :
    ~ error =>
      Eval(body[i].stmts) = {WithAsserts(r, Applied(i)) : r \in Eval(source.body[i].stmts)}

WrittenInMacro(stmts) ==
  \E m \in Parts(stmts, {"inner"}) : m.k = "macro" /\ m.written /\ ReturnToken(m)

\* What is refused was written so: a return in the tokens of a macro call that
\* leaves the method or may (fail_return_in_macro_closure.rs:1), an impl block whose
\* attribute finds no method, or a body that ends in a bare return.  What earlier
\* attributes have put into a body never makes a later one refuse it.
RefusedAsWritten ==
  error =>
    \/ source.block > 0 /\ \A i \in DOMAIN own : source.own[i] > 0
    \/ \E i \in DOMAIN own :
         /\ source.block + source.own[i] > 0
         /\ \/ WrittenInMacro(source.body[i].stmts)
            \/ EndsIn(source.body[i], {"return"})

=============================================================================
