------------------------------- MODULE Facts --------------------------------
(***************************************************************************)
(* What we know of a customer: a value for each fact that was established, *)
(* Missing for each that was not.                                          *)
(***************************************************************************)
CONSTANTS FactNames,   \* every fact a rule may need
          Missing      \* the fact is absent, or None: rules/evaluate.py:57

NoFacts == [name \in FactNames |-> Missing]

\* g knows all that f knows, and perhaps more.
KnowsMore(g, f) == \A name \in FactNames : f[name] # Missing => g[name] = f[name]
=============================================================================
