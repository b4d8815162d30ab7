----------------------------- MODULE MCDeferred -----------------------------
(* Two deferreds, or one list with any of six sets of flags.                 *)
EXTENDS Deferred

CONSTANTS d1, d2

MCData == <<<<"a">>, <<"b">>, <<"c">>, <<"d">>, <<"e">>>>
MCFlagSets ==
  {{}, {"memory"}, {"unique", "memory"}, {"once"}, {"once", "memory"}, {"stopOnFalse", "memory"}}
MCWhenArgs ==
  {<<d1, d2>>, <<d2, d1>>, <<"value", d1>>, <<"value", d2>>, <<"value", "value">>}
Interchangeable == Permutations(Base) \cup Permutations(Handlers)
=============================================================================
