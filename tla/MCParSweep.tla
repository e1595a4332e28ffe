----------------------------- MODULE MCParSweep -----------------------------
(* ParSweep for TLC: three contexts, up to two sweepers besides the main one. *)
EXTENDS ParSweep, TLC

CONSTANTS g0, g1, g2,        \* contexts
          a, b, c, d,        \* objects that may be collected
          e, f,              \* ephemerons
          r, q               \* objects of an older generation

MCThreads == <<g2, g1, g0>>
MCCreator == a :> g0 @@ b :> g1 @@ c :> g2 @@ d :> g2 @@ e :> g0 @@ f :> g1
    @@ r :> g1 @@ q :> g2
\* c and d are on one segment.
MCSegment == a :> 1 @@ b :> 2 @@ c :> 3 @@ d :> 3 @@ e :> 4 @@ f :> 5 @@ r :> 6 @@ q :> 7

NoRefs == [o \in Objects |-> <<>>]
None == [g \in Tgcs |-> {}]
Clean == [g \in Tgcs |-> <<>>]

\* References between all contexts, and an old object on two dirty cards with
\* references to two contexts that are not its own.
Travels ==
    [refs |-> a :> <<b, c>> @@ b :> <<a, c>> @@ c :> <<b, d>> @@ r :> <<a, d>> @@ NoRefs,
     key |-> <<>>, val |-> <<>>,
     rooted |-> g0 :> {a} @@ None,
     dirty |-> g1 :> <<r, r>> @@ Clean]

\* The key of e is kept thanks to f, whose key is kept thanks to an old object.
Chain ==
    [refs |-> q :> <<b>> @@ d :> <<a>> @@ NoRefs,
     key |-> e :> c @@ f :> b, val |-> e :> d @@ f :> c,
     rooted |-> g0 :> {e} @@ g1 :> {f} @@ None,
     dirty |-> g2 :> <<q>> @@ Clean]

\* An old ephemeron with a key that is kept late; one with a key that is not.
OldKey ==
    [refs |-> b :> <<c>> @@ q :> <<b>> @@ NoRefs,
     key |-> r :> c @@ e :> d, val |-> r :> a @@ e :> b,
     rooted |-> g0 :> {e} @@ None,
     dirty |-> g1 :> <<r>> @@ g2 :> <<q>> @@ Clean]

MCHeaps == {Travels, Chain, OldKey}

Setup(tcs, count, started, limit) ==
    [tcs |-> tcs, count |-> count, started |-> started, limit |-> limit]

\* Two waiting threads; one, in the second slot and so overlooked, with a
\* sweeper from before; one, but no thread can be created; none.
MCSetups ==
    {Setup(<<g1, g2>>, 2, {}, 2), Setup(<<NoOne, g1>>, 1, {0}, 1),
     Setup(<<g1, NoOne>>, 1, {}, 1), Setup(<<g1, g2>>, 2, {}, 0)}
=============================================================================
