---------------------------- MODULE MCGuardians ----------------------------
(* Guardians for TLC: all heaps of a few objects of the shapes below. *)
EXTENDS Guardians, TLC

CONSTANTS a, b,      \* plain objects
          t, u,      \* tconcs
          p,         \* an ephemeron
          w,         \* a weak pair
          x, y       \* guardian entries, for a and b

\* The second tconc shares a segment with b.
MCSegment == a :> 1 @@ b :> 2 @@ t :> 3 @@ u :> 2 @@ p :> 4 @@ w :> 5

\* The representative in an ftype entry is a mark, never looked at.
Ent(obj, rep, tconc, kind) ==
    [obj |-> obj, rep |-> IF kind = "ftype" THEN obj ELSE rep, tconc |-> tconc, kind |-> kind]

MCHeaps ==
    {[roots |-> {t, w} \cup r,
      refs |-> a :> ra @@ b :> rb @@ [o \in Objects |-> {}],
      key |-> p :> k, val |-> p :> v,
      weak |-> w :> wk,
      entry |-> x :> Ent(a, xr, t, xk) @@ y :> Ent(b, yr, u, yk),
      count |-> Cardinality({n \in {1, 2} : <<xk, yk>>[n] = "ftype"})] :
        r \in {{p}, {p, u}}, ra \in SUBSET {a, b, u, p}, rb \in SUBSET {a, u},
        k \in {a, b}, v \in {a, b, u}, wk \in {a},
        xr \in {a, b, p, u}, yr \in {a, b}, xk \in Kinds, yk \in Kinds}
=============================================================================
