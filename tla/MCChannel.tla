----------------------------- MODULE MCChannel -----------------------------
(* Channel for TLC: up to five threads, two channels. *)
EXTENDS Channel, TLC

CONSTANTS t1, t2, t3, t4, t5, a, b

Get(c) == [kind |-> "get", ch |-> c, guard |-> FALSE]
Put(c) == [kind |-> "put", ch |-> c, guard |-> FALSE]
Guarded(e) == [e EXCEPT !.guard = TRUE]
Nack(w) == [kind |-> "nack", of |-> w, guard |-> FALSE]

\* t1 both gets from and puts to a; t2 has a guarded put and a get; t3 blocks in
\* channel-put; t4 waits for the nack of t2; t5 is a commit manager that puts to a.
OpsMixed ==
    t1 :> "sync" @@ t2 :> "sync" @@ t3 :> "put" @@ t4 :> "sync" @@ t5 :> "commit"
ArgsMixed ==
    t1 :> <<Get(a), Put(a)>> @@ t2 :> <<Guarded(Put(a)), Get(b)>>
    @@ t3 :> <<Put(b)>> @@ t4 :> <<Nack(<<t2, 1>>), Get(a)>> @@ t5 :> <<Put(a)>>

\* t4 is decided when t2 selects its get or is killed, and by nothing it matches.
LeadsMixed == {<<<<t2, 2>>, t4>>, <<<<t2, NoneSyncer>>, t4>>}

\* The instance meets the hypotheses of the theorems about Channel.
ASSUME OperationsApart == Apart(LeadsMixed) /\ CommitsMeetSyncs
============================================================================
