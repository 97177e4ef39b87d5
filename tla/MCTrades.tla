------------------------------ MODULE MCTrades ------------------------------
(* Model-checking instance of Trades. *)
EXTENDS Trades

CONSTANTS p1, p2, p3, i1, i2

\* A seller and two who bid against each other; two who bid and write mails; two who trade,
\* and one of them sells.
Situations ==
    {[gold |-> (p1 :> 1) @@ (p2 :> 2) @@ (p3 :> 1), inventory |-> (i1 :> p1) @@ (i2 :> None),
      client |-> {p1, p2, p3}, seller |-> {p1, p2},
      bidder |-> {p1, p2, p3}, writer |-> {}, trader |-> {}],
     [gold |-> (p1 :> 2) @@ (p2 :> 1) @@ (p3 :> 0), inventory |-> (i1 :> p1) @@ (i2 :> None),
      client |-> {p1, p2}, seller |-> {p1, p2}, bidder |-> {p1, p2}, writer |-> {p1},
      trader |-> {}],
     [gold |-> (p1 :> 3) @@ (p2 :> 1) @@ (p3 :> 0), inventory |-> (i1 :> p1) @@ (i2 :> p2),
      client |-> {p1, p2}, seller |-> {p1}, bidder |-> {}, writer |-> {}, trader |-> {p1, p2}]}

=============================================================================
