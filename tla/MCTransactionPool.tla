-------------------------- MODULE MCTransactionPool --------------------------
(* Model of TransactionPool for TLC. *)
EXTENDS TransactionPool
SameExpiration == [t \in Trx |-> 2]
CreatedByFirst == [d \in Deferred |-> "t1"]
BringsItsOwn == [r \in Requests |-> IF r = "r1" THEN "t1" ELSE "t2"]
Content(trxs, retired, bad) == [trxs |-> trxs, retired |-> retired, bad |-> bad]
Contained == {Content({}, {}, FALSE), Content({"t1"}, {}, FALSE),
              Content({}, Deferred, FALSE), Content({"t2"}, {}, TRUE)}
==============================================================================
