----------------------------- MODULE MCReceiveV2 -----------------------------
EXTENDS ReceiveV2

F(id, total, from, to) == [id |-> id, total |-> total, from |-> from, to |-> to, body |-> 0]

\* Datagrams in two groups each, next to an empty and a small one; the later
\* groups move the floor of both windows past the first.
Split == [groups |-> (1 :> <<F(1, 2, 0, 1), F(2, 0, 0, 0)>>)
                  @@ (2 :> <<F(1, 2, 1, 2)>>)
                  @@ (4 :> <<F(4, 2, 0, 1)>>)
                  @@ (5 :> <<F(3, 1, 0, 1), F(4, 2, 1, 2)>>),
          shards |-> 1, dataShards |-> 1, records |-> 2]
\* Shards gather until two of three are there; bundles carry two records.
Gathered == [groups |-> (1 :> <<F(1, 2, 0, 1)>>) @@ (2 :> <<F(1, 2, 1, 2), F(2, 1, 0, 1)>>)
                     @@ (4 :> <<F(3, 1, 0, 1)>>),
             shards |-> 3, dataShards |-> 2, records |-> 1]
\* Numbers that go round both rings; the groups between were lost.
Round == [groups |-> [id \in {3, 4, 6} |-> <<F(id, 0, 0, 0)>>],
          shards |-> 2, dataShards |-> 2, records |-> 1]
\* A peer whose groups contradict each other: another length, overlapping
\* bytes, other bytes for the same range, a manifest out of order.
Conflicting == [groups |-> (1 :> <<F(1, 3, 0, 1)>>) @@ (2 :> <<F(1, 2, 1, 2)>>)
                        @@ (3 :> <<F(1, 3, 0, 2)>>)
                        @@ (4 :> <<[F(1, 3, 0, 1) EXCEPT !.body = 1]>>)
                        @@ (5 :> <<F(2, 1, 0, 1), F(1, 3, 1, 3)>>),
                shards |-> 1, dataShards |-> 1, records |-> 1]
\* More fragments than a Datagram may have.
Shredded == [groups |-> [id \in 1..3 |-> <<F(1, 3, id - 1, id)>>],
             shards |-> 1, dataShards |-> 1, records |-> 1]
MCScenarios == {Split, Gathered, Round, Conflicting, Shredded}
=============================================================================
