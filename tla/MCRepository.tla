---------------------------- MODULE MCRepository ----------------------------
(***************************************************************************)
(* Small instances of Repository for TLC.  Each workload gives every       *)
(* request the calls it may turn out to be; c1, c2, ... are requests.      *)
(***************************************************************************)
EXTENDS RepositoryProps

CONSTANTS c1, c2, c3, c4

MCSlug == [c \in Collection |->
    CASE c = "Biology" -> "biology" [] c = "biology" -> "biology"
      [] c = "---" -> None [] OTHER -> c]

Alice == [tenant_id |-> "icicle", username |-> "alice"]
Bob   == [tenant_id |-> "icicle", username |-> "bob"]
Alice2 == [tenant_id |-> "designsafe", username |-> "alice"]

MCIndexFields == <<"user_id">>
TwoIndexFields == <<"user_id", "topic">>
NoIndexFields == << >>

\* Call constructors, on Alice's "biology" unless said otherwise.
MetadataFor(topic) == [k \in MetaKey |-> IF topic = None THEN "m" ELSE "n"]
NoFilter == [k \in {} |-> {}]
Create(o, dim, topic) ==
    [kind |-> "create", owner |-> o, collection |-> "biology", dim |-> dim,
     topic |-> topic, metadata |-> MetadataFor(topic)]
OnOne(o, kind, id) ==
    [kind |-> kind, owner |-> o, collection |-> "biology", id |-> id]
Update(o, id, dim, topic, new_chunks) ==
    [kind |-> "update", owner |-> o, collection |-> "biology", id |-> id,
     dim |-> dim, topic |-> topic, metadata |-> None, chunks |-> new_chunks]
Bulk(o, ids, topic, all) ==
    [kind |-> "bulk_delete", owner |-> o, collection |-> "biology", ids |-> ids,
     topic |-> topic, filter |-> NoFilter, all |-> all]
Drop(o) ==
    [kind |-> "delete_collection", owner |-> o, collection |-> "Biology"]
Listing(o, kind, dim, topic, limit) ==
    [kind |-> kind, owner |-> o, collection |-> "biology", dim |-> dim,
     topic |-> topic, filter |-> NoFilter, limit |-> limit]

\* Every operation of one owner on a point of another's, with the same name.
TenancyWorkload ==
    [r \in Request |->
        CASE r = c1 -> {Create(Alice, 1, None)}
          [] r = c2 -> {Create(Bob, 2, None), Create(Alice2, 2, None)}
          [] OTHER ->
            {Create(Alice, 2, None), Update(Alice, c1, None, None, TRUE)}
            \union UNION {{OnOne(o, "get", c1), OnOne(o, "delete", c1),
                    Update(o, c1, None, None, TRUE), Bulk(o, {c1, c2}, None, FALSE),
                    Bulk(o, {}, None, TRUE), Drop(o),
                    Listing(o, "search", 1, None, 1), Listing(o, "page", 1, None, 2)} :
                        o \in {Bob, Alice2}}]

\* First stores of two widths race each other, deletions of one point and of
\* everything, and updates, one of them to another width, while a reader looks on.
FirstStoreWorkload ==
    [r \in Request |->
        CASE r = c1 -> {Create(Alice, 1, None)}
          [] r = c2 -> {Create(Alice, 1, None), Create(Alice, 2, None)}
          [] r = c3 -> {Bulk(Alice, {}, None, TRUE), Bulk(Alice, {c1}, None, FALSE),
                        Update(Alice, c1, 2, None, FALSE),
                        Update(Alice, c1, None, None, TRUE)}
          [] OTHER -> {OnOne(Alice, "get", c1), OnOne(Alice, "delete", c1),
                       Drop(Alice), Bulk(Alice, {c2}, None, FALSE),
                       Listing(Alice, "page", 1, None, 3)}]

\* Two deletions and an update among them, over two stores.
DeletionWorkload ==
    [r \in Request |->
        CASE r = c1 -> {Create(Alice, 1, None)}
          [] r = c2 -> {Create(Alice, 1, "plant")}
          [] r = c3 -> {Bulk(Alice, {c1}, None, FALSE), Bulk(Alice, {}, "plant", FALSE)}
          [] OTHER -> {Bulk(Alice, {c1, c2}, None, FALSE), OnOne(Alice, "delete", c1),
                       Drop(Alice), Update(Alice, c1, None, "plant", FALSE)}]

\* Every operation, for requests that come one at a time.
Everything ==
    {Create(Alice, 1, None), Create(Alice, 1, "plant"), Create(Alice, 2, None),
     OnOne(Alice, "get", c1), OnOne(Alice, "delete", c1), Drop(Alice),
     [Drop(Alice) EXCEPT !.collection = "---"],
     Bulk(Alice, {c1}, None, FALSE), Bulk(Alice, {}, None, TRUE),
     [Bulk(Alice, {}, None, FALSE) EXCEPT !.filter = [k \in MetaKey |-> {"n"}]],
     Update(Alice, c1, None, "plant", FALSE), Update(Alice, c1, None, None, TRUE),
     Update(Alice, c1, 2, None, FALSE),
     Listing(Alice, "search", 1, "plant", 1), Listing(Alice, "page", 1, None, 2)}

SequentialWorkload == [r \in Request |->
    IF r = c1 THEN {Create(Alice, 1, None)} ELSE Everything]

=============================================================================
