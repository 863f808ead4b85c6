------------------------------ MODULE Filters ------------------------------
(***************************************************************************)
(* src/app/db/filters.py: the only place that builds Qdrant filters.  A    *)
(* filter is its `must` list, here a set of conditions; a point matches    *)
(* when every condition holds of it.  A condition names the payload field  *)
(* it looks at and the values it accepts; `key` is used by metadata        *)
(* conditions only, which is how the code keeps a client's key out of the  *)
(* top-level payload fields.                                               *)
(***************************************************************************)
CONSTANT None   \* Python's None: no topic, no change, no point

owner_condition(user_id) ==
    [field |-> "user_id", key |-> None, any |-> {user_id}]

owned_by(user_id) == {owner_condition(user_id)}

\* A client's metadata predicate is a function from keys to accepted values.
metadata_conditions(metadata_filter) ==
    {[field |-> "metadata", key |-> k, any |-> metadata_filter[k]] :
        k \in DOMAIN metadata_filter}

topic_conditions(topic) ==
    IF topic = None THEN {}
    ELSE {[field |-> "topic", key |-> None, any |-> {topic}]}

scoped(user_id, topic, metadata_filter) ==
    owned_by(user_id) \union topic_conditions(topic)
                      \union metadata_conditions(metadata_filter)

\* Mutant: the id is looked for in the payload, which has none.
scoped_payload_ids(user_id, ids) ==
    owned_by(user_id) \union {[field |-> "payload.id", key |-> None, any |-> ids]}

scoped_ids(user_id, ids) ==
    owned_by(user_id) \union {[field |-> "id", key |-> None, any |-> ids]}

\* What Qdrant makes of one condition on the point `id` with that payload.
Holds(condition, id, payload) ==
    \/ condition.field = "user_id" /\ payload.user_id \in condition.any
    \/ condition.field = "topic" /\ payload.topic \in condition.any
    \/ condition.field = "id" /\ id \in condition.any
    \/ /\ condition.field = "metadata"
       /\ condition.key \in DOMAIN payload.metadata
       /\ payload.metadata[condition.key] \in condition.any

Matches(filter, id, payload) ==
    \A condition \in filter : Holds(condition, id, payload)

=============================================================================
