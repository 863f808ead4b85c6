---------------------------- MODULE MCMigration ----------------------------
(***************************************************************************)
(* A small migration for TLC: c1 and c2 are requests, m1, m2, ... legacy   *)
(* points, those of Alice one more than fit in a batch.                    *)
(***************************************************************************)
EXTENDS Migration, MCRepository

CONSTANTS m1, m2, m3, m4, m5, m6

OldPoint(id, username, dim) ==
    [id |-> id, vector |-> dim,
     payload |-> [user_id |-> username, topic |-> None,
                  metadata |-> MetadataFor(None), chunks |-> id,
                  vector_dim |-> dim, created_at |-> id, updated_at |-> id]]

MCLegacyNames == <<"biology", "chemistry", "physics">>
MCLegacy ==
    [biology |-> [dim |-> 1,
                  points |-> <<OldPoint(m1, "alice", 1), OldPoint(m2, "bob", 1),
                               OldPoint(m3, "alice", 1), OldPoint(m6, "alice", 1),
                               OldPoint(m5, None, 1)>>],
     chemistry |-> [dim |-> None, points |-> << >>],
     physics |-> [dim |-> 2, points |-> <<OldPoint(m4, "alice", 2)>>]]

MCSortedUsers == <<"alice", "bob">>

\* Beside the script Alice stores a point of either width, changes and removes
\* what was migrated, and drops collections; Bob lists his.
MigrationWorkload ==
    [r \in Request |->
        CASE r = c1 -> {Create(Alice, 1, None), Create(Alice, 2, None), Drop(Alice),
                        OnOne(Alice, "delete", m1)}
          [] r = c2 -> {Update(Alice, m1, None, None, TRUE), OnOne(Alice, "delete", m3),
                        Listing(Bob, "page", 1, None, 2)}
          [] OTHER -> {}]

=============================================================================
