----------------------------- MODULE MCCutover ------------------------------
(***************************************************************************)
(* Cutover with three old clubs: one organizer and an event that predates  *)
(* ownership, two organizers and their events, two organizers with an      *)
(* event of nobody, and an event whose organizer is gone.                  *)
(***************************************************************************)
EXTENDS Cutover

OldClub(organizers, owner, teams) ==
    [rows |-> [organizers |-> organizers,
               matches    |-> {Row(1, SeedEvent, 1), Row(2, "e2", owner)},
               teams      |-> teams],
     files |-> {"proof"}]

One == {Row(1, Admin, NoOwner)}
Two == One \cup {Row(2, "second", NoOwner)}

OldClubs == {OldClub(One, NoOwner, {}), OldClub(Two, 2, {}),
             OldClub(Two, NoOwner, {}), OldClub(One, 7, {})}

\* A club that has drawn its teams.
ClubsWithTeams == {OldClub(One, 1, {Row(1, "t1", NoOwner)})}

CONSTANTS a, b

\* Two instances that both migrate; or a migration run and an instance.
TwoSetups == {[migrating |-> {a, b}, migrateOnly |-> {}],
              [migrating |-> {a}, migrateOnly |-> {a}]}

AllTables == {"organizers", "matches", "teams"}
=============================================================================
