-------------------------- MODULE MCTeamRostersPG ---------------------------
(***************************************************************************)
(* TeamRostersPG on small instances.                                       *)
(***************************************************************************)
EXTENDS TeamRostersPG, TLC

Symmetry == Permutations(Sessions) \cup Permutations(Regs)

\* Team 1 takes one player, team 2 any number; a third team is there when
\* a start may name it, or when nothing but the edits of fixtures is looked
\* at, and then nobody is on a team yet, unless it is moves that are looked at.
OneSmallTeam ==
    /\ RosterPGInit
    /\ size[1] \notin {Unlimited, NoTeam} /\ size[2] = Unlimited
    /\ size[3] = IF workload = {"edit"} \/ "startEdited" \in workload THEN Unlimited
                                                               ELSE NoTeam
    /\ (size[3] # NoTeam /\ "move" \notin workload) => \A r \in Regs : team[r] = NoTeam
    /\ "startEdited" \in workload => \A f \in FixtureIds : fixtures[f].teams = <<2, 3>>

FairOneSmallTeamSpec ==
    OneSmallTeam /\ [][RosterPGNext]_pgvars /\ \A s \in Sessions : SF_pgvars(Step(s))
=============================================================================
