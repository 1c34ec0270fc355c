--------------------------- MODULE CutoverProofs ----------------------------
(***************************************************************************)
(* Instances that start together, crash and lose their locks beside the    *)
(* copy of an old club end up with one club, whose next ids are free and   *)
(* whose events have owners: for any number of instances, runs and faults, *)
(* and whatever old club.                                                  *)
(***************************************************************************)
EXTENDS Cutover, FiniteSetTheorems, WellFoundedInduction, TLAPS

-----------------------------------------------------------------------------
(* The inductive invariant *)

OldRows == UNION {UNION {s.rows[t] : t \in Tables} : s \in Sources}

Records == [id : 1..MaxId,
            key : {Admin, SeedEvent} \cup {r.key : r \in OldRows},
            owner : {NoOwner} \cup 1..MaxId \cup {r.owner : r \in OldRows}]

Unique(S) == \A q, r \in S : (q.id = r.id \/ q.key = r.key) => q = r

Apart(S, T) == \A q \in S, r \in T : q.id # r.id /\ q.key # r.key

\* Rows that collide are never in two places: not both committed, nor one
\* committed and one open, nor open in two transactions.
TablesInv ==
    /\ rows \in [Tables -> SUBSET Records]
    /\ open \in [Processes -> [Tables -> SUBSET Records]]
    /\ nextId \in [Tables -> Nat \ {0}]
    /\ \A t \in Tables :
        /\ Unique(rows[t])
        /\ \A p \in Processes :
            /\ Unique(open[p][t])
            /\ Apart(open[p][t], rows[t])
            /\ \A q \in Processes \ {p} : Apart(open[p][t], open[q][t])

\* What an instance has open.
OpenAt(i, t) ==
    IF at[i] = "admitted" /\ t = "organizers" THEN {NewOrganizer(i)}
    ELSE IF at[i] = "seeded" /\ t = "matches" THEN {SeedRow(i)}
    ELSE {}

\* An instance that is at a place with what it has seen and the organizer it
\* knows: both are ids, and the rows it relies on are still there.
Knows(place, s, o) ==
    /\ place \in {"naming", "admitted", "seeding", "seeded", "assigning"} =>
            s \in 1..MaxId
    /\ place \in {"counting", "seeding", "seeded", "owning", "assigning",
                  "serving"} =>
            o \in 1..MaxId /\ rows["organizers"] # {}
    /\ place \in {"owning", "assigning", "serving"} => rows["matches"] # {}

StartInv(i) ==
    /\ Knows(at[i], seen[i], organizer[i])
    /\ \A t \in Tables : open[i][t] = OpenAt(i, t)

StartsInv ==
    /\ at \in [Instances -> Places]
    /\ seen \in [Instances -> Nat]
    /\ organizer \in [Instances -> 0..MaxId]
    /\ \A i \in Instances : StartInv(i)

\* Before the copy is committed there are the seed event and the bootstrap
\* organizer at most; after it there are the rows of the old club.
ClubInv ==
    /\ moved \in BOOLEAN
    /\ source \in Sources
    /\ \A t \in Tables \ {"organizers", "matches"} : rows[t] = {}
    /\ ~moved =>
        /\ \A o \in rows["organizers"] : o.key = Admin
        /\ \A m \in rows["matches"] : m.key = SeedEvent
    /\ moved =>
        /\ rows["organizers"] = source.rows["organizers"]
        /\ Names(rows["matches"]) = Names(source.rows["matches"])
        /\ NextIdsAreFree

\* The rows of the k-th table of TABLE_ORDER are in the copy's transaction.
Inserted(k) ==
    \/ copying.step \in {"validate", "commit", "rollback"}
    \/ copying.step \in {"check", "copy", "sequence"} /\ k < copying.table
    \/ copying.step = "sequence" /\ k = copying.table

\* Its sequence has been reset.
Advanced(k) ==
    \/ copying.step \in {"validate", "commit", "rollback"}
    \/ copying.step \in {"check", "copy", "sequence"} /\ k < copying.table

CopyInv ==
    /\ \/ /\ copying.step \in {"check", "copy", "sequence"}
          /\ copying.table \in {1, 2}
       \/ /\ copying.step \in {"idle", "objects", "report", "validate",
                               "rollback", "commit"}
          /\ copying.table = 0
    /\ moved => \/ copying.step \in {"idle", "objects", "report"}
                \/ copying.step = "check" /\ copying.table = 1
    /\ \A k \in {1, 2} :
        LET t == TABLE_ORDER[k]
        IN  /\ open[Copier][t] = IF Inserted(k) THEN source.rows[t] ELSE {}
            /\ Advanced(k) => \A r \in source.rows[t] : r.id < nextId[t]
    /\ \A t \in Tables \ {"organizers", "matches"} : open[Copier][t] = {}

\* While no lock was lost, who is between taking and leaving it holds it, and
\* the version is what the holder has read.
LockInv ==
    /\ losses \in Nat /\ crashes \in Nat /\ version \in Nat
    /\ losses = 0 => \A i \in Instances :
        /\ at[i] \in {"reading", "upgrading", "unlocking"} => lock = i
        /\ at[i] = "upgrading" => seen[i] = version + 1

DataInv == TablesInv /\ StartsInv /\ ClubInv /\ CopyInv /\ EventsAreOwned

CutoverInv == DataInv /\ LockInv

-----------------------------------------------------------------------------
(* Old clubs *)

LEMMA InOrder ==
    /\ Len(TABLE_ORDER) = 2
    /\ TABLE_ORDER[1] = "organizers" /\ TABLE_ORDER[2] = "matches"
    /\ {"organizers", "matches"} \subseteq Tables
  BY TablesAssumption DEF TABLE_ORDER

LEMMA OldClubIs ==
    ASSUME NEW s \in Sources, NEW t \in Tables
    PROVE  /\ s.rows[t] \subseteq Records
           /\ Unique(s.rows[t])
  <1>1. ASSUME NEW r \in s.rows[t] PROVE r \in Records
    <2>1. r \in OldRows
      BY DEF OldRows
    <2>2. r = [id |-> r.id, key |-> r.key, owner |-> r.owner] /\ r.id \in 1..MaxId
      BY SourcesAssumption DEF Row
    <2>3. r.key \in {q.key : q \in OldRows} /\ r.owner \in {q.owner : q \in OldRows}
      BY <2>1
    <2> QED BY <2>2, <2>3 DEF Records
  <1>2. Unique(s.rows[t])
    BY SourcesAssumption DEF Unique
  <1> QED BY <1>1, <1>2

LEMMA OldClubHas ==
    ASSUME NEW s \in Sources
    PROVE  /\ \E o \in s.rows["organizers"] : o.key = Admin
           /\ \E m \in s.rows["matches"] : m.key = SeedEvent
  BY SourcesAssumption

LEMMA RecordShape ==
    ASSUME NEW r \in Records
    PROVE  r.id \in 1..MaxId /\ r = Row(r.id, r.key, r.owner)
  BY DEF Records, Row

\* Sets of ids have a greatest one.
LEMMA HighestIs ==
    ASSUME NEW n \in Nat, NEW S, S \subseteq 0..n, S # {}
    PROVE  Max(S) \in S /\ \A y \in S : Max(S) >= y
  <1> DEFINE T == {n - y : y \in S}
             R == OpToRel(<, Nat)
  <1>0. \A y \in S : y \in Nat /\ n - y \in Nat
    OBVIOUS
  <1>1. T \subseteq Nat /\ T # {}
    BY <1>0
  <1>2. IsWellFoundedOn(R, Nat)
    BY NatLessThanWellFounded
  <1>3. PICK x \in T : \A y \in T : ~ (<<y, x>> \in R)
    <2> HIDE DEF T, R
    <2> QED BY <1>1, <1>2, WFMin
  <1>4. \A y \in T : y >= x
    <2> SUFFICES ASSUME NEW y \in T PROVE y >= x
      OBVIOUS
    <2>1. x \in Nat /\ y \in Nat
      BY <1>1
    <2>2. ~(y < x)
      BY <1>3, <2>1 DEF OpToRel
    <2> HIDE DEF T
    <2> QED BY <2>1, <2>2
  <1>5. PICK m \in S : x = n - m
    OBVIOUS
  <1>6. \A y \in S : m >= y
    <2> SUFFICES ASSUME NEW y \in S PROVE m >= y
      OBVIOUS
    <2>1. n - y >= n - m
      BY <1>4, <1>5
    <2>2. y \in Nat /\ m \in Nat
      BY <1>0
    <2> HIDE DEF T
    <2> QED BY <2>1, <2>2
  <1> HIDE DEF T
  <1> QED BY <1>6 DEF Max

-----------------------------------------------------------------------------
(* What statements do to the tables *)

LEMMA DrawKeepsTables ==
    ASSUME TablesInv, NEW t \in Tables, Draw(t), UNCHANGED <<rows, open>>
    PROVE  /\ TablesInv'
           /\ \A u \in Tables : nextId[u] <= nextId'[u]
  <1>1. /\ nextId' \in [Tables -> Nat \ {0}]
        /\ \A u \in Tables : nextId[u] <= nextId'[u]
    BY DEF TablesInv, Draw
  <1> QED BY <1>1 DEF TablesInv

LEMMA RollbackKeepsTables ==
    ASSUME TablesInv, NEW p \in Processes, Rollback(p), UNCHANGED <<rows, nextId>>
    PROVE  /\ TablesInv'
           /\ \A t \in Tables : open'[p][t] = {}
           /\ \A q \in Processes \ {p} : open'[q] = open[q]
  <1>1. /\ open' \in [Processes -> [Tables -> SUBSET Records]]
        /\ \A t \in Tables : open'[p][t] = {}
        /\ \A q \in Processes \ {p} : open'[q] = open[q]
    BY DEF TablesInv, Rollback, NothingOpen
  <1>2. ASSUME NEW t \in Tables, NEW q \in Processes
        PROVE  /\ Unique(open'[q][t]) /\ Apart(open'[q][t], rows[t])
               /\ \A o \in Processes \ {q} : Apart(open'[q][t], open'[o][t])
    <2>1. CASE q = p
      BY <1>1, <2>1 DEF Unique, Apart
    <2>2. CASE q # p
      <3>1. open'[q] = open[q]
        BY <1>1, <2>2
      <3>2. Unique(open[q][t]) /\ Apart(open[q][t], rows[t])
        BY DEF TablesInv
      <3>3. ASSUME NEW o \in Processes \ {q} PROVE Apart(open[q][t], open'[o][t])
        <4>1. CASE o = p
          BY <1>1, <4>1 DEF Apart
        <4>2. CASE o # p
          BY <1>1, <4>2 DEF TablesInv
        <4> QED BY <4>1, <4>2
      <3> QED BY <3>1, <3>2, <3>3
    <2> QED BY <2>1, <2>2
  <1> QED BY <1>1, <1>2 DEF TablesInv

LEMMA InsertKeepsTables ==
    ASSUME TablesInv, NEW p \in Processes, NEW t \in Tables,
           NEW S \in SUBSET Records, Unique(S),
           \A r \in S : CanInsert(p, t, r),
           open' = [open EXCEPT ![p][t] = S], UNCHANGED <<rows, nextId>>
    PROVE  /\ TablesInv'
           /\ open'[p][t] = S
           /\ \A u \in Tables \ {t} : open'[p][u] = open[p][u]
           /\ \A q \in Processes \ {p} : open'[q] = open[q]
  <1>1. /\ open' \in [Processes -> [Tables -> SUBSET Records]]
        /\ open'[p][t] = S
        /\ \A u \in Tables \ {t} : open'[p][u] = open[p][u]
        /\ \A q \in Processes \ {p} : open'[q] = open[q]
    BY DEF TablesInv
  <1>2. /\ Apart(S, rows[t])
        /\ \A q \in Processes \ {p} : Apart(S, open[q][t]) /\ Apart(open[q][t], S)
    BY DEF CanInsert, Waits, Fails, Collides, Apart
  <1>3. ASSUME NEW u \in Tables, NEW q \in Processes
        PROVE  /\ Unique(open'[q][u]) /\ Apart(open'[q][u], rows[u])
               /\ \A o \in Processes \ {q} : Apart(open'[q][u], open'[o][u])
    <2>1. CASE u # t
      <3>1. \A o \in Processes : open'[o][u] = open[o][u]
        BY <1>1, <2>1
      <3> QED BY <3>1 DEF TablesInv
    <2>2. CASE u = t /\ q = p
      BY <1>1, <1>2, <2>2
    <2>3. CASE u = t /\ q # p
      <3>1. open'[q][u] = open[q][u]
        BY <1>1, <2>3
      <3>2. ASSUME NEW o \in Processes \ {q}
            PROVE  Apart(open[q][u], open'[o][u])
        <4>1. CASE o = p
          BY <1>1, <1>2, <2>3, <4>1
        <4>2. CASE o # p
          BY <1>1, <4>2 DEF TablesInv
        <4> QED BY <4>1, <4>2
      <3> QED BY <3>1, <3>2 DEF TablesInv
    <2> QED BY <2>1, <2>2, <2>3
  <1> QED BY <1>1, <1>3 DEF TablesInv

LEMMA CommitKeepsTables ==
    ASSUME TablesInv, NEW p \in Processes, Commit(p), UNCHANGED nextId
    PROVE  /\ TablesInv'
           /\ \A t \in Tables : rows'[t] = rows[t] \cup open[p][t]
           /\ \A t \in Tables : open'[p][t] = {}
           /\ \A q \in Processes \ {p} : open'[q] = open[q]
  <1>1. /\ open' \in [Processes -> [Tables -> SUBSET Records]]
        /\ \A t \in Tables : open'[p][t] = {}
        /\ \A q \in Processes \ {p} : open'[q] = open[q]
    BY DEF TablesInv, Commit, NothingOpen
  <1>2. /\ rows' \in [Tables -> SUBSET Records]
        /\ \A t \in Tables : rows'[t] = rows[t] \cup open[p][t]
    BY DEF TablesInv, Commit
  <1>3. ASSUME NEW t \in Tables PROVE Unique(rows'[t])
    <2>1. Unique(rows[t]) /\ Unique(open[p][t]) /\ Apart(open[p][t], rows[t])
      BY DEF TablesInv
    <2> QED BY <1>2, <2>1 DEF Unique, Apart
  <1>4. ASSUME NEW t \in Tables, NEW q \in Processes
        PROVE  /\ Unique(open'[q][t]) /\ Apart(open'[q][t], rows'[t])
               /\ \A o \in Processes \ {q} : Apart(open'[q][t], open'[o][t])
    <2>1. CASE q = p
      BY <1>1, <2>1 DEF Unique, Apart
    <2>2. CASE q # p
      <3>1. open'[q][t] = open[q][t]
        BY <1>1, <2>2
      <3>2. /\ Unique(open[q][t]) /\ Apart(open[q][t], rows[t])
            /\ Apart(open[q][t], open[p][t])
            /\ \A o \in Processes \ {q} : Apart(open[q][t], open[o][t])
        BY <2>2 DEF TablesInv
      <3>3. Apart(open[q][t], rows'[t])
        BY <1>2, <3>2 DEF Apart
      <3>4. ASSUME NEW o \in Processes \ {q}
            PROVE  Apart(open[q][t], open'[o][t])
        <4>1. CASE o = p
          BY <1>1, <4>1 DEF Apart
        <4>2. CASE o # p
          BY <1>1, <3>2, <4>2
        <4> QED BY <4>1, <4>2
      <3> QED BY <3>1, <3>2, <3>3, <3>4
    <2> QED BY <2>1, <2>2
  <1> QED BY <1>1, <1>2, <1>3, <1>4 DEF TablesInv

\* The owner of an event is no part of its name.
WithOwner(m, o) == IF m.owner = NoOwner THEN [m EXCEPT !.owner = o] ELSE m

LEMMA AssignKeepsTables ==
    ASSUME TablesInv, NEW o \in 1..MaxId,
           rows' = [rows EXCEPT !["matches"] = {WithOwner(m, o) : m \in @}],
           UNCHANGED <<open, nextId>>
    PROVE  /\ TablesInv'
           /\ \A t \in Tables \ {"matches"} : rows'[t] = rows[t]
           /\ rows'["matches"] = {WithOwner(m, o) : m \in rows["matches"]}
           /\ Names(rows'["matches"]) = Names(rows["matches"])
           /\ \A m \in rows'["matches"] : m.owner # NoOwner
  <1> DEFINE M == rows["matches"]
  <1>1. M \subseteq Records /\ "matches" \in Tables
    BY InOrder DEF TablesInv
  <1>2. ASSUME NEW m \in M
        PROVE  /\ WithOwner(m, o) \in Records
               /\ WithOwner(m, o).id = m.id /\ WithOwner(m, o).key = m.key
               /\ WithOwner(m, o).owner # NoOwner
    <2>1. m \in Records
      BY <1>1
    <2>2. o # NoOwner
      BY NobodyAssumption
    <2> QED BY <2>1, <2>2 DEF WithOwner, Records
  <1>3. /\ rows' \in [Tables -> SUBSET Records]
        /\ \A t \in Tables \ {"matches"} : rows'[t] = rows[t]
        /\ rows'["matches"] = {WithOwner(m, o) : m \in M}
    <2>1. {WithOwner(m, o) : m \in M} \subseteq Records
      BY <1>2
    <2> HIDE DEF M
    <2> QED BY <1>1, <2>1 DEF TablesInv, M
  <1>4. Names(rows'["matches"]) = Names(M)
    BY <1>2, <1>3 DEF Names
  <1>5. ASSUME NEW t \in Tables
        PROVE  /\ Unique(rows'[t])
               /\ \A p \in Processes : Apart(open[p][t], rows'[t])
    <2>1. CASE t = "matches"
      <3>1. Unique(M) /\ \A p \in Processes : Apart(open[p]["matches"], M)
        BY <1>1 DEF TablesInv
      <3>2. Unique(rows'["matches"])
        BY <1>2, <1>3, <3>1 DEF Unique
      <3>3. \A p \in Processes : Apart(open[p]["matches"], rows'["matches"])
        BY <1>2, <1>3, <3>1 DEF Apart
      <3> QED BY <2>1, <3>2, <3>3
    <2>2. CASE t # "matches"
      BY <1>3, <2>2 DEF TablesInv
    <2> QED BY <2>1, <2>2
  <1>6. TablesInv'
    BY <1>3, <1>5 DEF TablesInv
  <1> QED BY <1>2, <1>3, <1>4, <1>6

-----------------------------------------------------------------------------
(* What a step leaves as it was *)

LEMMA QuietClub ==
    ASSUME TablesInv, TablesInv', ClubInv, UNCHANGED <<rows, source, moved>>,
           \A t \in Tables : nextId[t] <= nextId'[t]
    PROVE  ClubInv'
  <1>1. ASSUME NextIdsAreFree, NEW t \in Tables, NEW r \in rows[t]
        PROVE  r.id < nextId'[t]
    <2>1. r.id < nextId[t] /\ nextId[t] <= nextId'[t]
      BY <1>1 DEF NextIdsAreFree
    <2>2. r.id \in Nat /\ nextId[t] \in Nat /\ nextId'[t] \in Nat
      BY RecordShape, BoundsAssumption DEF TablesInv
    <2> QED BY <2>1, <2>2
  <1>2. NextIdsAreFree => NextIdsAreFree'
    BY <1>1 DEF NextIdsAreFree
  <1> QED BY <1>2 DEF ClubInv

LEMMA QuietCopy ==
    ASSUME TablesInv, TablesInv', ClubInv, CopyInv,
           UNCHANGED <<source, copying, moved>>, open'[Copier] = open[Copier],
           \A t \in Tables : nextId[t] <= nextId'[t]
    PROVE  CopyInv'
  <1>1. ASSUME NEW t \in Tables, NEW r \in source.rows[t], r.id < nextId[t]
        PROVE  r.id < nextId'[t]
    <2>1. nextId[t] <= nextId'[t] /\ r \in Records
      BY OldClubIs DEF ClubInv
    <2>2. r.id \in Nat /\ nextId[t] \in Nat /\ nextId'[t] \in Nat
      BY <2>1, RecordShape, BoundsAssumption DEF TablesInv
    <2> QED BY <1>1, <2>1, <2>2
  <1>2. \A k \in {1, 2} : TABLE_ORDER[k] \in Tables
    BY InOrder
  <1>3. ASSUME NEW k \in {1, 2}
        PROVE  LET t == TABLE_ORDER[k]
               IN  /\ open'[Copier][t] =
                         IF Inserted(k) THEN source.rows[t] ELSE {}
                   /\ Advanced(k) =>
                         \A r \in source.rows[t] : r.id < nextId'[t]
    BY <1>1, <1>2 DEF CopyInv
  <1> QED BY <1>3 DEF CopyInv, Inserted, Advanced

\* Only instance i acts, if any.
OnlyMoves(i) ==
    /\ at' \in [Instances -> Places]
    /\ seen' \in [Instances -> Nat]
    /\ organizer' \in [Instances -> 0..MaxId]
    /\ \A j \in Instances \ {i} :
          /\ at'[j] = at[j] /\ seen'[j] = seen[j]
          /\ organizer'[j] = organizer[j] /\ open'[j] = open[j]

RowsRemain ==
    /\ rows["organizers"] # {} => rows'["organizers"] # {}
    /\ rows["matches"] # {} => rows'["matches"] # {}

LEMMA OtherStart ==
    ASSUME NEW i \in Instances, StartInv(i), RowsRemain,
           at'[i] = at[i], seen'[i] = seen[i], organizer'[i] = organizer[i],
           open'[i] = open[i]
    PROVE  StartInv(i)'
  BY DEF StartInv, Knows, OpenAt, NewOrganizer, SeedRow, RowsRemain

LEMMA StartsKept ==
    ASSUME StartsInv, NEW i, OnlyMoves(i), RowsRemain,
           i \in Instances => StartInv(i)'
    PROVE  StartsInv'
  <1>1. ASSUME NEW j \in Instances PROVE StartInv(j)'
    <2>1. CASE j = i
      BY <2>1
    <2>2. CASE j # i
      BY <2>2, OtherStart DEF StartsInv, OnlyMoves
    <2> QED BY <2>1, <2>2
  <1> QED BY <1>1 DEF StartsInv, OnlyMoves

-----------------------------------------------------------------------------
(* The steps of an instance *)

LEMMA WhoIsWho ==
    /\ Instances \subseteq Processes /\ Copier \in Processes
    /\ \A i \in Instances : i # Copier
  BY CopierAssumption DEF Processes

\* An instance goes on and writes nothing.
LEMMA MovesOn ==
    ASSUME DataInv, NEW i \in Instances, OnlyMoves(i), TablesInv',
           UNCHANGED <<rows, open, script>>,
           \A t \in Tables : nextId[t] <= nextId'[t],
           at[i] \notin {"admitted", "seeded"},
           at'[i] \notin {"admitted", "seeded"},
           Knows(at'[i], seen'[i], organizer'[i]),
           at'[i] = "serving" => Orphans = {}
    PROVE  DataInv'
  <1>1. UNCHANGED <<source, copying, moved>>
    BY DEF script
  <1>2. ClubInv' /\ CopyInv'
    BY <1>1, QuietClub, QuietCopy DEF DataInv
  <1>3. StartInv(i)'
    <2>1. \A t \in Tables : open'[i][t] = {}
      BY DEF DataInv, StartsInv, StartInv, OpenAt
    <2> QED BY <2>1 DEF StartInv, Knows, OpenAt
  <1>4. StartsInv'
    BY <1>3, StartsKept DEF DataInv, RowsRemain
  <1>5. EventsAreOwned'
    BY DEF DataInv, EventsAreOwned, Orphans, OnlyMoves
  <1> QED BY <1>2, <1>4, <1>5 DEF DataInv

LEMMA EndsOn ==
    ASSUME DataInv, NEW i \in Instances, End(i), UNCHANGED <<rows, nextId, script>>
    PROVE  DataInv'
  <1>1. UNCHANGED <<source, copying, moved>>
    BY DEF script
  <1>2. /\ TablesInv'
        /\ \A t \in Tables : open'[i][t] = {}
        /\ \A q \in Processes \ {i} : open'[q] = open[q]
    BY WhoIsWho, RollbackKeepsTables DEF DataInv, End
  <1>3. \A t \in Tables : nextId[t] <= nextId'[t]
    BY DEF DataInv, TablesInv
  <1>4. ClubInv' /\ CopyInv'
    BY <1>1, <1>2, <1>3, WhoIsWho, QuietClub, QuietCopy DEF DataInv
  <1>5. at'[i] = "down" /\ OnlyMoves(i)
    BY <1>2, WhoIsWho, BoundsAssumption
       DEF OnlyMoves, DataInv, StartsInv, End, Goto, Keep, Places, Nothing
  <1>6. StartInv(i)'
    BY <1>2, <1>5 DEF StartInv, Knows, OpenAt
  <1>7. StartsInv'
    BY <1>5, <1>6, StartsKept DEF DataInv, RowsRemain
  <1>8. EventsAreOwned'
    BY <1>5 DEF DataInv, EventsAreOwned, Orphans, OnlyMoves
  <1> QED BY <1>2, <1>4, <1>7, <1>8 DEF DataInv

\* An instance inserts one row of its own.
LEMMA InsertsOn ==
    ASSUME DataInv, NEW i \in Instances, OnlyMoves(i), NEW t \in Tables,
           NEW r \in Records, CanInsert(i, t, r),
           \A u \in Tables : open[i][u] = {},
           Insert(i, t, r), UNCHANGED <<rows, nextId, script>>,
           Knows(at'[i], seen'[i], organizer'[i]),
           \A u \in Tables :
              (open[i][u] \cup IF u = t THEN {r} ELSE {}) = OpenAt(i, u)',
           at'[i] # "serving"
    PROVE  DataInv'
  <1>1. UNCHANGED <<source, copying, moved>>
    BY DEF script
  <1>2. /\ open' = [open EXCEPT ![i][t] = {r}]
        /\ {r} \in SUBSET Records /\ Unique({r})
        /\ \A x \in {r} : CanInsert(i, t, x)
    BY DEF Insert, Unique
  <1>3. /\ TablesInv'
        /\ open'[i][t] = {r}
        /\ \A u \in Tables \ {t} : open'[i][u] = open[i][u]
        /\ \A q \in Processes \ {i} : open'[q] = open[q]
    BY <1>2, WhoIsWho, InsertKeepsTables DEF DataInv
  <1>4. \A u \in Tables : nextId[u] <= nextId'[u]
    BY DEF DataInv, TablesInv
  <1>5. ClubInv' /\ CopyInv'
    BY <1>1, <1>3, <1>4, WhoIsWho, QuietClub, QuietCopy DEF DataInv
  <1>6. StartInv(i)'
    <2>1. \A u \in Tables : open'[i][u] = OpenAt(i, u)'
      BY <1>3
    <2> QED BY <2>1 DEF StartInv, Knows
  <1>7. StartsInv'
    BY <1>6, StartsKept DEF DataInv, RowsRemain
  <1>8. EventsAreOwned'
    BY DEF DataInv, EventsAreOwned, Orphans, OnlyMoves
  <1> QED BY <1>3, <1>5, <1>7, <1>8 DEF DataInv

\* A name of the old club is still free as long as the club has not moved.
LEMMA AdminIsFree ==
    ASSUME DataInv, NEW p \in Processes, NEW r \in open[p]["organizers"],
           r.key = Admin
    PROVE  ~moved /\ \A o \in rows["organizers"] : o.key # Admin
  <1>1. \A o \in rows["organizers"] : o.key # Admin
    BY InOrder DEF DataInv, TablesInv, Apart
  <1>2. ~moved
    BY <1>1, OldClubHas DEF DataInv, ClubInv
  <1> QED BY <1>1, <1>2

LEMMA SeedIsFree ==
    ASSUME DataInv, NEW p \in Processes, NEW r \in open[p]["matches"],
           r.key = SeedEvent
    PROVE  ~moved /\ rows["matches"] = {}
  <1>1. \A m \in rows["matches"] : m.key # SeedEvent
    BY InOrder DEF DataInv, TablesInv, Apart
  <1>2. ASSUME moved PROVE FALSE
    <2>1. PICK m \in source.rows["matches"] : m.key = SeedEvent
      BY OldClubHas DEF DataInv, ClubInv
    <2>2. <<m.id, m.key>> \in Names(source.rows["matches"])
      BY <2>1 DEF Names
    <2>3. <<m.id, m.key>> \in Names(rows["matches"])
      BY <1>2, <2>2 DEF DataInv, ClubInv
    <2>4. PICK q \in rows["matches"] : <<m.id, m.key>> = <<q.id, q.key>>
      BY <2>3 DEF Names
    <2> QED BY <1>1, <2>1, <2>4
  <1> QED BY <1>1, <1>2 DEF DataInv, ClubInv

LEMMA CommitsOrganizer ==
    ASSUME DataInv, NEW i \in Instances, CommitOrganizer(i), UNCHANGED script
    PROVE  DataInv'
  <1> DEFINE r == NewOrganizer(i)
  <1>1. UNCHANGED <<source, copying, moved, nextId>>
    BY DEF script, CommitOrganizer
  <1>2. /\ open[i]["organizers"] = {r}
        /\ \A t \in Tables \ {"organizers"} : open[i][t] = {}
        /\ at[i] = "admitted" /\ seen[i] \in 1..MaxId
    BY InOrder DEF DataInv, StartsInv, StartInv, OpenAt, Knows, CommitOrganizer
  <1>3. r.key = Admin
    BY DEF NewOrganizer, Row
  <1>4. /\ TablesInv'
        /\ \A t \in Tables : rows'[t] = rows[t] \cup open[i][t]
        /\ \A t \in Tables : open'[i][t] = {}
        /\ \A q \in Processes \ {i} : open'[q] = open[q]
    BY <1>1, WhoIsWho, CommitKeepsTables DEF DataInv, CommitOrganizer
  <1>5. /\ rows'["organizers"] = rows["organizers"] \cup {r}
        /\ \A t \in Tables \ {"organizers"} : rows'[t] = rows[t]
    <2> HIDE DEF r
    <2>1. rows'["organizers"] = rows["organizers"] \cup {r}
      BY <1>2, <1>4, InOrder
    <2>2. ASSUME NEW t \in Tables \ {"organizers"} PROVE rows'[t] = rows[t]
      <3>1. rows'[t] = rows[t] \cup {}
        BY <1>2, <1>4
      <3> QED BY <3>1
    <2> QED BY <2>1, <2>2
  <1>6. ~moved
    BY <1>2, <1>3, WhoIsWho, AdminIsFree
  <1>7. ClubInv'
    BY <1>1, <1>3, <1>5, <1>6, InOrder DEF DataInv, ClubInv
  <1>8. \A t \in Tables : nextId[t] <= nextId'[t]
    BY <1>1 DEF DataInv, TablesInv
  <1>9. CopyInv'
    BY <1>1, <1>4, <1>8, WhoIsWho, QuietCopy DEF DataInv
  <1>10. /\ at'[i] = "counting" /\ organizer'[i] = seen[i]
         /\ OnlyMoves(i)
    BY <1>2, <1>4, WhoIsWho
       DEF OnlyMoves, DataInv, StartsInv, CommitOrganizer, Goto, Places
  <1>11. StartInv(i)'
    BY <1>2, <1>4, <1>5, <1>10 DEF StartInv, Knows, OpenAt
  <1>12. StartsInv'
    BY <1>5, <1>10, <1>11, InOrder, StartsKept DEF DataInv, RowsRemain
  <1>13. EventsAreOwned'
    BY <1>5, <1>10, InOrder DEF DataInv, EventsAreOwned, Orphans, OnlyMoves
  <1> QED BY <1>4, <1>7, <1>9, <1>12, <1>13 DEF DataInv

LEMMA CommitsSeed ==
    ASSUME DataInv, NEW i \in Instances, CommitSeed(i), UNCHANGED script
    PROVE  DataInv'
  <1> DEFINE r == SeedRow(i)
  <1>1. UNCHANGED <<source, copying, moved, nextId>>
    BY DEF script, CommitSeed
  <1>2. /\ open[i]["matches"] = {r}
        /\ \A t \in Tables \ {"matches"} : open[i][t] = {}
        /\ at[i] = "seeded" /\ organizer[i] \in 1..MaxId
        /\ rows["organizers"] # {}
    BY InOrder DEF DataInv, StartsInv, StartInv, OpenAt, Knows, CommitSeed
  <1>3. r.key = SeedEvent /\ r.owner # NoOwner
    BY <1>2, NobodyAssumption DEF SeedRow, Row
  <1>4. /\ TablesInv'
        /\ \A t \in Tables : rows'[t] = rows[t] \cup open[i][t]
        /\ \A t \in Tables : open'[i][t] = {}
        /\ \A q \in Processes \ {i} : open'[q] = open[q]
    BY <1>1, WhoIsWho, CommitKeepsTables DEF DataInv, CommitSeed
  <1>5. /\ rows'["matches"] = rows["matches"] \cup {r}
        /\ \A t \in Tables \ {"matches"} : rows'[t] = rows[t]
    <2> HIDE DEF r
    <2>1. rows'["matches"] = rows["matches"] \cup {r}
      BY <1>2, <1>4, InOrder
    <2>2. ASSUME NEW t \in Tables \ {"matches"} PROVE rows'[t] = rows[t]
      <3>1. rows'[t] = rows[t] \cup {}
        BY <1>2, <1>4
      <3> QED BY <3>1
    <2> QED BY <2>1, <2>2
  <1>6. ~moved
    BY <1>2, <1>3, WhoIsWho, SeedIsFree
  <1>7. ClubInv'
    BY <1>1, <1>3, <1>5, <1>6, InOrder DEF DataInv, ClubInv
  <1>8. \A t \in Tables : nextId[t] <= nextId'[t]
    BY <1>1 DEF DataInv, TablesInv
  <1>9. CopyInv'
    BY <1>1, <1>4, <1>8, WhoIsWho, QuietCopy DEF DataInv
  <1>10. /\ at'[i] = "owning" /\ organizer'[i] = organizer[i]
         /\ OnlyMoves(i)
    BY <1>2, <1>4, WhoIsWho
       DEF OnlyMoves, DataInv, StartsInv, CommitSeed, Goto, Keep, Places, Nothing
  <1>11. StartInv(i)'
    BY <1>2, <1>4, <1>5, <1>10, InOrder DEF StartInv, Knows, OpenAt
  <1>12. StartsInv'
    BY <1>5, <1>10, <1>11, InOrder, StartsKept DEF DataInv, RowsRemain
  <1>13. EventsAreOwned'
    BY <1>3, <1>5, <1>10, InOrder DEF DataInv, EventsAreOwned, Orphans, OnlyMoves
  <1> QED BY <1>4, <1>7, <1>9, <1>12, <1>13 DEF DataInv

LEMMA AssignsOwner ==
    ASSUME DataInv, NEW i \in Instances, AssignOrphans(i), UNCHANGED script
    PROVE  DataInv'
  <1>1. UNCHANGED <<source, copying, moved, nextId, open>>
    BY DEF script, AssignOrphans
  <1>2. at[i] = "assigning" /\ seen[i] \in 1..MaxId /\ organizer[i] \in 1..MaxId
        /\ rows["organizers"] # {} /\ rows["matches"] # {}
    BY DEF DataInv, StartsInv, StartInv, Knows, AssignOrphans
  <1>3. rows' = [rows EXCEPT !["matches"] = {WithOwner(m, seen[i]) : m \in @}]
    BY DEF AssignOrphans, WithOwner
  <1>4. /\ TablesInv'
        /\ \A t \in Tables \ {"matches"} : rows'[t] = rows[t]
        /\ rows'["matches"] = {WithOwner(m, seen[i]) : m \in rows["matches"]}
        /\ Names(rows'["matches"]) = Names(rows["matches"])
        /\ \A m \in rows'["matches"] : m.owner # NoOwner
    BY <1>1, <1>2, <1>3, AssignKeepsTables DEF DataInv
  <1>5. \A m \in rows'["matches"] :
           \E q \in rows["matches"] : q.id = m.id /\ q.key = m.key
    <2> SUFFICES ASSUME NEW m \in rows'["matches"]
                 PROVE  \E q \in rows["matches"] : q.id = m.id /\ q.key = m.key
      OBVIOUS
    <2>1. <<m.id, m.key>> \in Names(rows["matches"])
      BY <1>4 DEF Names
    <2> QED BY <2>1 DEF Names
  <1>6. NextIdsAreFree => NextIdsAreFree'
    <2> SUFFICES ASSUME NextIdsAreFree, NEW t \in Tables, NEW m \in rows'[t]
                 PROVE  m.id < nextId[t]
      BY <1>1 DEF NextIdsAreFree
    <2>1. CASE t = "matches"
      <3>1. PICK q \in rows["matches"] : q.id = m.id
        BY <1>5, <2>1
      <3> QED BY <2>1, <3>1 DEF NextIdsAreFree
    <2>2. CASE t # "matches"
      BY <1>4, <2>2 DEF NextIdsAreFree
    <2> QED BY <2>1, <2>2
  <1>7. ClubInv'
    <2>1. rows'["organizers"] = rows["organizers"]
      BY <1>4, InOrder
    <2>2. \A t \in Tables \ {"organizers", "matches"} : rows'[t] = rows[t]
      BY <1>4
    <2>3. (\A m \in rows["matches"] : m.key = SeedEvent) =>
             \A m \in rows'["matches"] : m.key = SeedEvent
      BY <1>5
    <2> QED BY <1>1, <1>4, <1>6, <2>1, <2>2, <2>3 DEF DataInv, ClubInv
  <1>8. \A t \in Tables : nextId[t] <= nextId'[t]
    BY <1>1 DEF DataInv, TablesInv
  <1>9. CopyInv'
    BY <1>1, <1>4, <1>8, QuietCopy DEF DataInv
  <1>10. /\ at'[i] = "serving" /\ organizer'[i] = organizer[i]
         /\ OnlyMoves(i)
    BY <1>1
       DEF OnlyMoves, DataInv, StartsInv, AssignOrphans, Goto, Keep, Places,
           Nothing
  <1>11. RowsRemain
    BY <1>4, InOrder DEF RowsRemain
  <1>12. StartInv(i)'
    BY <1>1, <1>2, <1>10, <1>11
       DEF DataInv, StartsInv, StartInv, Knows, OpenAt, RowsRemain
  <1>13. StartsInv'
    BY <1>10, <1>11, <1>12, StartsKept DEF DataInv
  <1>14. EventsAreOwned'
    BY <1>4 DEF EventsAreOwned, Orphans
  <1> QED BY <1>4, <1>7, <1>9, <1>13, <1>14 DEF DataInv

\* An instance goes on and nothing but what it is at and has seen changes.
LEMMA OnlyLooks ==
    ASSUME DataInv, NEW i \in Instances, NEW place \in Places, NEW s \in Nat,
           NEW o \in 0..MaxId,
           at' = [at EXCEPT ![i] = place], seen' = [seen EXCEPT ![i] = s],
           organizer' = [organizer EXCEPT ![i] = o],
           UNCHANGED <<rows, open, nextId, script>>,
           at[i] \notin {"admitted", "seeded"},
           place \notin {"admitted", "seeded"},
           Knows(place, s, o), place = "serving" => Orphans = {}
    PROVE  DataInv'
  <1>1. TablesInv' /\ \A t \in Tables : nextId[t] <= nextId'[t]
    BY DEF DataInv, TablesInv
  <1>2. OnlyMoves(i) /\ at'[i] = place /\ seen'[i] = s /\ organizer'[i] = o
    BY WhoIsWho DEF OnlyMoves, DataInv, StartsInv
  <1> QED BY <1>1, <1>2, MovesOn

LEMMA StartShape ==
    ASSUME DataInv, NEW i \in Instances
    PROVE  /\ at[i] \in Places /\ seen[i] \in Nat /\ organizer[i] \in 0..MaxId
           /\ at = [at EXCEPT ![i] = at[i]]
           /\ seen = [seen EXCEPT ![i] = seen[i]]
           /\ organizer = [organizer EXCEPT ![i] = organizer[i]]
           /\ Knows(at[i], seen[i], organizer[i])
  BY DEF DataInv, StartsInv, StartInv

LEMMA RowId ==
    ASSUME DataInv, NEW t \in Tables, NEW r \in rows[t]
    PROVE  r.id \in 1..MaxId
  BY RecordShape DEF DataInv, TablesInv

LEMMA LooksUp ==
    ASSUME DataInv, NEW i \in Instances, LookUpOrganizer(i), UNCHANGED script
    PROVE  DataInv'
  <1> DEFINE named == {o \in rows["organizers"] : o.key = Admin}
             found == (CHOOSE o \in named : TRUE).id
  <1>1. CASE named # {}
    <2>1. (CHOOSE o \in named : TRUE) \in rows["organizers"]
      BY <1>1
    <2>2. found \in 1..MaxId /\ rows["organizers"] # {}
      BY <2>1, InOrder, RowId
    <2>3. /\ at[i] = "lookup" /\ at' = [at EXCEPT ![i] = "counting"]
          /\ organizer' = [organizer EXCEPT ![i] = found]
          /\ UNCHANGED <<rows, open, nextId, seen>>
      BY <1>1 DEF LookUpOrganizer, Goto
    <2> HIDE DEF found
    <2>4. found \in 0..MaxId
      BY <2>2, BoundsAssumption
    <2>5. Knows("counting", seen[i], found)
      BY <2>2 DEF Knows
    <2> QED BY <2>3, <2>4, <2>5, StartShape, OnlyLooks DEF Places
  <1>2. CASE named = {}
    <2>1. /\ Draw("organizers") /\ Keep(i, nextId["organizers"])
          /\ Goto(i, "naming") /\ at[i] = "lookup"
          /\ UNCHANGED <<organizer, rows, open>>
      BY <1>2 DEF LookUpOrganizer
    <2>2. TablesInv' /\ \A u \in Tables : nextId[u] <= nextId'[u]
      BY <2>1, InOrder, DrawKeepsTables DEF DataInv
    <2>3. nextId["organizers"] \in 1..MaxId
      BY <2>1, InOrder, BoundsAssumption DEF Draw, DataInv, TablesInv
    <2>4. /\ OnlyMoves(i) /\ at'[i] = "naming"
          /\ seen'[i] = nextId["organizers"] /\ organizer'[i] = organizer[i]
      BY <2>1, <2>3, WhoIsWho
         DEF OnlyMoves, DataInv, StartsInv, Goto, Keep, Places
    <2>5. Knows(at'[i], seen'[i], organizer'[i])
      BY <2>3, <2>4 DEF Knows
    <2> QED BY <2>1, <2>2, <2>4, <2>5, MovesOn
  <1> QED BY <1>1, <1>2

LEMMA StartsToSeed ==
    ASSUME DataInv, NEW i \in Instances, StartSeeding(i), UNCHANGED script
    PROVE  DataInv'
  <1>1. /\ Draw("matches") /\ Keep(i, nextId["matches"])
        /\ Goto(i, "seeding") /\ at[i] = "counting"
        /\ UNCHANGED <<organizer, rows, open>>
    BY DEF StartSeeding
  <1>2. TablesInv' /\ \A u \in Tables : nextId[u] <= nextId'[u]
    BY <1>1, InOrder, DrawKeepsTables DEF DataInv
  <1>3. nextId["matches"] \in 1..MaxId
    BY <1>1, InOrder, BoundsAssumption DEF Draw, DataInv, TablesInv
  <1>4. /\ OnlyMoves(i) /\ at'[i] = "seeding"
        /\ seen'[i] = nextId["matches"] /\ organizer'[i] = organizer[i]
    BY <1>1, <1>3, WhoIsWho
       DEF OnlyMoves, DataInv, StartsInv, Goto, Keep, Places
  <1>5. Knows(at'[i], seen'[i], organizer'[i])
    BY <1>1, <1>3, <1>4, StartShape DEF Knows
  <1> QED BY <1>1, <1>2, <1>4, <1>5, MovesOn

LEMMA InsertsRow ==
    ASSUME DataInv, NEW i \in Instances,
           InsertOrganizer(i) \/ InsertSeed(i), UNCHANGED script
    PROVE  DataInv'
  <1>1. CASE InsertOrganizer(i)
    <2> DEFINE r == NewOrganizer(i)
    <2>1. /\ at[i] = "naming" /\ seen[i] \in 1..MaxId
          /\ \A u \in Tables : open[i][u] = {}
      BY <1>1 DEF InsertOrganizer, DataInv, StartsInv, StartInv, Knows, OpenAt
    <2>2. r \in Records
      BY <2>1 DEF NewOrganizer, Row, Records
    <2>3. /\ OnlyMoves(i) /\ at'[i] = "admitted"
          /\ seen'[i] = seen[i] /\ organizer'[i] = organizer[i]
      <3>1. \A j \in Instances \ {i} : open'[j] = open[j]
        BY <1>1, WhoIsWho DEF InsertOrganizer, Insert, DataInv, TablesInv
      <3> QED BY <1>1, <3>1
              DEF InsertOrganizer, OnlyMoves, DataInv, StartsInv, Goto, Places
    <2>4. Knows(at'[i], seen'[i], organizer'[i])
      BY <2>1, <2>3 DEF Knows
    <2>5. NewOrganizer(i)' = r
      BY <2>3 DEF NewOrganizer
    <2>6. \A u \in Tables :
             (open[i][u] \cup IF u = "organizers" THEN {r} ELSE {})
                = OpenAt(i, u)'
      BY <2>1, <2>3, <2>5 DEF OpenAt
    <2>7. /\ CanInsert(i, "organizers", r) /\ Insert(i, "organizers", r)
          /\ UNCHANGED <<rows, nextId>>
      BY <1>1 DEF InsertOrganizer
    <2> HIDE DEF r
    <2> QED BY <2>1, <2>2, <2>3, <2>4, <2>6, <2>7, InOrder, InsertsOn
  <1>2. CASE InsertSeed(i)
    <2> DEFINE r == SeedRow(i)
    <2>1. /\ at[i] = "seeding" /\ seen[i] \in 1..MaxId
          /\ organizer[i] \in 1..MaxId /\ rows["organizers"] # {}
          /\ \A u \in Tables : open[i][u] = {}
      BY <1>2 DEF InsertSeed, DataInv, StartsInv, StartInv, Knows, OpenAt
    <2>2. r \in Records
      BY <2>1 DEF SeedRow, Row, Records
    <2>3. /\ OnlyMoves(i) /\ at'[i] = "seeded"
          /\ seen'[i] = seen[i] /\ organizer'[i] = organizer[i]
      <3>1. \A j \in Instances \ {i} : open'[j] = open[j]
        BY <1>2, WhoIsWho DEF InsertSeed, Insert, DataInv, TablesInv
      <3> QED BY <1>2, <3>1
              DEF InsertSeed, OnlyMoves, DataInv, StartsInv, Goto, Places
    <2>4. Knows(at'[i], seen'[i], organizer'[i])
      BY <2>1, <2>3 DEF Knows
    <2>5. SeedRow(i)' = r
      BY <2>3 DEF SeedRow
    <2>6. \A u \in Tables :
             (open[i][u] \cup IF u = "matches" THEN {r} ELSE {})
                = OpenAt(i, u)'
      BY <2>1, <2>3, <2>5 DEF OpenAt
    <2>7. /\ CanInsert(i, "matches", r) /\ Insert(i, "matches", r)
          /\ UNCHANGED <<rows, nextId>>
      BY <1>2 DEF InsertSeed
    <2> HIDE DEF r
    <2> QED BY <2>1, <2>2, <2>3, <2>4, <2>6, <2>7, InOrder, InsertsOn
  <1> QED BY <1>1, <1>2

LEMMA InstanceStep ==
    ASSUME CutoverInv, NEW i \in Instances,
           StartupStep(i) \/ Crash(i) \/ LoseLock(i), UNCHANGED script
    PROVE  DataInv'
  <1> USE DEF Goto, Keep, Nothing
  <1>1. /\ DataInv /\ version \in Nat /\ 0 \in 0..MaxId
        /\ ExpectedHead \in Nat
    BY HeadAssumption, BoundsAssumption DEF CutoverInv, LockInv
  <1>2. CASE Start(i) \/ TakeLock(i) \/ Unlock(i)
    <2>1. PICK place \in {"locking", "lookup", "reading", "done"} :
             /\ at' = [at EXCEPT ![i] = place]
             /\ at[i] \notin {"admitted", "seeded"}
             /\ UNCHANGED <<rows, open, nextId, seen, organizer>>
      BY <1>2 DEF Start, TakeLock, Unlock, database
    <2>2. Knows(place, seen[i], organizer[i]) /\ place \in Places
      BY <2>1 DEF Knows, Places
    <2> QED BY <1>1, <2>1, <2>2, StartShape, OnlyLooks
  <1>3. CASE ReadVersion(i) \/ Upgrade(i)
    <2>1. PICK place \in {"upgrading", "unlocking"} :
             /\ at' = [at EXCEPT ![i] = place]
             /\ at[i] \notin {"admitted", "seeded"}
             /\ seen' = [seen EXCEPT ![i] = 0]
                \/ seen' = [seen EXCEPT ![i] = version + 1]
             /\ UNCHANGED <<rows, open, nextId, organizer>>
      BY <1>3 DEF ReadVersion, Upgrade, database
    <2>2. place \in Places /\ \A s : Knows(place, s, organizer[i])
      BY <2>1 DEF Knows, Places
    <2>3. PICK s \in Nat : seen' = [seen EXCEPT ![i] = s]
      BY <1>1, <2>1
    <2> QED BY <1>1, <2>1, <2>2, <2>3, StartShape, OnlyLooks
  <1>4. CASE \/ UpgradeFails(i) \/ UnlockFails(i) \/ NoSchema(i)
             \/ OrganizerExists(i) \/ SeedExists(i) \/ OwnerUnclear(i)
             \/ Crash(i)
    <2>1. End(i) /\ UNCHANGED <<rows, nextId>>
      BY <1>4 DEF UpgradeFails, UnlockFails, NoSchema, OrganizerExists,
                  SeedExists, OwnerUnclear, Crash, Raise
    <2> QED BY <1>1, <2>1, EndsOn
  <1>5. CASE LookUpOrganizer(i)
    BY <1>1, <1>5, LooksUp
  <1>6. CASE InsertOrganizer(i) \/ InsertSeed(i)
    BY <1>1, <1>6, InsertsRow
  <1>7. CASE CommitOrganizer(i)
    BY <1>1, <1>7, CommitsOrganizer
  <1>8. CASE EventsExist(i)
    <2>1. /\ at' = [at EXCEPT ![i] = "owning"] /\ at[i] = "counting"
          /\ rows["matches"] # {} /\ seen' = [seen EXCEPT ![i] = 0]
          /\ UNCHANGED <<rows, open, nextId, organizer>>
      BY <1>8 DEF EventsExist, database
    <2>2. Knows("owning", 0, organizer[i])
      BY <1>1, <2>1, StartShape DEF Knows
    <2> QED BY <1>1, <2>1, <2>2, StartShape, OnlyLooks DEF Places
  <1>9. CASE StartSeeding(i)
    BY <1>1, <1>9, StartsToSeed
  <1>10. CASE CommitSeed(i)
    BY <1>1, <1>10, CommitsSeed
  <1>11. CASE NoOrphans(i)
    <2>1. /\ at' = [at EXCEPT ![i] = "serving"] /\ at[i] = "owning"
          /\ Orphans = {} \/ rows["organizers"] = {}
          /\ UNCHANGED <<rows, open, nextId, seen, organizer>>
      BY <1>11 DEF NoOrphans, database
    <2>2. Knows("serving", seen[i], organizer[i]) /\ Orphans = {}
      BY <1>1, <2>1, StartShape DEF Knows
    <2> QED BY <1>1, <2>1, <2>2, StartShape, OnlyLooks DEF Places
  <1>12. CASE FindOwner(i)
    <2> DEFINE s == (CHOOSE o \in rows["organizers"] : TRUE).id
    <2>1. /\ at' = [at EXCEPT ![i] = "assigning"] /\ at[i] = "owning"
          /\ seen' = [seen EXCEPT ![i] = s]
          /\ UNCHANGED <<rows, open, nextId, organizer>>
      BY <1>12 DEF FindOwner, database
    <2>2. rows["organizers"] # {}
      BY <1>1, <2>1, StartShape DEF Knows
    <2>3. s \in 1..MaxId
      BY <1>1, <2>2, InOrder, RowId
    <2> HIDE DEF s
    <2>4. Knows("assigning", s, organizer[i])
      BY <1>1, <2>1, <2>3, StartShape DEF Knows
    <2>5. s \in Nat
      BY <2>3, BoundsAssumption
    <2> QED BY <1>1, <2>1, <2>4, <2>5, StartShape, OnlyLooks DEF Places
  <1>13. CASE AssignOrphans(i)
    BY <1>1, <1>13, AssignsOwner
  <1>14. CASE LoseLock(i)
    <2>1. UNCHANGED <<rows, open, nextId, seen, organizer, at>>
      BY <1>14 DEF LoseLock, database
    <2>2. TablesInv'
      BY <1>1, <2>1 DEF DataInv, TablesInv
    <2>3. StartsInv'
      BY <1>1, <2>1 DEF DataInv, StartsInv, StartInv, Knows, OpenAt,
                        NewOrganizer, SeedRow
    <2>4. ClubInv'
      BY <1>1, <2>1 DEF DataInv, ClubInv, NextIdsAreFree, script
    <2>5. CopyInv'
      BY <1>1, <2>1 DEF DataInv, CopyInv, Inserted, Advanced, script
    <2>6. EventsAreOwned'
      BY <1>1, <2>1 DEF DataInv, EventsAreOwned, Orphans
    <2> QED BY <2>2, <2>3, <2>4, <2>5, <2>6 DEF DataInv
  <1> QED BY <1>2, <1>3, <1>4, <1>5, <1>6, <1>7, <1>8, <1>9, <1>10, <1>11,
             <1>12, <1>13, <1>14 DEF StartupStep

-----------------------------------------------------------------------------
(* The steps of the script *)

\* The instances stand still.
LEMMA StartsStand ==
    ASSUME DataInv, UNCHANGED <<at, seen, organizer>>, RowsRemain,
           \A q \in Processes \ {Copier} : open'[q] = open[q]
    PROVE  StartsInv'
  <1>1. OnlyMoves(Copier)
    BY WhoIsWho DEF DataInv, StartsInv, OnlyMoves
  <1> QED BY <1>1, WhoIsWho, StartsKept DEF DataInv

\* The script goes on and writes nothing: only its own invariant is at stake.
LEMMA ScriptMoves ==
    ASSUME DataInv, UNCHANGED <<deployment, source, moved>>, CopyInv'
    PROVE  DataInv'
  <1>1. UNCHANGED <<rows, open, nextId, at, seen, organizer>>
    BY DEF deployment, database
  <1>2. TablesInv' /\ ClubInv' /\ EventsAreOwned'
    BY <1>1 DEF DataInv, TablesInv, ClubInv, NextIdsAreFree, EventsAreOwned,
                Orphans
  <1>3. StartsInv'
    BY <1>1, StartsStand DEF RowsRemain
  <1> QED BY <1>2, <1>3 DEF DataInv

LEMMA RollsBack ==
    ASSUME DataInv, Rollback(Copier), copying' = Idle,
           UNCHANGED <<rows, nextId, at, seen, organizer, source, moved>>
    PROVE  DataInv'
  <1>1. /\ TablesInv'
        /\ \A t \in Tables : open'[Copier][t] = {}
        /\ \A q \in Processes \ {Copier} : open'[q] = open[q]
    BY WhoIsWho, RollbackKeepsTables DEF DataInv
  <1>2. ClubInv' /\ EventsAreOwned'
    BY DEF DataInv, ClubInv, NextIdsAreFree, EventsAreOwned, Orphans
  <1>3. StartsInv'
    BY <1>1, StartsStand DEF RowsRemain
  <1>4. copying'.step = "idle" /\ copying'.table = 0
    BY DEF Idle
  <1>5. \A k \in {1, 2} : TABLE_ORDER[k] \in Tables
    BY InOrder
  <1>6. CopyInv'
    BY <1>1, <1>4, <1>5 DEF CopyInv, Inserted, Advanced
  <1> QED BY <1>1, <1>2, <1>3, <1>6 DEF DataInv

LEMMA RunsScript ==
    ASSUME DataInv, NEW d, RunScript(d)
    PROVE  DataInv'
  <1>1. /\ copying.step = "idle"
        /\ copying'.step = "check" /\ copying'.table = 1
        /\ UNCHANGED <<deployment, source, moved>>
    BY DEF RunScript, Step
  <1>2. UNCHANGED <<open, nextId>>
    BY <1>1 DEF deployment, database
  <1>3. CopyInv'
    BY <1>1, <1>2 DEF DataInv, CopyInv, Inserted, Advanced
  <1> QED BY <1>1, <1>3, ScriptMoves

\* A club that has moved stops the next run at its first table.
LEMMA ChecksEmpty ==
    ASSUME DataInv, CheckEmpty
    PROVE  DataInv'
  <1>1. /\ copying.step = "check" /\ rows[Table] = {}
        /\ copying'.step = "copy" /\ copying'.table = copying.table
        /\ UNCHANGED <<deployment, source, moved>>
    BY DEF CheckEmpty, Step
  <1>2. UNCHANGED <<open, nextId>>
    BY <1>1 DEF deployment, database
  <1>3. ~moved
    <2> SUFFICES ASSUME moved PROVE FALSE
      OBVIOUS
    <2>1. copying.table = 1
      BY <1>1 DEF DataInv, CopyInv
    <2>2. source.rows["organizers"] = {}
      BY <1>1, <2>1, InOrder DEF Table, DataInv, ClubInv
    <2> QED BY <2>2, OldClubHas DEF DataInv, ClubInv
  <1>4. CopyInv'
    BY <1>1, <1>2, <1>3 DEF DataInv, CopyInv, Inserted, Advanced
  <1> QED BY <1>1, <1>4, ScriptMoves

LEMMA ValidatesOrEnds ==
    ASSUME DataInv, Validate \/ CopyObject \/ Finish
    PROVE  DataInv'
  <1>1. UNCHANGED <<deployment, source, moved>>
    BY DEF Validate, CopyObject, Finish
  <1>2. UNCHANGED <<open, nextId>>
    BY <1>1 DEF deployment, database
  <1>3. CASE Validate
    <2>1. /\ copying.step = "validate"
          /\ copying'.step \in {"rollback", "commit"} /\ copying'.table = 0
      BY <1>3 DEF Validate, Step
    <2>2. CopyInv'
      BY <1>1, <1>2, <2>1 DEF DataInv, CopyInv, Inserted, Advanced
    <2> QED BY <1>1, <2>2, ScriptMoves
  <1>4. CASE CopyObject
    <2>1. CopyInv'
      BY <1>1, <1>2, <1>4 DEF CopyObject, DataInv, CopyInv, Inserted, Advanced
    <2> QED BY <1>1, <2>1, ScriptMoves
  <1>5. CASE Finish
    <2>1. /\ copying.step \in {"objects", "report"}
          /\ copying'.step = "idle" /\ copying'.table = 0
      BY <1>5 DEF Finish, Idle
    <2>2. CopyInv'
      BY <1>1, <1>2, <2>1 DEF DataInv, CopyInv, Inserted, Advanced
    <2> QED BY <1>1, <2>2, ScriptMoves
  <1> QED BY <1>3, <1>4, <1>5

LEMMA CopiesTable ==
    ASSUME DataInv, CopyTable
    PROVE  DataInv'
  <1> DEFINE k == copying.table
             t == TABLE_ORDER[k]
             S == source.rows[t]
  <1>1. /\ copying.step = "copy"
        /\ \A r \in S : CanInsert(Copier, t, r)
        /\ open' = [open EXCEPT ![Copier][t] = S]
        /\ copying'.step = "sequence" /\ copying'.table = k
        /\ UNCHANGED <<rows, nextId, at, seen, organizer, source, moved>>
    BY DEF CopyTable, Copied, Table, Step
  <1>2. k \in {1, 2} /\ t \in Tables /\ ~moved
    BY <1>1, InOrder DEF DataInv, CopyInv
  <1>3. S \in SUBSET Records /\ Unique(S)
    BY <1>2, OldClubIs DEF DataInv, ClubInv
  <1>4. /\ TablesInv'
        /\ open'[Copier][t] = S
        /\ \A u \in Tables \ {t} : open'[Copier][u] = open[Copier][u]
        /\ \A q \in Processes \ {Copier} : open'[q] = open[q]
    <2> HIDE DEF S, t
    <2> QED BY <1>1, <1>2, <1>3, WhoIsWho, InsertKeepsTables DEF DataInv
  <1>5. ClubInv' /\ EventsAreOwned'
    BY <1>1 DEF DataInv, ClubInv, NextIdsAreFree, EventsAreOwned, Orphans
  <1>6. StartsInv'
    BY <1>1, <1>4, StartsStand DEF RowsRemain
  <1>7. \A j \in {1, 2} : TABLE_ORDER[j] \in Tables
                          /\ (j # k => TABLE_ORDER[j] # t)
    BY <1>2, InOrder
  <1>8. ASSUME NEW j \in {1, 2}
        PROVE  /\ open'[Copier][TABLE_ORDER[j]] =
                     IF j <= k THEN source.rows[TABLE_ORDER[j]] ELSE {}
               /\ j < k => \A r \in source.rows[TABLE_ORDER[j]] :
                              r.id < nextId[TABLE_ORDER[j]]
    <2>1. CASE j = k
      BY <1>2, <1>4, <2>1
    <2>2. CASE j # k
      <3>1. open'[Copier][TABLE_ORDER[j]] = open[Copier][TABLE_ORDER[j]]
        BY <1>4, <1>7, <2>2
      <3> QED BY <1>1, <1>2, <2>2, <3>1 DEF DataInv, CopyInv, Inserted, Advanced
    <2> QED BY <2>1, <2>2
  <1>9. \A u \in Tables \ {"organizers", "matches"} : open'[Copier][u] = {}
    BY <1>2, <1>4, InOrder DEF DataInv, CopyInv
  <1>10. CopyInv'
    BY <1>1, <1>2, <1>8, <1>9 DEF CopyInv, Inserted, Advanced
  <1> QED BY <1>4, <1>5, <1>6, <1>10 DEF DataInv

LEMMA ResetsSequence ==
    ASSUME DataInv, ResetSequence
    PROVE  DataInv'
  <1> DEFINE k == copying.table
             t == TABLE_ORDER[k]
             h == HighestId(t)
  <1>1. /\ copying.step = "sequence"
        /\ nextId' = [nextId EXCEPT ![t] = h + 1]
        /\ UNCHANGED <<rows, open, at, seen, organizer, source, moved>>
    BY DEF ResetSequence, Table
  <1>2. k \in {1, 2} /\ t \in Tables /\ ~moved
    BY <1>1, InOrder DEF DataInv, CopyInv
  <1>3. \/ k = 2 /\ copying'.step = "validate" /\ copying'.table = 0
        \/ k = 1 /\ copying'.step = "check" /\ copying'.table = 2
    BY <1>2, InOrder DEF ResetSequence, NextTable, Step
  <1>4. h \in Nat /\ \A r \in open[Copier][t] : r.id <= h
    <2> DEFINE ids == {0} \cup {r.id : r \in Visible(t)}
    <2>1. Visible(t) \subseteq Records /\ open[Copier][t] \subseteq Visible(t)
      BY <1>2, WhoIsWho DEF Visible, DataInv, TablesInv
    <2>2. ids \subseteq 0..MaxId /\ ids # {}
      BY <2>1, RecordShape, BoundsAssumption
    <2>3. Max(ids) \in ids /\ \A y \in ids : Max(ids) >= y
      <3> HIDE DEF ids
      <3> QED BY <2>2, HighestIs, BoundsAssumption
    <2>4. h = Max(ids)
      BY DEF HighestId
    <2>5. \A r \in open[Copier][t] : r.id \in ids
      BY <2>1
    <2> HIDE DEF ids, h
    <2>6. \A y \in ids : y \in Nat
      BY <2>2, BoundsAssumption
    <2> QED BY <2>3, <2>4, <2>5, <2>6
  <1> HIDE DEF h
  <1>5. /\ nextId' \in [Tables -> Nat \ {0}]
        /\ nextId'[t] = h + 1
        /\ \A u \in Tables \ {t} : nextId'[u] = nextId[u]
    BY <1>1, <1>2, <1>4 DEF DataInv, TablesInv
  <1>6. TablesInv'
    BY <1>1, <1>5 DEF DataInv, TablesInv
  <1>7. ClubInv' /\ EventsAreOwned'
    BY <1>1, <1>2 DEF DataInv, ClubInv, EventsAreOwned, Orphans
  <1>8. StartsInv'
    BY <1>1, StartsStand DEF RowsRemain
  <1>9. open[Copier][t] = source.rows[t]
    BY <1>1, <1>2 DEF DataInv, CopyInv, Inserted
  <1>10. \A r \in source.rows[t] : r.id < nextId'[t]
    <2> SUFFICES ASSUME NEW r \in source.rows[t] PROVE r.id < nextId'[t]
      OBVIOUS
    <2>1. r.id <= h /\ r \in Records
      BY <1>2, <1>4, <1>9, OldClubIs DEF DataInv, ClubInv
    <2>2. r.id \in Nat
      BY <2>1, RecordShape, BoundsAssumption
    <2> QED BY <1>4, <1>5, <2>1, <2>2
  <1>11. ASSUME NEW j \in {1, 2}
         PROVE  /\ open[Copier][TABLE_ORDER[j]] =
                      IF j <= k THEN source.rows[TABLE_ORDER[j]] ELSE {}
                /\ j <= k => \A r \in source.rows[TABLE_ORDER[j]] :
                               r.id < nextId'[TABLE_ORDER[j]]
    <2>1. CASE j = k
      BY <1>2, <1>9, <1>10, <2>1
    <2>2. CASE j # k
      <3>1. TABLE_ORDER[j] \in Tables \ {t}
        BY <1>2, <2>2, InOrder
      <3> QED BY <1>1, <1>2, <1>5, <2>2, <3>1
              DEF DataInv, CopyInv, Inserted, Advanced
    <2> QED BY <2>1, <2>2
  <1>12. CopyInv'
    <2>1. ~moved' /\ \A u \in Tables \ {"organizers", "matches"} :
                       open'[Copier][u] = {}
      BY <1>1, <1>2 DEF DataInv, CopyInv
    <2> QED BY <1>1, <1>3, <1>11, <2>1 DEF CopyInv, Inserted, Advanced
  <1> QED BY <1>6, <1>7, <1>8, <1>12 DEF DataInv

\* The copy commits into a database without organizers and events.
LEMMA CommitsCopy ==
    ASSUME DataInv, CommitCopy
    PROVE  DataInv'
  <1>1. /\ copying.step = "commit"
        /\ copying'.step \in {"objects", "report"} /\ copying'.table = 0
        /\ moved' = TRUE /\ Commit(Copier)
        /\ UNCHANGED <<nextId, at, seen, organizer, source>>
    BY DEF CommitCopy, Step
  <1>2. /\ TablesInv'
        /\ \A t \in Tables : rows'[t] = rows[t] \cup open[Copier][t]
        /\ \A t \in Tables : open'[Copier][t] = {}
        /\ \A q \in Processes \ {Copier} : open'[q] = open[q]
    BY <1>1, WhoIsWho, CommitKeepsTables DEF DataInv
  <1>3. /\ open[Copier]["organizers"] = source.rows["organizers"]
        /\ open[Copier]["matches"] = source.rows["matches"]
        /\ \A r \in source.rows["organizers"] : r.id < nextId["organizers"]
        /\ \A r \in source.rows["matches"] : r.id < nextId["matches"]
    BY <1>1, InOrder DEF DataInv, CopyInv, Inserted, Advanced
  <1>4. source \in Sources
    BY DEF DataInv, ClubInv
  <1>5. ~moved /\ rows["organizers"] = {}
    <2>1. PICK o \in open[Copier]["organizers"] : o.key = Admin
      BY <1>3, <1>4, OldClubHas
    <2>2. ~moved /\ \A q \in rows["organizers"] : q.key # Admin
      BY <2>1, WhoIsWho, AdminIsFree
    <2> QED BY <2>2 DEF DataInv, ClubInv
  <1>6. rows["matches"] = {}
    <2>1. PICK m \in open[Copier]["matches"] : m.key = SeedEvent
      BY <1>3, <1>4, OldClubHas
    <2> QED BY <2>1, WhoIsWho, SeedIsFree
  <1>7. /\ rows'["organizers"] = source.rows["organizers"]
        /\ rows'["matches"] = source.rows["matches"]
    BY <1>2, <1>3, <1>5, <1>6, InOrder
  <1>8. \A t \in Tables \ {"organizers", "matches"} : rows'[t] = {}
    <2> SUFFICES ASSUME NEW t \in Tables \ {"organizers", "matches"}
                 PROVE  rows'[t] = {}
      OBVIOUS
    <2>1. rows[t] = {} /\ open[Copier][t] = {}
      BY DEF DataInv, ClubInv, CopyInv
    <2> QED BY <1>2, <2>1
  <1>9. NextIdsAreFree'
    <2> SUFFICES ASSUME NEW t \in Tables, NEW r \in rows'[t]
                 PROVE  r.id < nextId[t]
      BY <1>1 DEF NextIdsAreFree
    <2>1. t \in {"organizers", "matches"}
      BY <1>8
    <2> QED BY <1>3, <1>7, <2>1
  <1>10. ClubInv'
    BY <1>1, <1>4, <1>7, <1>8, <1>9 DEF ClubInv
  <1>11. RowsRemain
    BY <1>2, InOrder DEF RowsRemain
  <1>12. StartsInv'
    BY <1>1, <1>2, <1>11, StartsStand
  <1>13. EventsAreOwned'
    <2>1. \A i \in Instances : at[i] # "serving"
      BY <1>6 DEF DataInv, StartsInv, StartInv, Knows
    <2> QED BY <1>1, <2>1 DEF EventsAreOwned
  <1>14. \A k \in {1, 2} : TABLE_ORDER[k] \in Tables
    BY InOrder
  <1>15. CopyInv'
    BY <1>1, <1>2, <1>14 DEF CopyInv, Inserted, Advanced
  <1> QED BY <1>2, <1>10, <1>12, <1>13, <1>15 DEF DataInv

LEMMA ScriptSteps ==
    ASSUME DataInv, ScriptStep \/ KillScript
    PROVE  DataInv'
  <1>1. CASE \/ NotEmpty \/ CopyFails \/ ValidationFails \/ RollBackDryRun
             \/ ObjectFails \/ KillScript
    <2>1. /\ Rollback(Copier) /\ copying' = Idle
          /\ UNCHANGED <<rows, nextId, at, seen, organizer, source, moved>>
      BY <1>1 DEF NotEmpty, CopyFails, ValidationFails, RollBackDryRun,
                  ObjectFails, KillScript, Fail
    <2> QED BY <2>1, RollsBack
  <1>2. CASE CheckEmpty
    BY <1>2, ChecksEmpty
  <1>3. CASE CopyTable
    BY <1>3, CopiesTable
  <1>4. CASE ResetSequence
    BY <1>4, ResetsSequence
  <1>5. CASE CommitCopy
    BY <1>5, CommitsCopy
  <1>6. CASE Validate \/ CopyObject \/ Finish
    BY <1>6, ValidatesOrEnds
  <1> QED BY <1>1, <1>2, <1>3, <1>4, <1>5, <1>6 DEF ScriptStep

-----------------------------------------------------------------------------
(* The lock *)

\* An instance that is not upgrading, or no longer, has no part in the lock.
LEMMA LockAside ==
    ASSUME CutoverInv, NEW i \in Instances, OnlyMoves(i),
           at'[i] \notin {"reading", "upgrading", "unlocking"},
           lock' = (IF lock = i THEN NoOne ELSE lock) \/ lock' = lock,
           UNCHANGED <<version, losses>>, crashes' \in Nat
    PROVE  LockInv'
  BY DEF CutoverInv, LockInv, OnlyMoves

LEMMA LockStep ==
    ASSUME CutoverInv, [CutoverNext]_cutover
    PROVE  LockInv'
  <1> USE DEF Goto, Keep
  <1>0. /\ StartsInv /\ TablesInv /\ ExpectedHead \in Nat
        /\ losses \in Nat /\ crashes \in Nat /\ version \in Nat
    BY HeadAssumption DEF CutoverInv, DataInv, LockInv
  <1>1. ASSUME NEW i \in Instances, End(i), UNCHANGED <<version, losses>>,
               crashes' \in Nat
        PROVE  LockInv'
    <2>1. OnlyMoves(i) /\ at'[i] = "down"
      <3>1. \A j \in Instances \ {i} : open'[j] = open[j]
        BY <1>0, <1>1, WhoIsWho DEF End, Rollback, TablesInv
      <3> QED BY <1>0, <1>1, <3>1, BoundsAssumption
              DEF End, OnlyMoves, StartsInv, Places, Nothing
    <2> QED BY <1>1, <2>1, LockAside DEF End
  <1>2. ASSUME NEW i \in Instances, StartupStep(i) PROVE LockInv'
    <2>1. UNCHANGED <<losses, crashes>>
      BY <1>2 DEF StartupStep, Start, TakeLock, ReadVersion, Upgrade,
                  UpgradeFails, Unlock, UnlockFails, LookUpOrganizer, NoSchema,
                  InsertOrganizer, OrganizerExists, CommitOrganizer,
                  EventsExist, StartSeeding, InsertSeed, SeedExists, CommitSeed,
                  NoOrphans, FindOwner, OwnerUnclear, AssignOrphans, Raise,
                  faults
    <2>2. CASE TakeLock(i)
      BY <1>0, <2>1, <2>2, NobodyAssumption
         DEF TakeLock, CutoverInv, LockInv, StartsInv
    <2>3. CASE ReadVersion(i)
      BY <1>0, <2>1, <2>3
         DEF ReadVersion, schema, CutoverInv, LockInv, StartsInv
    <2>4. CASE Upgrade(i)
      BY <1>0, <2>1, <2>4 DEF Upgrade, CutoverInv, LockInv, StartsInv
    <2>5. CASE Unlock(i)
      BY <1>0, <2>1, <2>5 DEF Unlock, CutoverInv, LockInv, StartsInv
    <2>6. CASE \/ UpgradeFails(i) \/ UnlockFails(i) \/ NoSchema(i)
               \/ OrganizerExists(i) \/ SeedExists(i) \/ OwnerUnclear(i)
      <3>1. End(i) /\ UNCHANGED version
        BY <2>6 DEF UpgradeFails, UnlockFails, NoSchema, OrganizerExists,
                    SeedExists, OwnerUnclear, Raise
      <3> QED BY <1>0, <1>1, <2>1, <3>1
    <2>7. CASE \/ Start(i) \/ LookUpOrganizer(i) \/ InsertOrganizer(i)
               \/ CommitOrganizer(i) \/ EventsExist(i) \/ StartSeeding(i)
               \/ InsertSeed(i) \/ CommitSeed(i) \/ NoOrphans(i)
               \/ FindOwner(i) \/ AssignOrphans(i)
      <3>1. /\ UNCHANGED <<lock, version>>
            /\ \E place \in Places \ {"reading", "upgrading", "unlocking"} :
                  at' = [at EXCEPT ![i] = place]
            /\ \A j \in Instances \ {i} : seen'[j] = seen[j]
        BY <1>0, <2>7
           DEF Start, LookUpOrganizer, InsertOrganizer, CommitOrganizer,
               EventsExist, StartSeeding, InsertSeed, CommitSeed, NoOrphans,
               FindOwner, AssignOrphans, schema, Places, StartsInv
      <3> QED BY <1>0, <2>1, <3>1 DEF CutoverInv, LockInv, StartsInv
    <2> QED BY <1>2, <2>2, <2>3, <2>4, <2>5, <2>6, <2>7 DEF StartupStep
  <1>3. ASSUME NEW i \in Instances, Crash(i) PROVE LockInv'
    <2>1. End(i) /\ UNCHANGED <<version, losses>> /\ crashes' \in Nat
      BY <1>0, <1>3 DEF Crash
    <2> QED BY <1>1, <2>1
  <1>4. ASSUME NEW i \in Instances, LoseLock(i) PROVE LockInv'
    BY <1>0, <1>4 DEF LoseLock, LockInv
  <1>5. CASE UNCHANGED <<schema, at, seen, losses>> /\ crashes' \in Nat
    <2>1. UNCHANGED <<version, lock>>
      BY <1>5 DEF schema
    <2> QED BY <1>5, <2>1 DEF CutoverInv, LockInv
  <1>6. ASSUME NEW d, RunScript(d)
        PROVE  UNCHANGED <<schema, at, seen, losses>> /\ crashes' \in Nat
    BY <1>0, <1>6 DEF RunScript, deployment, faults
  <1>7. CASE ScriptStep \/ KillScript \/ UNCHANGED cutover
    <2>1. UNCHANGED <<schema, at, seen, losses>> /\ crashes' \in Nat
      <3>1. CASE ScriptStep
        BY <1>0, <3>1
           DEF ScriptStep, CheckEmpty, NotEmpty, CopyTable, CopyFails,
               ResetSequence, Validate, ValidationFails, RollBackDryRun,
               CommitCopy, CopyObject, ObjectFails, Finish, Fail, deployment, faults
      <3>2. CASE KillScript
        BY <1>0, <3>2 DEF KillScript
      <3>3. CASE UNCHANGED cutover
        BY <1>0, <3>3 DEF cutover, deployment, faults
      <3> QED BY <1>7, <3>1, <3>2, <3>3
    <2> QED BY <1>5, <2>1
  <1> QED BY <1>2, <1>3, <1>4, <1>5, <1>6, <1>7 DEF CutoverNext, DeploymentNext

-----------------------------------------------------------------------------
(* The theorems *)

LEMMA CutoverInitially == CutoverInit => CutoverInv
  <1> SUFFICES ASSUME CutoverInit PROVE CutoverInv
    OBVIOUS
  <1> USE DEF CutoverInit, DeploymentInit
  <1>1. /\ rows = [t \in Tables |-> {}] /\ nextId = [t \in Tables |-> 1]
        /\ open = [p \in Processes |-> NothingOpen]
    OBVIOUS
  <1>2. TablesInv
    BY <1>1 DEF TablesInv, NothingOpen, Unique, Apart
  <1>3. StartsInv
    <2>1. /\ at \in [Instances -> Places] /\ seen \in [Instances -> Nat]
          /\ organizer \in [Instances -> 0..MaxId]
      BY BoundsAssumption DEF Places, Nothing
    <2>2. ASSUME NEW i \in Instances PROVE StartInv(i)
      BY WhoIsWho DEF StartInv, Knows, OpenAt, NothingOpen
    <2> QED BY <2>1, <2>2 DEF StartsInv
  <1>4. ClubInv
    BY InOrder DEF ClubInv
  <1>5. CopyInv
    <2>1. \A t \in Tables : open[Copier][t] = {}
      BY WhoIsWho DEF NothingOpen
    <2>2. copying.step = "idle" /\ copying.table = 0
      BY DEF Idle
    <2>3. \A k \in {1, 2} : TABLE_ORDER[k] \in Tables
      BY InOrder
    <2> QED BY <2>1, <2>2, <2>3 DEF CopyInv, Inserted, Advanced
  <1>6. LockInv
    BY HeadAssumption DEF LockInv
  <1>7. EventsAreOwned
    BY DEF EventsAreOwned
  <1> QED BY <1>2, <1>3, <1>4, <1>5, <1>6, <1>7 DEF CutoverInv, DataInv

LEMMA CutoverStep ==
    ASSUME CutoverInv, [CutoverNext]_cutover
    PROVE  CutoverInv'
  <1>1. LockInv'
    BY LockStep
  <1>2. DataInv'
    <2>0. DataInv
      BY DEF CutoverInv
    <2>1. CASE DeploymentNext /\ UNCHANGED script
      BY <2>1, InstanceStep DEF DeploymentNext
    <2>2. ASSUME NEW d, RunScript(d) PROVE DataInv'
      BY <2>0, <2>2, RunsScript
    <2>3. CASE ScriptStep \/ KillScript
      BY <2>0, <2>3, ScriptSteps
    <2>4. CASE UNCHANGED cutover
      <3>1. UNCHANGED <<deployment, source, moved, copying>>
        BY <2>4 DEF cutover, script
      <3>2. CopyInv'
        BY <2>0, <3>1 DEF DataInv, CopyInv, Inserted, Advanced, deployment,
                          database
      <3> QED BY <2>0, <3>1, <3>2, ScriptMoves
    <2> QED BY <2>1, <2>2, <2>3, <2>4 DEF CutoverNext
  <1> QED BY <1>1, <1>2 DEF CutoverInv

\* Rows, instances, the copy and the lock fit together in every state.
THEOREM CutoverInvariant == CutoverSpec => []CutoverInv
  BY CutoverInitially, CutoverStep, PTL DEF CutoverSpec

\* An instance that serves sees an owner for every event, whatever starts,
\* crashes and is copied.
THEOREM OwnedTheorem == CutoverSpec => []EventsAreOwned
  <1>1. CutoverInv => EventsAreOwned
    BY DEF CutoverInv, DataInv
  <1> QED BY <1>1, CutoverInvariant, PTL

\* Once the copy has been committed, every sequence is past every id.
THEOREM NextIdsTheorem == CutoverSpec => []IdsStayFree
  <1>1. CutoverInv => IdsStayFree
    BY DEF CutoverInv, DataInv, ClubInv, IdsStayFree
  <1> QED BY <1>1, CutoverInvariant, PTL

\* The instances and the copy leave one club.
THEOREM OneClubTheorem == CutoverSpec => []OneClub
  <1>1. ASSUME CutoverInv PROVE OneClub
    <2> DEFINE seeds == {m \in rows["matches"] : m.key = SeedEvent}
    <2>1. \A m, q \in seeds : m = q
      BY <1>1, InOrder DEF CutoverInv, DataInv, TablesInv, Unique
    <2>2. Cardinality(seeds) <= 1
      <3>1. CASE seeds = {}
        BY <3>1, FS_EmptySet
      <3>2. CASE seeds # {}
        <4>1. PICK m \in seeds : TRUE
          BY <3>2
        <4>2. seeds = {m}
          BY <2>1, <4>1
        <4>3. Cardinality({m}) = 1
          BY FS_Singleton
        <4> HIDE DEF seeds
        <4> QED BY <4>2, <4>3
      <3> QED BY <3>1, <3>2
    <2> QED BY <1>1, <2>2 DEF CutoverInv, DataInv, ClubInv, OneClub
  <1> QED BY <1>1, CutoverInvariant, PTL

\* An upgrade fails only where a lock was lost, or its process crashed.
THEOREM TurnsTheorem == CutoverSpec => UpgradesTakeTurns
  <1>1. ASSUME CutoverInv, [CutoverNext]_cutover PROVE [RacingUpgrades]_deployment
    <2> SUFFICES ASSUME CutoverNext, NEW i \in Instances, at[i] = "upgrading",
                        at'[i] = "down", losses = 0
                 PROVE  crashes' > crashes
      BY <1>1 DEF RacingUpgrades, CutoverInv, LockInv, cutover
    <2>0. /\ at \in [Instances -> Places] /\ crashes \in Nat
          /\ seen[i] = version + 1
      BY <1>1 DEF CutoverInv, DataInv, StartsInv, LockInv
    <2>1. ASSUME NEW d, RunScript(d) PROVE FALSE
      BY <2>1 DEF RunScript, deployment
    <2>2. CASE ScriptStep \/ KillScript
      BY <2>2 DEF ScriptStep, CheckEmpty, NotEmpty, CopyTable, CopyFails,
             ResetSequence, Validate, ValidationFails, RollBackDryRun,
             CommitCopy, CopyObject, ObjectFails, Finish, Fail, KillScript, deployment
    <2>3. ASSUME NEW j \in Instances, StartupStep(j) PROVE FALSE
      <3>1. \E place : at' = [at EXCEPT ![j] = place]
        BY <2>3 DEF StartupStep, Start, TakeLock, ReadVersion, Upgrade,
                  UpgradeFails, Unlock, UnlockFails, LookUpOrganizer, NoSchema,
                  InsertOrganizer, OrganizerExists, CommitOrganizer,
                  EventsExist, StartSeeding, InsertSeed, SeedExists, CommitSeed,
                  NoOrphans, FindOwner, OwnerUnclear, AssignOrphans, Raise,
                  End, Goto
      <3>2. j = i
        BY <2>0, <3>1
      <3>3. Upgrade(i) \/ UpgradeFails(i)
        BY <2>3, <3>2 DEF StartupStep, Start, TakeLock, ReadVersion, Unlock,
                  UnlockFails, LookUpOrganizer, NoSchema,
                  InsertOrganizer, OrganizerExists, CommitOrganizer,
                  EventsExist, StartSeeding, InsertSeed, SeedExists, CommitSeed,
                  NoOrphans, FindOwner, OwnerUnclear, AssignOrphans
      <3> QED BY <2>0, <3>3 DEF Upgrade, UpgradeFails, Goto
    <2>4. ASSUME NEW j \in Instances, Crash(j) PROVE crashes' > crashes
      BY <2>0, <2>4 DEF Crash
    <2>5. ASSUME NEW j \in Instances, LoseLock(j) PROVE FALSE
      BY <2>5 DEF LoseLock
    <2> QED BY <2>1, <2>2, <2>3, <2>4, <2>5 DEF CutoverNext, DeploymentNext
  <1>2. CutoverInv /\ [CutoverNext]_cutover => [RacingUpgrades]_deployment
    BY <1>1
  <1> QED BY <1>2, CutoverInvariant, PTL DEF CutoverSpec, UpgradesTakeTurns
=============================================================================
