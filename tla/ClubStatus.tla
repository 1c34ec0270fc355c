----------------------------- MODULE ClubStatus -----------------------------
(***************************************************************************)
(* The status vocabularies and the transition tables that the service      *)
(* layer consults before it changes any status (services.py, models.py).   *)
(* A table is a relation: the set of <<from, to>> pairs it allows.         *)
(***************************************************************************)

RegistrationStatuses ==
    {"PENDING", "CONFIRMED", "WAITLISTED", "REJECTED", "CANCELLED"}

\* The statuses covered by the partial unique index on (event, user).
ActiveRegistrationStatuses ==
    {"PENDING", "CONFIRMED", "WAITLISTED", "REJECTED"}

PaymentStatuses == {"AWAITING_PROOF", "SUBMITTED", "VERIFIED", "REJECTED"}

ProofStatuses == {"PENDING", "ACCEPTED", "REJECTED", "SUPERSEDED"}

EventStatuses ==
    {"DRAFT", "OPEN", "FULL", "ONGOING", "COMPLETED", "CANCELLED"}

VALID_REGISTRATION_TRANSITIONS ==
    {<<"PENDING", "CONFIRMED">>, <<"PENDING", "WAITLISTED">>,
     <<"PENDING", "REJECTED">>, <<"PENDING", "CANCELLED">>,
     <<"WAITLISTED", "PENDING">>, <<"WAITLISTED", "CANCELLED">>,
     <<"CONFIRMED", "CANCELLED">>}

VALID_PAYMENT_TRANSITIONS ==
    {<<"AWAITING_PROOF", "SUBMITTED">>,
     <<"SUBMITTED", "VERIFIED">>, <<"SUBMITTED", "REJECTED">>,
     <<"REJECTED", "SUBMITTED">>}

VALID_EVENT_TRANSITIONS ==
    {<<"DRAFT", "OPEN">>, <<"DRAFT", "CANCELLED">>,
     <<"OPEN", "FULL">>, <<"OPEN", "ONGOING">>, <<"OPEN", "CANCELLED">>,
     <<"FULL", "OPEN">>, <<"FULL", "ONGOING">>, <<"FULL", "CANCELLED">>,
     <<"ONGOING", "COMPLETED">>, <<"ONGOING", "CANCELLED">>}

\* Event statuses in which a player may still register.
REGISTRABLE_EVENT_STATUSES == {"OPEN", "FULL"}

\* Event statuses in which a registration may still be cancelled.
CANCELLABLE_EVENT_STATUSES == {"DRAFT", "OPEN", "FULL"}

FixtureStatuses == {"SCHEDULED", "IN_PROGRESS", "COMPLETED", "CANCELLED"}

VALID_FIXTURE_TRANSITIONS ==
    {<<"SCHEDULED", "IN_PROGRESS">>, <<"SCHEDULED", "CANCELLED">>,
     <<"IN_PROGRESS", "COMPLETED">>, <<"IN_PROGRESS", "CANCELLED">>}

\* Fixture statuses that freeze the rosters of both teams.
FIXTURE_ROSTER_LOCKING_STATUSES == {"IN_PROGRESS", "COMPLETED"}
=============================================================================
