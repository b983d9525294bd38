----------------------------- MODULE MCWebConsole -----------------------------
(* Small instances of WebConsole for TLC.                                    *)
EXTENDS WebConsole

MCInitialSecrets ==
    {[id |-> 1, key |-> "DATABASE_URL", value |-> 2, environment |-> "production",
       updated |-> "seeded", version |-> 7,
       versions |-> <<[version |-> 7, value |-> 2], [version |-> 6, value |-> 1]>>]}

MCInitialProfiles ==
    <<[id |-> 1, name |-> "Saurabh Kuthe"], [id |-> 2, name |-> "Maya Chen"]>>
=============================================================================
