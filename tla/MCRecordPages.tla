--------------------------- MODULE MCRecordPages ---------------------------
EXTENDS RecordPages, Navigation, LifecyclePages, CompliancePages,
        RecognitionPages, TimePages, PeoplePages, SetupPages, CustomerPages,
        SettingsPages

Kinds ==
  LifecycleKinds @@ ComplianceKinds @@ RecognitionKinds @@ TimeKinds
  @@ PeopleKinds @@ SetupKinds @@ CustomerKinds @@ SettingsKinds
\* One table with an ordered domain, which TLC looks up fast.
AllKinds == [k \in DOMAIN Kinds |-> Kinds[k]]
=============================================================================
