-------------------------- MODULE RegistryLifecycle --------------------------
(***************************************************************************)
(* The two relation registry files over their life: the packaged one,      *)
(* shipped and reviewed in git, and the working one under .pg/, seeded     *)
(* from it once, extended by every scan with the verbs it discovers, and   *)
(* folded back by pg promote-verbs --apply.  A human edits the working     *)
(* file too (aliases, promotion by hand).                                  *)
(***************************************************************************)
EXTENDS LabelRegistry, Subsequences, SequencesExt

CONSTANTS
    Shipped,       \* packaged registries a release may ship
    Absent,        \* the working file does not exist
    MaxScans, MaxHandEdits, MaxReleases

\* The labels: section, which is reviewed; staged labels are not.
Section(d) == ToSet(d.labels)

\* Entries belong to labels, and inverse pairs to the reviewed ones: a staged
\* entry is a name and a description.
EntriesInPlace(d) ==
    /\ \A n \in Names : n \notin Labels(d) => d.aliases[n] = {}
    /\ \A n \in Names : d.inverse[n] # NoInverse => {n, d.inverse[n]} \subseteq Section(d)

ASSUME LifecycleAssumption ==
    /\ Shipped \subseteq Docs
    /\ \A d \in Shipped : Valid(d) /\ d.sectioned /\ EntriesInPlace(d)
    /\ Absent \notin Docs
    /\ MaxScans \in Nat /\ MaxHandEdits \in Nat /\ MaxReleases \in Nat

VARIABLES
    packaged,    \* src/principle_graph/data/relation-registry.yaml
    working,     \* .pg/relation-registry.yaml
    loaded,      \* the registry the running pg ingest loaded, or Absent
    scans, handEdits, releases

vars == <<packaged, working, loaded, scans, handEdits, releases>>

Files == Docs \cup {Absent}

TypeOK ==
    /\ packaged \in Docs
    /\ working \in Files /\ loaded \in Files
    /\ loaded # Absent => working # Absent /\ Valid(loaded)
    /\ scans \in 0..MaxScans

-----------------------------------------------------------------------------

Init ==
    /\ packaged \in Shipped
    /\ working = Absent /\ loaded = Absent
    /\ scans = 0 /\ handEdits = 0 /\ releases = 0

\* ensure_working_registry never overwrites the working file.
Seeded_Overwrites == packaged
Seeded == IF working = Absent THEN packaged ELSE working

\* build_orchestrator: ensure the working file, load it or fail.
StartIngest ==
    /\ loaded = Absent /\ scans < MaxScans
    /\ working' = Seeded
    /\ loaded' = IF Valid(Seeded) THEN Seeded ELSE Absent
    /\ UNCHANGED <<packaged, scans, handEdits, releases>>

\* append_proposed_verbs: the names not yet in the file.
Fresh(verbs) == verbs \ Labels(working)

\* They go under proposed.labels; in a file without that section they end up
\* beside the new one (the entry lines are not nested).
Appended(verbs) ==
    IF Fresh(verbs) = {} THEN working
    ELSE IF working.sectioned
    THEN [working EXCEPT !.staged = SetToSeq(Fresh(verbs)) \o @]
    ELSE [working EXCEPT !.sectioned = TRUE, !.stray = @ \cup Fresh(verbs)]

\* The clustering call proposed these verbs; those the loaded registry does
\* not know are staged.
Unknown_LabelsOnly(verbs) == {x \in verbs : x \notin Labels(loaded)}
Unknown(verbs) == {x \in verbs : ~IsKnown(loaded, x)}

\* A folder ingest scans its files one after the other on one loaded registry.
Scan(verbs) ==
    /\ loaded # Absent /\ scans < MaxScans /\ IsFiniteSet(verbs)
    /\ scans' = scans + 1
    /\ working' = Appended(Unknown(verbs))
    /\ UNCHANGED <<packaged, loaded, handEdits, releases>>

EndIngest ==
    /\ loaded # Absent
    /\ loaded' = Absent
    /\ UNCHANGED <<packaged, working, scans, handEdits, releases>>

\* The human makes spelling x an alias of label n of the working file.
HandAlias(n, x) ==
    LET edited == [working EXCEPT !.aliases[n] = @ \cup {x}]
    IN  /\ loaded = Absent /\ working # Absent /\ handEdits < MaxHandEdits
        /\ n \in Labels(working) /\ Valid(edited) /\ edited # working
        /\ working' = edited
        /\ handEdits' = handEdits + 1
        /\ UNCHANGED <<packaged, loaded, scans, releases>>

\* The human pairs two labels of labels: as inverses.
HandInverse(n, x) ==
    LET edited == [working EXCEPT !.inverse[n] = x]
    IN  /\ loaded = Absent /\ working # Absent /\ handEdits < MaxHandEdits
        /\ {n, x} \subseteq Section(working) /\ working.inverse[n] = NoInverse /\ Valid(edited)
        /\ working' = edited
        /\ handEdits' = handEdits + 1
        /\ UNCHANGED <<packaged, loaded, scans, releases>>

\* The human promotes a staged label in the working file, entry and all, to
\* the end of labels:, and may tidy an empty proposed section away.
HandPromote(n, tidy) ==
    LET left == Picked(working.staged,
                       {i \in DOMAIN working.staged : working.staged[i] # n})
        edited == [working EXCEPT !.labels = Append(@, n), !.staged = left,
                                  !.sectioned = ~tidy]
    IN  /\ loaded = Absent /\ working # Absent /\ handEdits < MaxHandEdits
        /\ n \in ToSet(working.staged)
        /\ tidy => left = <<>>
        /\ Valid(edited)
        /\ working' = edited
        /\ handEdits' = handEdits + 1
        /\ UNCHANGED <<packaged, loaded, scans, releases>>

\* Entry lines at the end of the packaged file belong to its last section.
Promoted(names) ==
    IF packaged.sectioned
    THEN [packaged EXCEPT !.stray = @ \cup names]
    ELSE [packaged EXCEPT !.labels = @ \o SetToSeq(names)]

\* pg promote-verbs --apply: only the names of the staged entries move.
PromoteVerbs ==
    LET file  == Seeded
        staged == ToSet(file.staged)
        names == staged \ Section(packaged)
    IN  /\ loaded = Absent /\ names # {}
        /\ packaged' = Promoted(names)
        /\ working' = [file EXCEPT
               !.staged  = <<>>, !.sectioned = TRUE, !.stray = {},
               !.aliases = [n \in Names |-> IF n \in staged THEN {} ELSE @[n]],
               !.inverse = [n \in Names |-> IF n \in staged THEN NoInverse ELSE @[n]]]
        /\ UNCHANGED <<loaded, scans, handEdits, releases>>

\* A release replaces the packaged file.
Release(d) ==
    /\ loaded = Absent /\ releases < MaxReleases /\ d # packaged
    /\ packaged' = d
    /\ releases' = releases + 1
    /\ UNCHANGED <<working, loaded, scans, handEdits>>

Next ==
    \/ StartIngest
    \/ \E verbs \in SUBSET Names : Scan(verbs)
    \/ EndIngest
    \/ \E n, x \in Names : HandAlias(n, x)
    \/ \E n, x \in Names : HandInverse(n, x)
    \/ \E n \in Names, tidy \in BOOLEAN : HandPromote(n, tidy)
    \/ PromoteVerbs
    \/ \E d \in Shipped : Release(d)

Spec == Init /\ [][Next]_vars

-----------------------------------------------------------------------------
(* Properties *)

\* The file resolve_relation_registry_path hands to the next pg command.
InForce == IF working = Absent THEN packaged ELSE working

\* Whatever verbs scans discover and humans alias, pair or promote, the next pg
\* command can load the registry, but for what scan.py stages regardless: a
\* verb no label may be, and entries beside a section that is missing.
RegistryLoads ==
    \/ Valid(InForce)
    \/ InForce.stray # {}
    \/ Labels(InForce) \cap BadNames # {}

\* What a known spelling means changes only by hand, promotion or release: no
\* scan and no start of a pg command takes a staged verb, an alias or a pair
\* back, so rows written under the registry stay canonical.
MeaningsKept ==
    [][scans' # scans \/ loaded' # loaded =>
          \A x \in Names : IsKnown(InForce, x) =>
              IsKnown(InForce', x) /\ Meaning(InForce', x) = Meaning(InForce, x)]_vars

\* One pass of canonicalization is enough, in every file that loads.
MeaningsAreFinal ==
    \A x \in Names : Valid(InForce) =>
        Meaning(InForce, Meaning(InForce, x).verb)
            = [verb |-> Meaning(InForce, x).verb, flip |-> FALSE]
=============================================================================
