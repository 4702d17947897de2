------------------------------ MODULE ModelCenter ------------------------------
(***************************************************************************)
(* The model center (app/service/model_center.py): which language models   *)
(* answer.  The configuration began as one slot for each provider ("legacy",*)
(* schema 1) and becomes, for good, a catalogue of versioned profiles      *)
(* (schema 2).  Both interfaces, the migration of a retired model and      *)
(* probes that take their time work on one row; Runs work with what they   *)
(* froze, and their calls are recorded under a profile and its version.    *)
(***************************************************************************)
EXTENDS Naturals, Sequences

CONSTANTS
  Slots,             \* the profiles of the legacy configuration, named like the providers
  Profiles,          \* all names of profiles, Slots among them
  Contents,          \* what a profile says: [model, enabled], for all its fields
  RetiredModel,      \* deepseek-chat, only ever of the provider deepseek
  Replacement,       \* deepseek-flash
  MaxConfigurations  \* bounds the changes of an instance

ASSUME ModelCenterAssumption ==
  /\ Slots \subseteq Profiles
  /\ \A c \in Contents : c.enabled \in BOOLEAN /\ [c EXCEPT !.model = Replacement] \in Contents
  /\ MaxConfigurations \in Nat \ {0}

VARIABLES
  versions,  \* Seq(Configuration): the retained ones, the last one is the row
  health,    \* [Profiles -> what the last probe of a profile looked at]
  probe,     \* a probe under way
  usage      \* what a Run froze, then the record of its call

modelCenterVars == <<versions, health, probe, usage>>

NoProfile == [version |-> 0]
Profile(v, content) == [version |-> v, content |-> content]
Configuration(schema, profiles, answer) == [schema |-> schema, profiles |-> profiles, answer |-> answer]
Unprobed == [k \in Profiles |-> NoProfile]
NoProbe == [revision |-> 0]
Unused == [step |-> "none"]

Revision == Len(versions)
Current == versions[Revision]
Present(c, k) == c.profiles[k] # NoProfile
Enabled(c, k) == Present(c, k) /\ c.profiles[k].content.enabled

\* The slots as profiles: catalog_from_legacy gives all of them version 1.
Cataloged(slot, answer) ==
  Configuration(1, [k \in Profiles |-> IF k \in Slots THEN Profile(1, slot[k]) ELSE NoProfile], answer)
Legacy == {c \in {Cataloged(slot, answer) : slot \in [Slots -> Contents], answer \in Slots} : Enabled(c, c.answer)}

\* initialize: from the settings.
ModelCenterInit ==
  /\ versions \in {<<c>> : c \in Legacy}
  /\ health = Unprobed /\ probe = NoProbe
  /\ usage = Unused

-----------------------------------------------------------------------------
(* Changes: each is one transaction that locks the row, made by someone    *)
(* who has seen the row as it is (MODEL_CONFIGURATION_CHANGED otherwise).  *)

SaveVersion(c) ==
  /\ Revision < MaxConfigurations
  /\ versions' = Append(versions, c) /\ health' = Unprobed
  /\ UNCHANGED <<probe, usage>>

\* The old interface cannot overwrite a catalogue.
Update(c) == Current.schema = 1 /\ SaveVersion(c)

WasUsed_Bug(k) == FALSE
\* profile_was_used: a name that was removed.
WasUsed(k) == ~Present(Current, k) /\ \E i \in 1..Revision : Present(versions[i], k)

\* The version of a submitted profile: the one that was seen, or the next one.
Numbered(k, content) ==
  CASE ~Present(Current, k) -> 1
    [] Present(Current, k) /\ Current.profiles[k].content = content -> Current.profiles[k].version
    [] OTHER -> Current.profiles[k].version + 1

\* submitted: the contents of a new catalogue, for the names it has.
UpdateCatalog(submitted, answer) ==
  LET c == Configuration(2, [k \in Profiles |-> IF k \in DOMAIN submitted
                                                THEN Profile(Numbered(k, submitted[k]), submitted[k])
                                                ELSE NoProfile], answer)
  IN /\ \A k \in DOMAIN submitted : ~WasUsed(k)
     /\ Enabled(c, answer)     \* ModelCatalog.coherent
     /\ SaveVersion(c)

\* migrate_retired_deepseek_chat, by an operator.
Migrate ==
  LET Retired(k) == Present(Current, k) /\ Current.profiles[k].content.model = RetiredModel
      Renamed(k) == Profile(Current.profiles[k].version + (IF Current.schema = 2 THEN 1 ELSE 0),
                            [Current.profiles[k].content EXCEPT !.model = Replacement])
  IN /\ \E k \in Profiles : Retired(k)
     /\ SaveVersion([Current EXCEPT !.profiles = [k \in Profiles |-> IF Retired(k) THEN Renamed(k) ELSE @[k]]])

-----------------------------------------------------------------------------
(* A probe asks the provider without holding anything.                     *)

Probe(k) ==
  /\ probe = NoProbe /\ Enabled(Current, k)
  /\ probe' = [revision |-> Revision, key |-> k, profile |-> Current.profiles[k]]
  /\ UNCHANGED <<versions, health, usage>>

StillCurrent == probe.revision = Revision

\* _save_probe: the answer is kept, unless there is a new configuration.
SaveProbe ==
  /\ probe # NoProbe
  /\ health' = IF StillCurrent THEN [health EXCEPT ![probe.key] = probe.profile] ELSE health
  /\ probe' = NoProbe
  /\ UNCHANGED <<versions, usage>>

-----------------------------------------------------------------------------
(* Runs.                                                                   *)

\* snapshot: of the profile that is chosen by its name, or that answers.  It is a
\* profile of a catalogue, or of one made of the legacy configuration when a name
\* was chosen; else there is no version to record.
Snapshot(k, chosen) ==
  /\ usage.step # "frozen" /\ Enabled(Current, k)
  /\ usage' = [step |-> "frozen", revision |-> Revision, key |-> k, profile |-> Current.profiles[k],
               cataloged |-> Current.schema = 2 \/ chosen]
  /\ UNCHANGED <<versions, health, probe>>

\* CatalogRouter and CallObserver.start: the frozen profile is called, and recorded
\* with its name, its version and the revision, or without a profile.
CallModel ==
  /\ usage.step = "frozen"
  /\ usage' = IF usage.cataloged THEN [usage EXCEPT !.step = "called"] ELSE Unused
  /\ UNCHANGED <<versions, health, probe>>

ModelCenterNext ==
  \/ \E c \in Legacy : Update(c)
  \/ \E names \in SUBSET Profiles : \E submitted \in [names -> Contents], answer \in names :
       UpdateCatalog(submitted, answer)
  \/ \E k \in Profiles : Probe(k) \/ \E chosen \in BOOLEAN : Snapshot(k, chosen)
  \/ CallModel \/ Migrate \/ SaveProbe

-----------------------------------------------------------------------------
(* Properties                                                              *)

\* A slot says something else than the call was made with, before there is a
\* catalogue: legacy profiles are all of version 1.
SlotChanged ==
  \E j \in usage.revision..Revision : versions[j].schema = 1 /\ versions[j].profiles[usage.key] # usage.profile

\* A call that was recorded under a profile and its version was made with what
\* every catalogue, earlier or later, says of that profile and version, although
\* profiles come, change, go and come again, and a migration changes them from
\* outside (model_center.py:296, 301, 138).  The exception is a call of a legacy
\* slot that changed before the catalogue was made of it (model_center.py:44, 160):
\* its name and version may come to mean another model, the revision tells them apart.
CallsIdentifyModels ==
  usage.step = "called" => \A i \in 1..Revision :
    LET profile == versions[i].profiles[usage.key]
    IN (versions[i].schema = 2 /\ profile.version = usage.profile.version) =>
         profile = usage.profile \/ SlotChanged

=============================================================================
