---------------------------- MODULE MCBackOffice ----------------------------
(***************************************************************************)
(* Instances of the parts that only meet through rows the others do not    *)
(* change: the daily reconciliation, access of owners and staff, bank      *)
(* accounts, proofs and their review, migrations, the browser's session    *)
(* and what requests do and read in a branch.  Every property speaks of    *)
(* one of them, so a behaviour of the instance works on one part and       *)
(* leaves the others in an initial state.                                  *)
(***************************************************************************)
EXTENDS Reconciliation, StaffAccess, AccountRegistry, ProofIntake, SchemaMigrations, WebSession,
        BranchScope, TLC

CONSTANTS Parts,        \* the parts an instance works on
          Callers,      \* bound: who logs in
          MaxInFlight   \* bound: logins, refreshes and removals under way at once

VARIABLE part

allVars == <<part, vars, accessVars, registryVars, intakeVars, migrationVars, webVars, scopeVars>>

MCInit ==
  /\ part \in Parts
  /\ Init /\ AccessInit /\ RegistryInit /\ IntakeInit /\ MigrationInit /\ WebInit /\ ScopeInit
  /\ part # "accounts"   => banks = {}
  /\ part # "migrations" => \A v \in Files : migrated[v] = "none"
  /\ part # "scope"      => \A p \in Persons : IsAdmin(p)

WorksOn(p) == part = p /\ UNCHANGED part

InFlight == Cardinality({c \in Calls : call[c].step # "idle"})
              + Cardinality({u \in Staff : removal[u].step # "idle"})

\* Bound: who writes a third row asks about a row that is about the first, as the verification of
\* an order's proof and the decision on a snapshot that was submitted.
ThirdIsAboutBoth ==
  Cardinality(records) >= 2 =>
    \A c \in Clients :
      request'[c] # NoRequest => request'[c].row # NoRow /\ request'[c].row.row # NoRow

MCNext ==
  \/ /\ WorksOn("days") /\ Next
     /\ UNCHANGED <<accessVars, registryVars, intakeVars, migrationVars, webVars, scopeVars>>
  \/ /\ WorksOn("access") /\ AccessNext /\ InFlight' <= MaxInFlight
     /\ \A c \in Calls : call'[c].step = "selected" => call'[c].who \in Callers
     /\ UNCHANGED <<vars, registryVars, intakeVars, migrationVars, webVars, scopeVars>>
  \/ /\ WorksOn("accounts") /\ RegistryNext
     /\ UNCHANGED <<vars, accessVars, intakeVars, migrationVars, webVars, scopeVars>>
  \/ /\ WorksOn("intake") /\ IntakeNext
     /\ UNCHANGED <<vars, accessVars, registryVars, migrationVars, webVars, scopeVars>>
  \/ /\ WorksOn("migrations") /\ MigrationNext
     /\ UNCHANGED <<vars, accessVars, registryVars, intakeVars, webVars, scopeVars>>
  \/ /\ WorksOn("web") /\ WebNext
     /\ UNCHANGED <<vars, accessVars, registryVars, intakeVars, migrationVars, scopeVars>>
  \/ /\ WorksOn("scope") /\ ScopeNext /\ ThirdIsAboutBoth
     /\ (\A c \in Clients : request[c] = NoRequest) \/ answer' = answer
     /\ UNCHANGED <<vars, accessVars, registryVars, intakeVars, migrationVars, webVars>>

MCSpec == MCInit /\ [][MCNext]_allVars

\* Calls are interchangeable, and so are the people who may be hired.  The sets that act in the
\* other parts, the snapshots and the businesses of branches are given the same members, which
\* TLC permutes together.
Symmetry == Permutations(Calls) \cup Permutations(Staff)
=============================================================================
