------------------------------- MODULE Migrator -------------------------------
(***************************************************************************)
(* Deployments that bring the database schema up to their release.  Each   *)
(* release carries a list of migration files; what was run is recorded in  *)
(* a history table.  Deployments of different releases may overlap, fail,  *)
(* or die at any point.                                                    *)
(***************************************************************************)
EXTENDS Naturals, Sequences, FiniteSets

CONSTANTS
  Releases,     \* what may be deployed: sets of migrations, <<number, checksum>>
  Deployments   \* deployments that may overlap

ASSUME MigratorAssumption ==
  \A r \in Releases :
    r # {} /\ \A m, n \in r : m[1] \in Nat /\ (m[1] = n[1] => m = n)

Migrations == UNION Releases

VARIABLES
  schema,      \* the migrations whose statements took effect, in order
  history,     \* schema_migrations
  deployment   \* where each deployment is

migratorVars == <<schema, history, deployment>>

Undeployed == [pc |-> "start"]

MigratorTypeOK ==
  /\ schema \in Seq(Migrations)
  /\ history \subseteq Migrations
  /\ deployment \in [Deployments ->
       {Undeployed} \cup [pc : {"locked", "running", "done"}, release : Releases,
                          applied : SUBSET Migrations]]

MigratorInit ==
  /\ schema = <<>>
  /\ history = {}
  /\ deployment = [d \in Deployments |-> Undeployed]

(* Mutant: the advisory lock belongs to each release.                       *)
LockOfRelease(r) == \A d \in Deployments : deployment[d] # Undeployed => deployment[d].release # r

(* The session's advisory lock, which a session that dies gives up.         *)
LockFree(r) == \A d \in Deployments : deployment[d] = Undeployed

Take(d) ==
  /\ deployment[d] = Undeployed
  /\ \E r \in Releases :
       /\ LockFree(r)
       /\ deployment' = [deployment EXCEPT ![d] = [pc |-> "locked", release |-> r, applied |-> {}]]
  /\ UNCHANGED <<schema, history>>

Numbers(ms) == {m[1] : m \in ms}

(* A history that names a migration the release does not have ends the      *)
(* deployment before it runs anything.                                      *)
ReadHistory(d) ==
  /\ deployment[d].pc = "locked"
  /\ Numbers(history) \subseteq Numbers(deployment[d].release)
  /\ deployment' = [deployment EXCEPT ![d].pc = "running", ![d].applied = history]
  /\ UNCHANGED <<schema, history>>

(* The files are looked at in order: one that is not applied is run, and    *)
(* one whose checksum has changed since it was ends the deployment there.   *)
Pending(d) == {m \in deployment[d].release : m[1] \notin Numbers(deployment[d].applied)}
Changed(d) ==
  {m \in deployment[d].release : \E n \in deployment[d].applied : n[1] = m[1] /\ n # m}

(* The statements of the next migration and its record are one transaction. *)
(* The primary key of the history refuses one that is recorded already.     *)
Run(d) ==
  /\ deployment[d].pc = "running"
  /\ \E m \in Pending(d) :
       /\ \A n \in Pending(d) \cup Changed(d) : m[1] <= n[1]
       /\ \A n \in history : n[1] # m[1]
       /\ schema' = Append(schema, m)
       /\ history' = history \cup {m}
       /\ deployment' = [deployment EXCEPT ![d].applied = @ \cup {m}]

Finish(d) ==
  /\ deployment[d].pc = "running" /\ Pending(d) = {} /\ Changed(d) = {}
  /\ deployment' = [deployment EXCEPT ![d].pc = "done"]
  /\ UNCHANGED <<schema, history>>

(* It gives up the lock: when it is done, fails or dies.                    *)
Leave(d) ==
  /\ deployment[d] # Undeployed
  /\ deployment' = [deployment EXCEPT ![d] = Undeployed]
  /\ UNCHANGED <<schema, history>>

MigratorNext ==
  \E d \in Deployments : Take(d) \/ ReadHistory(d) \/ Run(d) \/ Finish(d) \/ Leave(d)

MigratorSpec == MigratorInit /\ [][MigratorNext]_migratorVars

-----------------------------------------------------------------------------
(* Properties.                                                              *)

(* What took effect is what is recorded, each once, wherever a deployment   *)
(* broke off and was repeated.                                              *)
ExecutedIsRecorded ==
  /\ {schema[i] : i \in DOMAIN schema} = history
  /\ \A i, j \in DOMAIN schema : schema[i] = schema[j] => i = j

(* A deployment that reports success leaves the schema of its release: no   *)
(* overlapping deployment of another release has a part in it.              *)
DeployedIsRelease ==
  \A d \in Deployments : deployment[d].pc = "done" => history = deployment[d].release
=============================================================================
