------------------------------- MODULE Storage -------------------------------
(***************************************************************************)
(* What a status needs to stay in the database.  Above the revocation      *)
(* store: the tables that issuing, deleting and revoking write             *)
(* (CredentialService, which is extended).  Below it: the one connection   *)
(* of SQLite (SharedConnection, an instance).  The first sees the store as *)
(* calls that give or change a status or throw, so nothing of the second   *)
(* matters to it, and a behaviour is one of a single part, chosen at the   *)
(* start.                                                                  *)
(***************************************************************************)
EXTENDS CredentialService

VARIABLES
    part,
    mem, stack, depth, active,                         \* the connection
    at, level, within, kind, target, entity, page,     \* its calls
    index, alone, settled

connectionVars ==
    <<mem, stack, depth, active, at, level, within, kind, target, entity, page, index,
      alone, settled>>
storageVars == <<part, vars, connectionVars>>

Sqlite == INSTANCE SharedConnection WITH pc <- at, given <- index

StorageInit == part \in {"service", "sqlite"} /\ Init /\ Sqlite!Init

StorageNext ==
    \/ /\ part = "service" /\ Next
       /\ UNCHANGED <<part, connectionVars>>
    \/ /\ part = "sqlite" /\ Sqlite!Next
       /\ UNCHANGED <<part, vars>>

StorageSpec == StorageInit /\ [][StorageNext]_storageVars

-----------------------------------------------------------------------------
(* The properties of the instance; those of the service are its own.       *)

\* An issuance that had the connection to itself keeps its index and shares it with no
\* other such one.
SerialCallsKeepTheirIndex == Sqlite!SerialCallsKeepTheirIndex

\* A bit that such a revocation or activation has set stays set, until another call for it.
SerialCallsKeepTheirBit == Sqlite!SerialCallsKeepTheirBit
=============================================================================
