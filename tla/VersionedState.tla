--------------------------- MODULE VersionedState ---------------------------
(***************************************************************************)
(* What the contract-state store promises its callers, with no database,   *)
(* no undo journal and no crash in sight: a current state and one saved    *)
(* version of it per indexed height.  A block saves a new version above    *)
(* all the others; a reorganisation drops versions from the top, and the   *)
(* current state is then exactly the version below, as if the dropped      *)
(* block had never been applied.  StateStore is shown to implement this    *)
(* specification.                                                          *)
(***************************************************************************)
EXTENDS Integers

CONSTANTS Height, Empty, NoVersion
VARIABLES cur, versions

versionVars == <<cur, versions>>

Saved == {h \in Height : versions[h] # NoVersion}

IsTopVersion(h) == h \in Saved /\ \A g \in Saved : g <= h

VersionInit ==
  /\ cur = Empty
  /\ versions = [h \in Height |-> NoVersion]

\* A block at a height above every saved version replaces the state.
SaveVersion(h) ==
  /\ \A g \in Saved : g < h
  /\ versions' = [versions EXCEPT ![h] = cur']
  /\ cur' # NoVersion

\* The top version is dropped: the state is the next version down, or empty.
DropVersion(h) ==
  /\ IsTopVersion(h)
  /\ versions' = [versions EXCEPT ![h] = NoVersion]
  /\ \/ Saved = {h} /\ cur' = Empty
     \/ \E g \in Saved : /\ g < h
                         /\ \A f \in Saved : f < h => f <= g
                         /\ cur' = versions[g]

VersionNext == \E h \in Height : SaveVersion(h) \/ DropVersion(h)

VersionSpec == VersionInit /\ [][VersionNext]_versionVars
=============================================================================
