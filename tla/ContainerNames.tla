--------------------------- MODULE ContainerNames ---------------------------
(***************************************************************************)
(* The names the runner gives to containers and reads back from Docker:    *)
(* CanonicalContainerName (src/docker/logstreamer.go), isCanonicalVariant  *)
(* (src/deploy/rolling.go) and cleanupDecision (src/deploy/executor.go).   *)
(*                                                                         *)
(* A name is the sequence of its segments between dashes.  Generated is    *)
(* the segments IsGeneratedSuffixSegment accepts.                          *)
(***************************************************************************)
EXTENDS Naturals, Sequences, SequencesExt

CONSTANT Generated   \* generated suffix segments, "ltc" and six characters

(* Places of a "-retired-" that is not at the front. *)
retiredAt(name) == {k \in 2..Len(name) - 1 : name[k] = "retired"}

Least(S) == CHOOSE k \in S : \A j \in S : k <= j

Updating == <<"lattice", "updating">>

(* One suffix is stripped. *)
CanonicalContainerName(name) ==
  CASE retiredAt(name) # {} -> SubSeq(name, 1, Least(retiredAt(name)) - 1)
    [] IsSuffix(Updating, name) /\ Len(name) > 2 -> SubSeq(name, 1, Len(name) - 2)
    [] Len(name) > 1 /\ Last(name) \in Generated -> Front(name)
    [] OTHER -> name

(* dockerName is canonicalName with one suffix. *)
isCanonicalVariant(canonicalName, dockerName) ==
  LET rest == SubSeq(dockerName, Len(canonicalName) + 1, Len(dockerName)) IN
  /\ IsStrictPrefix(canonicalName, dockerName)
  /\ \/ rest[1] = "retired"
     \/ rest = Updating
     \/ Len(rest) = 1 /\ rest[1] \in Generated

(* A name findAllMatchingContainers takes for canonicalName. *)
matches(canonicalName, dockerName) ==
  dockerName = canonicalName \/ isCanonicalVariant(canonicalName, dockerName)

-----------------------------------------------------------------------------
(* cleanupDecision for a container with its labels, name and public ports. *)

(* Mutant of cleanupDecision: databases are not told apart. *)
cleanupDecisionDatabases(c, stack, specNames, ports) ==
  /\ c.managed
  /\ CanonicalContainerName(c.name) \notin specNames /\ c.name \notin specNames
  /\ c.stack = stack \/ c.ports \cap ports # {}

cleanupDecision(c, stack, specNames, ports) ==
  /\ c.managed /\ ~c.database
  /\ CanonicalContainerName(c.name) \notin specNames /\ c.name \notin specNames
  /\ c.stack = stack \/ c.ports \cap ports # {}

(* forceRemoveAllStackContainers takes every container of the stack. *)
forceDecision(c, stack) == c.managed /\ ~c.database /\ c.stack = stack
=============================================================================
