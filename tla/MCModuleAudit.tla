--------------------------- MODULE MCModuleAudit ----------------------------
EXTENDS ModuleAudit, TLC

CONSTANTS MaxResources, MaxFailures

\* At most MaxResources resources, or all, and at most two flaws in the estate.
MCInit ==
  \E m \in Modules :
    \E S \in {T \in SUBSET Positions(m) :
                Cardinality(T) <= MaxResources \/ T = Positions(m)} :
      \E F \in {{}} \cup {{x, y} : x, y \in {z \in FlawsOf(m) : z[1] \in S}} :
        Estate(m, S, F) /\ Start(m, S, F)

\* No step is taken after MaxFailures reads of listings have failed, or one read
\* in a module with more than four positions.
FewFailures ==
  Cardinality({p \in DOMAIN read : read[p] \in {"lost", "cut", "broke"}})
    <= (IF Cardinality(DOMAIN read) > 4 THEN 1 ELSE MaxFailures)
  \/ query # "none"

MCSpec == MCInit /\ [][Next]_vars
=============================================================================
