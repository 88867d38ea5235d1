------------------------------ MODULE AuditRun ------------------------------
(***************************************************************************)
(* One call of runAudit: the web checks side by side, then the two audits  *)
(* of the directory, then the infrastructure modules side by side, under a *)
(* deadline of the whole scan and one of each section, with retries of     *)
(* each directory audit, of each module and of all the modules together.   *)
(*                                                                         *)
(* A provider call may answer late or never; aborting its signal only asks *)
(* it to stop.  An attempt others no longer wait for runs on.  A deadline  *)
(* fires between two continuations of the code, never within one.          *)
(***************************************************************************)
EXTENDS Naturals, FiniteSets

CONSTANTS
  Checks,    (* web checks                                                 *)
  Modules,   (* infrastructure modules                                     *)
  Retries    (* of each withRetry: 2 in the code                           *)

ASSUME RetriesAssumption == Retries \in Nat
ASSUME PartsAssumption == Checks # {} /\ Modules # {}

Rounds == 0..Retries

VARIABLES
  audit,    (* the section that runs, or how the call has ended            *)
  check,    (* each web check                                              *)
  graph,    (* the attempts at each directory audit                        *)
  round,    (* the attempts at all the modules: rounds                     *)
  run,      (* each round's attempts at each module                        *)
  aborted,  (* the sections whose signal is aborted                        *)
  result    (* what the result says of each section                        *)

vars == <<audit, check, graph, round, run, aborted, result>>

Directory == {"entra", "identity"}   \* auditEntraID, auditIdentityAdminPosture
Sections == {"web", "infra"} \cup Directory
Ended == {"returned", "retry", "failed"}   \* thrown, to be retried or not
Outcomes == {"ok", "error", "retry"}
Tries == [state : {"idle", "running", "waiting", "stopped"} \cup Outcomes,
          attempt : 0..Retries]
Idle == [state |-> "idle", attempt |-> 0]
First == [state |-> "running", attempt |-> 0]
Again(a) == [state |-> "running", attempt |-> a.attempt + 1]

\* Mutant: a section goes on although the race is over.
CurrentOrNot(s) == TRUE
Current(s) == audit = s
Requested(s) == result[s] # "absent"

Init ==
  /\ result \in [Sections -> {"absent", "none"}]
  /\ audit = "web"
  /\ check = [c \in Checks |-> "running"]
  /\ graph = [d \in Directory |-> Idle]
  /\ round = Idle
  /\ run = [r \in Rounds |-> [m \in Modules |-> Idle]]
  /\ aborted = {}

\* A section that was not requested is passed over.
Skip(s, next) ==
  /\ Current(s) /\ ~Requested(s)
  /\ audit' = next
  /\ UNCHANGED <<check, graph, round, run, aborted, result>>

Stores(s, status, next) ==
  /\ result' = [result EXCEPT ![s] = status]
  /\ audit' = next

\* Mutant: an error that a retry may help is stored like the others.
SwallowedAll(outcome) == outcome # "ok"

\* settleModule turns an error into a result, unless a retry may help.
Swallowed(outcome) == outcome = "error"

-----------------------------------------------------------------------------
(* The web checks: Promise.all of settleModule, which times each out: a    *)
(* deadline of a check is one of the errors that a retry may help.         *)

\* The finally of timed (audit-runner.js:56) also notes how long the check took,
\* even after the audit has ended; the table of timings is not part of the model.
CheckSettles(c, outcome) ==
  /\ Requested("web")
  /\ check[c] = "running"
  /\ check' = [check EXCEPT ![c] = outcome]
  /\ audit' = IF Current("web") /\ outcome # "ok" /\ ~Swallowed(outcome) THEN "retry" ELSE audit
  /\ UNCHANGED <<graph, round, run, aborted, result>>

\* webExecutionStatus.
WebStatus(errors) ==
  CASE errors = {} -> "ok"
    [] errors = Checks -> "error"
    [] OTHER -> "partial"

WebEnds ==
  /\ Current("web") /\ Requested("web")
  /\ \A c \in Checks : check[c] # "running"
  /\ Stores("web", WebStatus({c \in Checks : check[c] # "ok"}), "entra")
  /\ UNCHANGED <<check, graph, round, run, aborted>>

-----------------------------------------------------------------------------
(* withRetry.                                                              *)

\* Mutant: one attempt more.
MayRetryOnceMore(a) == a.attempt <= Retries
MayRetry(a) == a.attempt < Retries

\* An attempt settles: the next one is waited for, or withRetry settles.
After(a, outcome) ==
  [a EXCEPT !.state = IF outcome = "retry" /\ MayRetry(a) THEN "waiting" ELSE outcome]

\* Mutant: the section's signal is not handed on to withRetry.
ResumesAlways(s, a) == Again(a)

\* It looks at the signal before it tries again, and as it sleeps.
Resumes(s, a) == IF s \in aborted THEN [a EXCEPT !.state = "stopped"] ELSE Again(a)

-----------------------------------------------------------------------------
(* The directory audits, one after the other.  Attempts go on, unheard,    *)
(* once the audit has ended.                                               *)

GraphBegins(d) ==
  /\ Current(d) /\ Requested(d) /\ graph[d] = Idle
  /\ graph' = [graph EXCEPT ![d] = First]
  /\ UNCHANGED <<audit, check, round, run, aborted, result>>

GraphSettles(d, outcome) ==
  /\ graph[d].state = "running"
  /\ graph' = [graph EXCEPT ![d] = After(@, outcome)]
  /\ UNCHANGED <<audit, check, round, run, aborted, result>>

GraphResumes(d) ==
  /\ graph[d].state = "waiting"
  /\ graph' = [graph EXCEPT ![d] = Resumes(d, @)]
  /\ UNCHANGED <<audit, check, round, run, aborted, result>>

GraphEnds(d, next) ==
  /\ Current(d) /\ Requested(d)
  /\ graph[d].state \in Outcomes
  /\ IF graph[d].state = "ok" \/ Swallowed(graph[d].state)
     THEN Stores(d, graph[d].state, next)
     ELSE audit' = "retry" /\ UNCHANGED result
  /\ UNCHANGED <<check, graph, round, run, aborted>>

-----------------------------------------------------------------------------
(* The infrastructure: rounds of auditAzureInfra, attempts at its modules. *)

\* AZURE_CREDENTIAL_UNAVAILABLE, before the first round.
NoCredential ==
  /\ Current("infra") /\ Requested("infra") /\ round = Idle
  /\ audit' = "failed"
  /\ UNCHANGED <<check, graph, round, run, aborted, result>>

InfraBegins ==
  /\ Current("infra") /\ Requested("infra") /\ round = Idle
  /\ round' = First
  /\ run' = [run EXCEPT ![0] = [m \in Modules |-> First]]
  /\ UNCHANGED <<audit, check, graph, aborted, result>>

RunSettles(r, m, outcome) ==
  /\ run[r][m].state = "running"
  /\ run' = [run EXCEPT ![r][m] = After(@, outcome)]
  /\ UNCHANGED <<audit, check, graph, round, aborted, result>>

RunResumes(r, m) ==
  /\ run[r][m].state = "waiting"
  /\ run' = [run EXCEPT ![r][m] = Resumes("infra", @)]
  /\ UNCHANGED <<audit, check, graph, round, aborted, result>>

\* It throws an error that a retry may help; others make a FAILED module.
GivesUp(a) == a.state = "retry"

\* Promise.all: the first module that gives up ends the round.  The signal is
\* not aborted, and the other modules of the round run on.
RoundFails ==
  /\ Current("infra") /\ round.state = "running"
  /\ \E m \in Modules : GivesUp(run[round.attempt][m])
  /\ round' = After(round, "retry")
  /\ UNCHANGED <<audit, check, graph, run, aborted, result>>

NextRound ==
  /\ Current("infra") /\ round.state = "waiting"
  /\ round' = Again(round)
  /\ run' = [run EXCEPT ![round.attempt + 1] = [m \in Modules |-> First]]
  /\ UNCHANGED <<audit, check, graph, aborted, result>>

RoundEnds ==
  /\ Current("infra") /\ Requested("infra") /\ round.state = "running"
  /\ \A m \in Modules : run[round.attempt][m].state \in {"ok", "error"}
  /\ round' = [round EXCEPT !.state = "ok"]
  /\ Stores("infra",
            IF \E m \in Modules : run[round.attempt][m].state = "error" THEN "error" ELSE "ok",
            "returned")
  /\ UNCHANGED <<check, graph, run, aborted>>

InfraThrows ==
  /\ Current("infra") /\ round.state = "retry"
  /\ audit' = "retry"
  /\ UNCHANGED <<check, graph, round, run, aborted, result>>

-----------------------------------------------------------------------------
(* Deadlines: the signal is aborted and the race lost to an error that a   *)
(* retry may help.                                                         *)

\* Mutant: the signal is aborted, and the operation awaited.
AbortOnly(s) == aborted' = aborted \cup {s} /\ UNCHANGED audit

Interrupts(s) == aborted' = aborted \cup {s} /\ audit' = "retry"

SectionTimeout(s) ==
  /\ Current(s) /\ Requested(s) /\ s # "web" /\ s \notin aborted
  /\ Interrupts(s)
  /\ UNCHANGED <<check, graph, round, run, result>>

GlobalTimeout ==
  /\ audit \in Sections /\ audit \notin aborted
  /\ Interrupts(audit)
  /\ UNCHANGED <<check, graph, round, run, result>>

Code ==
  \/ Skip("web", "entra") \/ Skip("entra", "identity") \/ Skip("identity", "infra")
  \/ Skip("infra", "returned")
  \/ WebEnds
  \/ \E d \in Directory : GraphBegins(d) \/ GraphResumes(d)
  \/ GraphEnds("entra", "identity") \/ GraphEnds("identity", "infra")
  \/ \E r \in Rounds, m \in Modules : RunResumes(r, m)
  \/ InfraBegins \/ RoundFails \/ NextRound \/ RoundEnds \/ InfraThrows

Provider ==
  \E outcome \in Outcomes :
    \/ \E c \in Checks : CheckSettles(c, outcome)
    \/ \E d \in Directory : GraphSettles(d, outcome)
    \/ \E r \in Rounds, m \in Modules : RunSettles(r, m, outcome)

Next ==
  \/ Code \/ Provider \/ NoCredential
  \/ \E s \in Sections : SectionTimeout(s)
  \/ GlobalTimeout

Spec == Init /\ [][Next]_vars

\* Continuations run and timers fire; a provider owes no answer.
FairSpec == Spec /\ WF_vars(Code) /\ WF_vars(GlobalTimeout)

-----------------------------------------------------------------------------
(* Properties.                                                             *)

\* Types; attempts and rounds stay within the retries allowed.
TypeOK ==
  /\ audit \in Sections \cup Ended
  /\ check \in [Checks -> {"running"} \cup Outcomes]
  /\ graph \in [Directory -> Tries]
  /\ round \in Tries
  /\ run \in [Rounds -> [Modules -> Tries]]
  /\ aborted \subseteq Sections
  /\ result \in [Sections -> {"absent", "none", "ok", "partial", "error"}]

\* A result is returned only if every part asked for has settled, in the last
\* round, with no error that a retry might have helped.
ReturnedIsComplete ==
  audit = "returned" =>
    /\ \A s \in Sections : result[s] # "none"
    /\ aborted = {}
    /\ Requested("web") => \A c \in Checks : check[c] \in {"ok", "error"}
    /\ \A d \in Directory : Requested(d) => graph[d].state \in {"ok", "error"}
    /\ Requested("infra") => \A m \in Modules : run[round.attempt][m].state \in {"ok", "error"}

\* The message is retried only for a deadline, or for a part that gave up on
\* an error that may pass: never for what a retry cannot help.
RetriedForCause ==
  audit = "retry" =>
    \/ aborted # {}
    \/ \E c \in Checks : check[c] = "retry"
    \/ \E d \in Directory : graph[d].state = "retry"
    \/ \E m \in Modules : run[Retries][m].state = "retry"

\* How the audit ends is how its parts went, in every interleaving of their
\* attempts with the deadlines.
EndsAsItWent == ReturnedIsComplete /\ RetriedForCause

\* Whatever settles late, the outcome of an ended audit and what it has stored of
\* its sections stand (not the timings: see CheckSettles).
ResultFinal == [][(audit \in Ended) => (audit' = audit /\ result' = result)]_vars

\* Once a section's signal is aborted no attempt of it begins, not even in
\* the rounds that were given up.
NothingBegins ==
  /\ \A d \in Directory \cap aborted : graph'[d].attempt = graph[d].attempt
  /\ "infra" \in aborted =>
       /\ round'.attempt = round.attempt
       /\ \A r \in Rounds, m \in Modules : run'[r][m].attempt = run[r][m].attempt

NoAttemptAfterAbort == [][NothingBegins]_vars

\* The audit ends, although provider calls may never answer.
AuditEnds == <>(audit \in Ended)

=============================================================================
