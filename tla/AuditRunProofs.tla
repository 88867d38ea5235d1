--------------------------- MODULE AuditRunProofs ---------------------------
(***************************************************************************)
(* Proofs about AuditRun, for any checks, modules and number of retries.   *)
(*                                                                         *)
(* The invariant follows the sections: those the audit has passed are      *)
(* stored and their parts settled (Stored, PartsSettled); a signal is      *)
(* aborted only as the audit ends (AbortEnds); what waits to be tried      *)
(* again may be (WaitingMayRetry); and a last round that is given up has a *)
(* module that gave up (LastRoundGaveUp).                                  *)
(***************************************************************************)
EXTENDS AuditRun, TLAPS

\* The values of audit once a section is passed and the audit not thrown.
Past(s) ==
  CASE s = "web" -> {"entra", "identity", "infra", "returned"}
    [] s = "entra" -> {"identity", "infra", "returned"}
    [] s = "identity" -> {"infra", "returned"}
    [] s = "infra" -> {"returned"}

WaitingMayRetry ==
  /\ \A d \in Directory : graph[d].state = "waiting" => MayRetry(graph[d])
  /\ round.state = "waiting" => MayRetry(round)
  /\ \A r \in Rounds, m \in Modules : run[r][m].state = "waiting" => MayRetry(run[r][m])

AbortEnds == audit # "retry" => aborted = {}

Stored == \A s \in Sections : audit \in Past(s) => result[s] # "none"

WebSettled ==
  /\ audit = "web" => \A c \in Checks : check[c] # "retry"
  /\ audit \in Past("web") /\ Requested("web") => \A c \in Checks : check[c] \in {"ok", "error"}

DirectorySettled ==
  \A d \in Directory : audit \in Past(d) /\ Requested(d) => graph[d].state \in {"ok", "error"}

InfraSettled ==
  audit = "returned" /\ Requested("infra") =>
    \A m \in Modules : run[round.attempt][m].state \in {"ok", "error"}

LastRoundGaveUp ==
  round.state = "retry" =>
    round.attempt = Retries /\ \E m \in Modules : run[Retries][m].state = "retry"

PartsSettled == WebSettled /\ DirectorySettled /\ InfraSettled

Inv ==
  /\ TypeOK /\ WaitingMayRetry /\ AbortEnds /\ Stored /\ PartsSettled /\ LastRoundGaveUp
  /\ RetriedForCause

-----------------------------------------------------------------------------
(* The operators on attempts.                                              *)

LEMMA IdleIsTry == Idle \in Tries /\ First \in Tries
  BY RetriesAssumption DEF Idle, First, Tries, Outcomes

\* An attempt that settles keeps its number, and waits only if it may.
LEMMA AfterSettles ==
  ASSUME NEW a \in Tries, NEW outcome \in Outcomes
  PROVE  /\ After(a, outcome) \in Tries
         /\ After(a, outcome).attempt = a.attempt
         /\ After(a, outcome).state = (IF outcome = "retry" /\ MayRetry(a) THEN "waiting" ELSE outcome)
         /\ After(a, outcome).state = "waiting" => MayRetry(After(a, outcome))
  BY DEF After, Tries, Outcomes, MayRetry

\* An attempt that resumes stays within the retries.
LEMMA AgainWithin ==
  ASSUME NEW a \in Tries, MayRetry(a)
  PROVE  Again(a) \in Tries /\ Again(a).state = "running"
  BY RetriesAssumption DEF Again, Tries, MayRetry, Outcomes

LEMMA ResumesWithin ==
  ASSUME NEW a \in Tries, MayRetry(a), NEW s
  PROVE  /\ Resumes(s, a) \in Tries
         /\ Resumes(s, a).state \in {"running", "stopped"}
         /\ s \in aborted => Resumes(s, a).attempt = a.attempt
  <1>1. CASE s \in aborted
    BY <1>1, RetriesAssumption DEF Resumes, Tries, Outcomes
  <1>2. CASE s \notin aborted
    BY <1>2, AgainWithin DEF Resumes
  <1>. QED BY <1>1, <1>2

-----------------------------------------------------------------------------
(* Every step is one of these.                                             *)

Acts ==
  \/ Skip("web", "entra") \/ Skip("entra", "identity") \/ Skip("identity", "infra")
  \/ Skip("infra", "returned")
  \/ WebEnds
  \/ \E d \in Directory : GraphBegins(d)
  \/ \E d \in Directory : GraphResumes(d)
  \/ GraphEnds("entra", "identity") \/ GraphEnds("identity", "infra")
  \/ \E r \in Rounds, m \in Modules : RunResumes(r, m)
  \/ InfraBegins \/ RoundFails \/ NextRound \/ RoundEnds \/ InfraThrows
  \/ \E c \in Checks, outcome \in Outcomes : CheckSettles(c, outcome)
  \/ \E d \in Directory, outcome \in Outcomes : GraphSettles(d, outcome)
  \/ \E r \in Rounds, m \in Modules, outcome \in Outcomes : RunSettles(r, m, outcome)
  \/ NoCredential
  \/ \E s \in Sections : SectionTimeout(s)
  \/ GlobalTimeout
  \/ UNCHANGED vars

LEMMA NextActs == [Next]_vars => Acts
  <1>. SUFFICES ASSUME [Next]_vars PROVE Acts
    OBVIOUS
  <1>1. CASE Code
    BY <1>1 DEF Code, Acts
  <1>2. CASE Provider
    BY <1>2 DEF Provider, Acts
  <1>3. CASE NoCredential \/ (\E s \in Sections : SectionTimeout(s)) \/ GlobalTimeout \/ UNCHANGED vars
    BY <1>3 DEF Acts
  <1>. QED BY <1>1, <1>2, <1>3 DEF Next

LEMMA InitInv == Init => Inv
  <1>. SUFFICES ASSUME Init PROVE Inv
    OBVIOUS
  <1>1. TypeOK
    BY IdleIsTry DEF Init, TypeOK, Sections, Directory, Ended
  <1>2. WaitingMayRetry
    BY DEF Init, WaitingMayRetry, Idle
  <1>3. AbortEnds /\ Stored
    BY DEF Init, AbortEnds, Stored, Sections, Directory, Past
  <1>4. PartsSettled
    BY DEF Init, PartsSettled, WebSettled, DirectorySettled, InfraSettled, Past, Directory
  <1>5. LastRoundGaveUp /\ RetriedForCause
    BY DEF Init, LastRoundGaveUp, RetriedForCause, Idle
  <1>. QED BY <1>1, <1>2, <1>3, <1>4, <1>5 DEF Inv

-----------------------------------------------------------------------------
(* Types, and what waits.                                                  *)

LEMMA TypeStep ==
  ASSUME TypeOK, WaitingMayRetry, [Next]_vars
  PROVE  TypeOK' /\ WaitingMayRetry'
  <1>a. Acts
    BY NextActs
  <1>. USE DEF TypeOK, WaitingMayRetry
  <1>1. CASE \E s \in Sections, next \in Sections \cup {"returned"} : Skip(s, next)
    BY <1>1 DEF Skip, Ended
  <1>2. CASE WebEnds
    BY <1>2 DEF WebEnds, Stores, WebStatus, Sections, Directory
  <1>3. CASE \E d \in Directory : GraphBegins(d)
    <2>. PICK d \in Directory : GraphBegins(d)
      BY <1>3
    <2>. QED BY IdleIsTry DEF GraphBegins, First
  <1>4. CASE \E d \in Directory : GraphResumes(d)
    <2>. PICK d \in Directory : GraphResumes(d)
      BY <1>4
    <2>. QED BY ResumesWithin DEF GraphResumes
  <1>5. CASE GraphEnds("entra", "identity") \/ GraphEnds("identity", "infra")
    BY <1>5 DEF GraphEnds, Stores, Sections, Directory, Ended, Swallowed
  <1>6. CASE \E r \in Rounds, m \in Modules : RunResumes(r, m)
    <2>. PICK r \in Rounds, m \in Modules : RunResumes(r, m)
      BY <1>6
    <2>. QED BY ResumesWithin DEF RunResumes
  <1>7. CASE InfraBegins
    <2>1. 0 \in Rounds
      BY RetriesAssumption DEF Rounds
    <2>. QED BY <1>7, <2>1, IdleIsTry DEF InfraBegins, First
  <1>8. CASE RoundFails
    BY <1>8, AfterSettles DEF RoundFails, Outcomes
  <1>9. CASE NextRound
    <2>1. round.attempt + 1 \in Rounds
      BY <1>9, RetriesAssumption DEF NextRound, MayRetry, Rounds, Tries
    <2>2. round' \in Tries /\ round'.state = "running"
      BY <1>9, AgainWithin DEF NextRound
    <2>. QED BY <1>9, <2>1, <2>2, IdleIsTry DEF NextRound, First
  <1>10. CASE RoundEnds
    <2>1. round' \in Tries /\ round'.state = "ok"
      BY <1>10 DEF RoundEnds, Tries, Outcomes
    <2>. QED BY <1>10, <2>1 DEF RoundEnds, Stores, Sections, Ended
  <1>11. CASE InfraThrows \/ NoCredential
    BY <1>11 DEF InfraThrows, NoCredential, Ended
  <1>12. CASE \E c \in Checks, outcome \in Outcomes : CheckSettles(c, outcome)
    BY <1>12 DEF CheckSettles, Ended
  <1>13. CASE \E d \in Directory, outcome \in Outcomes : GraphSettles(d, outcome)
    <2>. PICK d \in Directory, outcome \in Outcomes : GraphSettles(d, outcome)
      BY <1>13
    <2>. QED BY AfterSettles DEF GraphSettles
  <1>14. CASE \E r \in Rounds, m \in Modules, outcome \in Outcomes : RunSettles(r, m, outcome)
    <2>. PICK r \in Rounds, m \in Modules, outcome \in Outcomes : RunSettles(r, m, outcome)
      BY <1>14
    <2>. QED BY AfterSettles DEF RunSettles
  <1>15. CASE (\E s \in Sections : SectionTimeout(s)) \/ GlobalTimeout
    BY <1>15 DEF SectionTimeout, GlobalTimeout, Interrupts, Ended
  <1>16. CASE UNCHANGED vars
    BY <1>16 DEF vars
  <1>. QED BY <1>a, <1>1, <1>2, <1>3, <1>4, <1>5, <1>6, <1>7, <1>8, <1>9, <1>10, <1>11, <1>12,
              <1>13, <1>14, <1>15, <1>16 DEF Acts, Sections, Directory

-----------------------------------------------------------------------------
(* Where a step may take the audit.                                        *)

\* The audit stays, ends in error, or passes the section it is at.
LEMMA AuditStep ==
  ASSUME TypeOK, [Next]_vars
  PROVE  \/ audit' = audit
         \/ audit \in Sections /\ audit' \in {"retry", "failed"}
         \/ audit = "web" /\ audit' = "entra"
         \/ audit = "entra" /\ audit' = "identity"
         \/ audit = "identity" /\ audit' = "infra"
         \/ audit = "infra" /\ audit' = "returned"
  <1>a. Acts
    BY NextActs
  <1>. USE DEF Current, Sections, Directory
  <1>1. CASE Skip("web", "entra") \/ Skip("entra", "identity") \/ Skip("identity", "infra")
             \/ Skip("infra", "returned")
    BY <1>1 DEF Skip
  <1>2. CASE WebEnds \/ RoundEnds \/ GraphEnds("entra", "identity") \/ GraphEnds("identity", "infra")
    BY <1>2 DEF WebEnds, RoundEnds, GraphEnds, Stores
  <1>3. CASE \/ \E d \in Directory : GraphBegins(d) \/ GraphResumes(d)
             \/ \E r \in Rounds, m \in Modules : RunResumes(r, m)
             \/ InfraBegins \/ RoundFails \/ NextRound
             \/ UNCHANGED vars
    BY <1>3 DEF GraphBegins, GraphResumes, RunResumes, InfraBegins, RoundFails, NextRound, vars
  <1>4. CASE \/ \E d \in Directory, outcome \in Outcomes : GraphSettles(d, outcome)
             \/ \E r \in Rounds, m \in Modules, outcome \in Outcomes : RunSettles(r, m, outcome)
    BY <1>4 DEF GraphSettles, RunSettles
  <1>5. CASE InfraThrows \/ NoCredential
             \/ \E c \in Checks, outcome \in Outcomes : CheckSettles(c, outcome)
    BY <1>5 DEF InfraThrows, NoCredential, CheckSettles
  <1>6. CASE (\E s \in Sections : SectionTimeout(s)) \/ GlobalTimeout
    BY <1>6 DEF SectionTimeout, GlobalTimeout, Interrupts
  <1>. QED BY <1>a, <1>1, <1>2, <1>3, <1>4, <1>5, <1>6 DEF Acts

\* A signal is aborted only by a deadline, which ends the audit.
LEMMA AbortStep ==
  ASSUME TypeOK, AbortEnds, [Next]_vars
  PROVE  AbortEnds' /\ (aborted' = aborted \/ (audit' = "retry" /\ aborted' # {}))
  <1>a. Acts
    BY NextActs
  <1>1. CASE (\E s \in Sections : SectionTimeout(s)) \/ GlobalTimeout
    BY <1>1 DEF SectionTimeout, GlobalTimeout, Interrupts, AbortEnds
  <1>2. CASE ~((\E s \in Sections : SectionTimeout(s)) \/ GlobalTimeout)
    <2>1. aborted' = aborted
      BY <1>a, <1>2 DEF Acts, Skip, WebEnds, GraphBegins, GraphResumes, GraphEnds, RunResumes,
           InfraBegins, RoundFails, NextRound, RoundEnds, InfraThrows, CheckSettles,
           GraphSettles, RunSettles, NoCredential, vars
    <2>2. audit = "retry" => audit' = "retry"
      BY AuditStep DEF Sections, Directory
    <2>. QED BY <2>1, <2>2 DEF AbortEnds
  <1>. QED BY <1>1, <1>2

\* What is stored: a section, as the audit passes it.
LEMMA ResultStep ==
  ASSUME TypeOK, [Next]_vars
  PROVE  \/ result' = result
         \/ \E s \in Sections :
              /\ audit = s /\ audit' \in Past(s) /\ Requested(s)
              /\ \E status \in {"ok", "partial", "error"} :
                   result' = [result EXCEPT ![s] = status]
  <1>a. Acts
    BY NextActs
  <1>1. CASE WebEnds
    <2>1. WebStatus({c \in Checks : check[c] # "ok"}) \in {"ok", "partial", "error"}
      BY DEF WebStatus
    <2>2. "web" \in Sections
      BY DEF Sections
    <2>3. result' = [result EXCEPT !["web"] = WebStatus({c \in Checks : check[c] # "ok"})]
      BY <1>1 DEF WebEnds, Stores
    <2>4. audit = "web" /\ audit' \in Past("web") /\ Requested("web")
      BY <1>1 DEF WebEnds, Stores, Current, Past
    <2>. QED BY <2>1, <2>2, <2>3, <2>4
  <1>2. ASSUME NEW d \in Directory, NEW next \in Past(d), GraphEnds(d, next), result' # result
        PROVE  /\ audit = d /\ audit' \in Past(d) /\ Requested(d)
               /\ \E status \in {"ok", "error"} : result' = [result EXCEPT ![d] = status]
    <2>1. Requested(d)
      BY <1>2 DEF GraphEnds
    <2>2. audit = d
      BY <1>2 DEF GraphEnds, Current
    <2>3. graph[d].state \in {"ok", "error"}
      BY <1>2 DEF GraphEnds, Swallowed
    <2>4. result' = [result EXCEPT ![d] = graph[d].state] /\ audit' = next
      BY <1>2 DEF GraphEnds, Stores
    <2>. QED BY <2>1, <2>2, <2>3, <2>4
  <1>3. ASSUME RoundEnds
        PROVE  /\ audit = "infra" /\ audit' \in Past("infra") /\ Requested("infra")
               /\ \E status \in {"ok", "error"} : result' = [result EXCEPT !["infra"] = status]
    <2>1. audit = "infra" /\ audit' \in Past("infra") /\ Requested("infra")
      BY <1>3 DEF RoundEnds, Stores, Current, Past
    <2>2. \/ result' = [result EXCEPT !["infra"] = "ok"]
          \/ result' = [result EXCEPT !["infra"] = "error"]
      BY <1>3 DEF RoundEnds, Stores
    <2>. QED BY <2>1, <2>2
  <1>4. CASE GraphEnds("entra", "identity") \/ GraphEnds("identity", "infra")
    <2>1. "identity" \in Past("entra") /\ "infra" \in Past("identity")
      BY DEF Past
    <2>2. "entra" \in Directory \cap Sections /\ "identity" \in Directory \cap Sections
      BY DEF Directory, Sections
    <2>. QED BY <1>2, <1>4, <2>1, <2>2
  <1>5. CASE RoundEnds
    BY <1>3, <1>5 DEF Sections
  <1>6. CASE ~(WebEnds \/ GraphEnds("entra", "identity") \/ GraphEnds("identity", "infra") \/ RoundEnds)
    BY <1>a, <1>6 DEF Acts, Skip, GraphBegins, GraphResumes, RunResumes,
         InfraBegins, RoundFails, NextRound, InfraThrows, CheckSettles,
         GraphSettles, RunSettles, NoCredential, SectionTimeout, GlobalTimeout, vars
  <1>. QED BY <1>1, <1>4, <1>5, <1>6

LEMMA RequestedStep ==
  ASSUME TypeOK, [Next]_vars, NEW s \in Sections
  PROVE  Requested(s)' <=> Requested(s)
  BY ResultStep DEF Requested, TypeOK

LEMMA StoredStep ==
  ASSUME TypeOK, Stored, [Next]_vars
  PROVE  Stored'
  <1>. SUFFICES ASSUME NEW s \in Sections, audit' \in Past(s) PROVE result'[s] # "none"
    BY DEF Stored
  <1>1. CASE audit \in Past(s)
    BY <1>1, ResultStep DEF Stored, TypeOK
  <1>2. CASE audit \notin Past(s)
    <2>1. audit = s
      BY <1>2, AuditStep DEF Past, Sections, Directory
    <2>2. CASE result' = result
      <3>. USE DEF Sections, Directory
      <3>a. Acts
        BY NextActs
      <3>1. CASE Skip("web", "entra") \/ Skip("entra", "identity") \/ Skip("identity", "infra")
                 \/ Skip("infra", "returned")
        BY <3>1, <2>1, <2>2 DEF Skip, Current, Requested
      <3>2. CASE WebEnds \/ RoundEnds
        <4>1. result'[s] \in {"ok", "partial", "error"}
          BY <3>2, <2>1 DEF WebEnds, RoundEnds, Stores, Current, WebStatus, TypeOK
        <4>. QED BY <4>1
      <3>3. CASE GraphEnds("entra", "identity") \/ GraphEnds("identity", "infra")
        BY <3>3, <2>1, <1>2 DEF GraphEnds, Stores, Current, Swallowed, TypeOK, Past
      <3>4. CASE ~(\/ Skip("web", "entra") \/ Skip("entra", "identity")
                   \/ Skip("identity", "infra") \/ Skip("infra", "returned")
                   \/ WebEnds \/ RoundEnds
                   \/ GraphEnds("entra", "identity") \/ GraphEnds("identity", "infra"))
        <4>1. audit' = audit \/ audit' \in {"retry", "failed"}
          BY <3>a, <3>4 DEF Acts, GraphBegins, GraphResumes, RunResumes, InfraBegins, RoundFails,
             NextRound, InfraThrows, CheckSettles, GraphSettles, RunSettles, NoCredential,
             SectionTimeout, GlobalTimeout, Interrupts, vars
        <4>. QED BY <4>1, <1>2 DEF Past
      <3>. QED BY <3>1, <3>2, <3>3, <3>4
    <2>3. CASE result' # result
      BY <2>1, <2>3, ResultStep DEF TypeOK
    <2>. QED BY <2>2, <2>3
  <1>. QED BY <1>1, <1>2

-----------------------------------------------------------------------------
(* What has settled stays settled.                                         *)

\* A check changes only as it settles, before the web section has ended or
\* after the audit was thrown.
LEMMA CheckStep ==
  ASSUME TypeOK, [Next]_vars
  PROVE  \/ check' = check
         \/ /\ Requested("web") /\ \E c \in Checks : check[c] = "running"
            /\ audit' = audit \/ audit' = "retry"
            /\ \A c \in Checks : /\ check'[c] = check[c] \/ check[c] = "running"
                                 /\ audit' = "web" /\ check'[c] = "retry" => check[c] = "retry"
  <1>a. Acts
    BY NextActs
  <1>1. CASE \E c \in Checks, outcome \in Outcomes : CheckSettles(c, outcome)
    <2>. PICK c \in Checks, outcome \in Outcomes : CheckSettles(c, outcome)
      BY <1>1
    <2>. QED BY DEF CheckSettles, TypeOK, Outcomes, Swallowed, Current
  <1>2. CASE ~\E c \in Checks, outcome \in Outcomes : CheckSettles(c, outcome)
    BY <1>a, <1>2 DEF Acts, Skip, WebEnds, GraphBegins, GraphResumes, GraphEnds, RunResumes,
         InfraBegins, RoundFails, NextRound, RoundEnds, InfraThrows, GraphSettles, RunSettles,
         NoCredential, SectionTimeout, GlobalTimeout, vars
  <1>. QED BY <1>1, <1>2

LEMMA WebStep ==
  ASSUME TypeOK, WebSettled, [Next]_vars
  PROVE  WebSettled'
  <1>a. Requested("web")' <=> Requested("web")
    BY RequestedStep DEF Sections
  <1>1. ASSUME audit' = "web" PROVE \A c \in Checks : check'[c] # "retry"
    <2>1. audit = "web"
      BY <1>1, AuditStep DEF Sections, Directory
    <2>. QED BY <1>1, <2>1, CheckStep DEF WebSettled
  <1>2. ASSUME audit' \in Past("web"), Requested("web"), NEW c \in Checks
        PROVE  check'[c] \in {"ok", "error"}
    <2>1. CASE audit \in Past("web")
      BY <1>2, <2>1, CheckStep DEF WebSettled
    <2>2. CASE audit \notin Past("web")
      <3>1. audit = "web" /\ audit' = "entra"
        BY <1>2, <2>2, AuditStep DEF Past, Sections, Directory
      <3>2. WebEnds
        <4>a. Acts
          BY NextActs
        <4>. QED BY <4>a, <3>1, <1>2 DEF Acts, Skip, Current, GraphBegins, GraphResumes, GraphEnds,
              RunResumes, InfraBegins, RoundFails, NextRound, RoundEnds, InfraThrows, CheckSettles,
              GraphSettles, RunSettles, NoCredential, SectionTimeout, GlobalTimeout, Interrupts,
              Stores, vars
      <3>. QED BY <3>1, <3>2 DEF WebEnds, WebSettled, TypeOK, Outcomes
    <2>. QED BY <2>1, <2>2
  <1>. QED BY <1>a, <1>1, <1>2 DEF WebSettled

\* A directory audit changes only as it begins, settles or resumes.
LEMMA GraphStep ==
  ASSUME TypeOK, [Next]_vars
  PROVE  \A d \in Directory :
           \/ graph'[d] = graph[d]
           \/ /\ graph[d] = Idle \/ graph[d].state \in {"running", "waiting"}
              /\ audit' = audit
              /\ d \in aborted => graph'[d].attempt = graph[d].attempt \/ audit = d
  <1>a. Acts
    BY NextActs
  <1>. USE DEF TypeOK
  <1>1. CASE \E d \in Directory : GraphBegins(d)
    BY <1>1 DEF GraphBegins, Current
  <1>2. CASE \E d \in Directory : GraphResumes(d)
    BY <1>2 DEF GraphResumes, Resumes
  <1>3. CASE \E d \in Directory, outcome \in Outcomes : GraphSettles(d, outcome)
    <2>. PICK d \in Directory, outcome \in Outcomes : GraphSettles(d, outcome)
      BY <1>3
    <2>. QED BY AfterSettles DEF GraphSettles
  <1>4. CASE ~(\/ \E d \in Directory : GraphBegins(d)
               \/ \E d \in Directory : GraphResumes(d)
               \/ \E d \in Directory, outcome \in Outcomes : GraphSettles(d, outcome))
    BY <1>a, <1>4 DEF Acts, Skip, WebEnds, GraphEnds, RunResumes, InfraBegins, RoundFails,
         NextRound, RoundEnds, InfraThrows, CheckSettles, RunSettles, NoCredential,
         SectionTimeout, GlobalTimeout, vars
  <1>. QED BY <1>1, <1>2, <1>3, <1>4

LEMMA DirectoryStep ==
  ASSUME TypeOK, DirectorySettled, [Next]_vars
  PROVE  DirectorySettled'
  <1>. SUFFICES ASSUME NEW d \in Directory, audit' \in Past(d), Requested(d)'
                PROVE  graph'[d].state \in {"ok", "error"}
    BY DEF DirectorySettled
  <1>a. Requested(d)
    BY RequestedStep DEF Sections
  <1>1. CASE audit \in Past(d)
    BY <1>1, <1>a, GraphStep DEF DirectorySettled, Idle
  <1>2. CASE audit \notin Past(d)
    <2>1. audit = d
      BY <1>2, AuditStep DEF Past, Sections, Directory
    <2>2. GraphEnds("entra", "identity") \/ GraphEnds("identity", "infra")
      <3>a. Acts
        BY NextActs
      <3>. QED BY <3>a, <2>1, <1>a, <1>2 DEF Acts, Skip, Current, WebEnds, GraphBegins,
            GraphResumes, RunResumes, InfraBegins, RoundFails, NextRound, RoundEnds, InfraThrows,
            CheckSettles, GraphSettles, RunSettles, NoCredential, SectionTimeout, GlobalTimeout,
            Interrupts, Stores, vars, Directory, Past
    <2>3. graph[d].state = "ok" \/ Swallowed(graph[d].state)
      BY <2>1, <2>2, <1>2 DEF GraphEnds, Current, Past, Directory
    <2>. QED BY <2>2, <2>3 DEF GraphEnds, Swallowed
  <1>. QED BY <1>1, <1>2


-----------------------------------------------------------------------------
(* Rounds and the attempts at modules.                                     *)

\* Rounds move only while the audit is at the infrastructure.
LEMMA RoundStep ==
  ASSUME TypeOK, [Next]_vars
  PROVE  round' = round \/ audit = "infra"
  <1>a. Acts
    BY NextActs
  <1>. QED BY <1>a DEF Acts, Skip, Current, WebEnds, GraphBegins, GraphResumes, GraphEnds,
            RunResumes, InfraBegins, RoundFails, NextRound, RoundEnds, InfraThrows, CheckSettles,
            GraphSettles, RunSettles, NoCredential, SectionTimeout, GlobalTimeout, vars

\* An attempt at a module that has settled stays so, but for a new round.
LEMMA RunStep ==
  ASSUME TypeOK, [Next]_vars, NEW r \in Rounds, NEW m \in Modules
  PROVE  \/ run'[r][m] = run[r][m]
         \/ run[r][m].state \in {"running", "waiting"}
         \/ InfraBegins \/ NextRound
  <1>a. Acts
    BY NextActs
  <1>. USE DEF TypeOK
  <1>1. CASE \E q \in Rounds, n \in Modules : RunResumes(q, n)
    BY <1>1 DEF RunResumes
  <1>2. CASE \E q \in Rounds, n \in Modules, outcome \in Outcomes : RunSettles(q, n, outcome)
    BY <1>2 DEF RunSettles
  <1>3. CASE ~(\/ \E q \in Rounds, n \in Modules : RunResumes(q, n)
               \/ \E q \in Rounds, n \in Modules, outcome \in Outcomes : RunSettles(q, n, outcome))
    BY <1>a, <1>3 DEF Acts, Skip, WebEnds, GraphBegins, GraphResumes, GraphEnds, RoundFails,
         RoundEnds, InfraThrows, CheckSettles, GraphSettles, NoCredential, SectionTimeout,
         GlobalTimeout, vars
  <1>. QED BY <1>1, <1>2, <1>3

LEMMA RoundInRounds == TypeOK => round.attempt \in Rounds
  BY DEF TypeOK, Tries, Rounds

LEMMA InfraStep ==
  ASSUME TypeOK, InfraSettled, [Next]_vars
  PROVE  InfraSettled'
  <1>. SUFFICES ASSUME audit' = "returned", Requested("infra")', NEW m \in Modules
                PROVE  run'[round'.attempt][m].state \in {"ok", "error"}
    BY DEF InfraSettled
  <1>a. Requested("infra")
    BY RequestedStep DEF Sections
  <1>1. CASE audit = "returned"
    <2>1. round' = round /\ ~InfraBegins /\ ~NextRound
      BY <1>1, RoundStep DEF InfraBegins, NextRound, Current
    <2>2. run[round.attempt][m].state \in {"ok", "error"}
      BY <1>1, <1>a DEF InfraSettled
    <2>. QED BY <2>1, <2>2, RunStep, RoundInRounds
  <1>2. CASE audit # "returned"
    <2>1. audit = "infra"
      BY <1>2, AuditStep DEF Sections, Directory
    <2>2. RoundEnds
      <3>a. Acts
        BY NextActs
      <3>. QED BY <3>a, <2>1, <1>a, <1>2 DEF Acts, Skip, Current, WebEnds, GraphBegins,
            GraphResumes, GraphEnds, RunResumes, InfraBegins, RoundFails, NextRound, InfraThrows,
            CheckSettles, GraphSettles, RunSettles, NoCredential, SectionTimeout, GlobalTimeout,
            Interrupts, Stores, vars, Directory
    <2>3. round'.attempt = round.attempt /\ run' = run
      BY <2>2 DEF RoundEnds, TypeOK, Tries
    <2>. QED BY <2>2, <2>3 DEF RoundEnds
  <1>. QED BY <1>1, <1>2

\* A round that withRetry gives up is the last one.
LEMMA GaveUpStep ==
  ASSUME TypeOK, LastRoundGaveUp, [Next]_vars
  PROVE  LastRoundGaveUp'
  <1>. SUFFICES ASSUME round'.state = "retry"
                PROVE  /\ round'.attempt = Retries
                       /\ \E m \in Modules : run'[Retries][m].state = "retry"
    BY DEF LastRoundGaveUp
  <1>a. Retries \in Rounds
    BY RetriesAssumption DEF Rounds
  <1>1. CASE round.state = "retry"
    <2>1. ~InfraBegins /\ ~NextRound
      BY <1>1 DEF InfraBegins, NextRound, Idle
    <2>2. PICK m \in Modules : run[Retries][m].state = "retry"
      BY <1>1 DEF LastRoundGaveUp
    <2>3. run'[Retries][m] = run[Retries][m]
      BY <2>1, <2>2, <1>a, RunStep
    <2>4. round' = round
      <3>a. Acts
        BY NextActs
      <3>. QED BY <3>a, <1>1 DEF Acts, Skip, WebEnds, GraphBegins, GraphResumes, GraphEnds,
            RunResumes, InfraBegins, Idle, RoundFails, NextRound, RoundEnds, InfraThrows,
            CheckSettles, GraphSettles, RunSettles, NoCredential, SectionTimeout, GlobalTimeout, vars
    <2>. QED BY <1>1, <2>2, <2>3, <2>4 DEF LastRoundGaveUp
  <1>2. CASE round.state # "retry"
    <2>1. RoundFails
      <3>a. Acts
        BY NextActs
      <3>1. CASE InfraBegins \/ NextRound
        BY <3>1 DEF InfraBegins, NextRound, First, Again
      <3>2. CASE RoundEnds
        BY <3>2 DEF RoundEnds, TypeOK, Tries
      <3>3. CASE ~(InfraBegins \/ NextRound \/ RoundEnds)
        BY <3>a, <3>3, <1>2 DEF Acts, Skip, WebEnds, GraphBegins, GraphResumes, GraphEnds,
           RunResumes, InfraThrows, CheckSettles, GraphSettles, RunSettles, NoCredential,
           SectionTimeout, GlobalTimeout, vars
      <3>. QED BY <3>1, <3>2, <3>3
    <2>2. ~MayRetry(round) /\ round'.attempt = round.attempt
      BY <2>1, AfterSettles DEF RoundFails, Outcomes, TypeOK
    <2>3. round.attempt = Retries
      <3>1. round.attempt \in 0..Retries
        BY DEF TypeOK, Tries
      <3>2. ~(round.attempt < Retries)
        BY <2>2 DEF MayRetry
      <3>. QED BY <3>1, <3>2, RetriesAssumption
    <2>. QED BY <2>1, <2>2, <2>3 DEF RoundFails, GivesUp
  <1>. QED BY <1>1, <1>2

-----------------------------------------------------------------------------
(* Why a message is retried.                                               *)

LEMMA CauseStep ==
  ASSUME TypeOK, AbortEnds, WebSettled, LastRoundGaveUp, RetriedForCause, [Next]_vars
  PROVE  RetriedForCause'
  <1>. SUFFICES ASSUME audit' = "retry"
                PROVE  \/ aborted' # {}
                       \/ \E c \in Checks : check'[c] = "retry"
                       \/ \E d \in Directory : graph'[d].state = "retry"
                       \/ \E m \in Modules : run'[Retries][m].state = "retry"
    BY DEF RetriedForCause
  <1>a. Retries \in Rounds
    BY RetriesAssumption DEF Rounds
  <1>1. CASE audit = "retry"
    <2>1. CASE aborted # {}
      BY <2>1, AbortStep
    <2>2. CASE \E c \in Checks : check[c] = "retry"
      BY <2>2, CheckStep DEF TypeOK
    <2>3. CASE \E d \in Directory : graph[d].state = "retry"
      BY <2>3, GraphStep DEF Idle
    <2>4. CASE \E m \in Modules : run[Retries][m].state = "retry"
      <3>1. ~InfraBegins /\ ~NextRound
        BY <1>1 DEF InfraBegins, NextRound, Current
      <3>. QED BY <2>4, <3>1, <1>a, RunStep
    <2>. QED BY <1>1, <2>1, <2>2, <2>3, <2>4 DEF RetriedForCause
  <1>2. CASE audit # "retry"
    <2>a. Acts
      BY NextActs
    <2>1. CASE (\E s \in Sections : SectionTimeout(s)) \/ GlobalTimeout
      BY <2>1 DEF SectionTimeout, GlobalTimeout, Interrupts
    <2>2. CASE \E c \in Checks, outcome \in Outcomes : CheckSettles(c, outcome)
      BY <2>2, <1>2 DEF CheckSettles, Swallowed, Outcomes, TypeOK
    <2>3. CASE GraphEnds("entra", "identity") \/ GraphEnds("identity", "infra")
      BY <2>3, <1>2 DEF GraphEnds, Stores, Swallowed, Outcomes, Directory
    <2>4. CASE InfraThrows
      BY <2>4 DEF InfraThrows, LastRoundGaveUp
    <2>. QED BY <2>a, <1>2, <2>1, <2>2, <2>3, <2>4 DEF Acts, Skip, WebEnds, GraphBegins,
          GraphResumes, RunResumes, InfraBegins, RoundFails, NextRound, RoundEnds, Stores,
          GraphSettles, RunSettles, NoCredential, vars
  <1>. QED BY <1>1, <1>2

LEMMA InvStep == Inv /\ [Next]_vars => Inv'
  <1>. SUFFICES ASSUME Inv, [Next]_vars PROVE Inv'
    OBVIOUS
  <1>1. TypeOK' /\ WaitingMayRetry' /\ AbortEnds'
    BY TypeStep, AbortStep DEF Inv
  <1>2. Stored' /\ PartsSettled' /\ LastRoundGaveUp'
    BY StoredStep, WebStep, DirectoryStep, InfraStep, GaveUpStep DEF Inv, PartsSettled
  <1>3. RetriedForCause'
    BY CauseStep DEF Inv, PartsSettled
  <1>. QED BY <1>1, <1>2, <1>3 DEF Inv

THEOREM Invariance == Spec => []Inv
  BY InitInv, InvStep, PTL DEF Spec

-----------------------------------------------------------------------------
(* The theorems.                                                           *)

\* The types, and with them the bound on attempts and rounds.
THEOREM TypeCorrect == Spec => []TypeOK
  BY Invariance, PTL DEF Inv

\* A result that is returned covers every part that was asked for.
THEOREM CompleteWhenReturned == Spec => []ReturnedIsComplete
  <1>1. Inv => ReturnedIsComplete
    BY DEF Inv, ReturnedIsComplete, Stored, AbortEnds, PartsSettled, WebSettled,
       DirectorySettled, InfraSettled, Past, Sections, Directory
  <1>. QED BY <1>1, Invariance, PTL

\* A retry of the message has a cause that may pass.
THEOREM RetryHasCause == Spec => []RetriedForCause
  BY Invariance, PTL DEF Inv

\* The audit's outcome and what its parts did agree.
THEOREM OutcomeAccounted == Spec => []EndsAsItWent
  BY CompleteWhenReturned, RetryHasCause, PTL DEF EndsAsItWent

\* What settles late changes neither the result nor the outcome.
THEOREM ResultStands == Spec => ResultFinal
  <1>1. Inv /\ [Next]_vars => [(audit \in Ended) => (audit' = audit /\ result' = result)]_vars
    <2>. SUFFICES ASSUME Inv, [Next]_vars, audit \in Ended
                  PROVE  audit' = audit /\ result' = result
      OBVIOUS
    <2>1. audit \notin Sections
      BY DEF Ended, Sections, Directory
    <2>. QED BY <2>1, AuditStep, ResultStep DEF Inv, Sections, Directory
  <1>. QED BY <1>1, Invariance, PTL DEF Spec, ResultFinal

\* An aborted section begins no attempt, in any round.
THEOREM NoLateAttempt == Spec => NoAttemptAfterAbort
  <1>1. Inv /\ [Next]_vars => [NothingBegins]_vars
    <2>. SUFFICES ASSUME Inv, [Next]_vars PROVE NothingBegins
      OBVIOUS
    <2>a. Acts
      BY NextActs
    <2>1. CASE aborted = {}
      BY <2>1 DEF NothingBegins
    <2>2. CASE aborted # {}
      <3>. audit = "retry"
        BY <2>2 DEF Inv, AbortEnds
      <3>1. \A d \in Directory \cap aborted : graph'[d].attempt = graph[d].attempt
        BY GraphStep DEF Inv, Directory
      <3>2. round'.attempt = round.attempt
        BY RoundStep DEF Inv
      <3>3. ASSUME "infra" \in aborted, NEW r \in Rounds, NEW m \in Modules
            PROVE  run'[r][m].attempt = run[r][m].attempt
        <4>1. CASE \E q \in Rounds, n \in Modules : RunResumes(q, n)
          BY <4>1, <3>3 DEF RunResumes, Resumes, Inv, TypeOK, Tries
        <4>2. CASE \E q \in Rounds, n \in Modules, outcome \in Outcomes : RunSettles(q, n, outcome)
          BY <4>2, AfterSettles DEF RunSettles, Inv, TypeOK
        <4>3. CASE ~(\/ \E q \in Rounds, n \in Modules : RunResumes(q, n)
                     \/ \E q \in Rounds, n \in Modules, outcome \in Outcomes :
                          RunSettles(q, n, outcome))
          BY <2>a, <4>3 DEF Acts, Skip, WebEnds, GraphBegins, GraphResumes, GraphEnds,
               InfraBegins, NextRound, Current, RoundFails, RoundEnds, InfraThrows, CheckSettles,
               GraphSettles, NoCredential, SectionTimeout, GlobalTimeout, vars
        <4>. QED BY <4>1, <4>2, <4>3
      <3>. QED BY <3>1, <3>2, <3>3 DEF NothingBegins
    <2>. QED BY <2>1, <2>2
  <1>. QED BY <1>1, Invariance, PTL DEF Spec, NoAttemptAfterAbort

=============================================================================
