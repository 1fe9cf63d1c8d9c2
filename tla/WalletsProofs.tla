--------------------------- MODULE WalletsProofs ---------------------------
(***************************************************************************)
(* Proofs about Wallets, for any number of sessions, names and keys.       *)
(***************************************************************************)
EXTENDS Wallets, TLAPS

Inserting == {"inserted", "shredded"}

\* From its insert to its end, a session holds the writer lock.
Exclusive == \A x \in Sessions : phase[x] \in Inserting => lock = x

\* The name it inserts stays free until it commits.
NameFree == \A x \in Sessions : phase[x] \in Inserting => wallets[req[x].name] = NoKey

\* Only an import shreds.
ImportsShred == \A x \in Sessions : phase[x] = "shredded" => req[x].key \in SourceKeys

\* An import that was said to have failed at its shred is among the aborted.
FailureAborts == \A a \in told : a.said = "shred_failed" => a.key \in aborted

\* A committed wallet whose answer is due is in the table.
Awaiting == \A x \in Sessions : phase[x] = "stored" => wallets[req[x].name] = req[x].key

WalletsInv ==
    /\ TypeOK
    /\ Exclusive
    /\ NameFree
    /\ ImportsShred
    /\ FailureAborts
    /\ Awaiting
    /\ WalletsKept
    /\ SourceCovered
    /\ AuditMatches

-----------------------------------------------------------------------------

\* A session that ends leaves its lock free and the other sessions alone.
LEMMA FinishEffect ==
    ASSUME TypeOK, NEW x \in Sessions, Finish(x)
    PROVE  /\ lock' \in Sessions \cup {NoSession}
           /\ phase' \in [Sessions -> Phases]
           /\ req' \in [Sessions -> Request \cup {NoRequest}]
           /\ phase'[x] = "idle"
           /\ \A y \in Sessions \ {x} : phase'[y] = phase[y] /\ req'[y] = req[y]
           /\ \A y \in Sessions \ {x} : lock = y => lock' = y
BY DEF Finish, Release, TypeOK, Phases

\* A session that begins is in the phase and has the request it is given.
LEMMA BeginEffect ==
    ASSUME TypeOK, NEW x \in Sessions, NEW p \in Phases, NEW n \in Names, NEW k \in Keys,
           NEW shred \in BOOLEAN, Begin(x, p, n, k, shred)
    PROVE  /\ phase' \in [Sessions -> Phases]
           /\ req' \in [Sessions -> Request \cup {NoRequest}]
           /\ phase[x] = "idle" /\ phase'[x] = p
           /\ req'[x] = [name |-> n, key |-> k, shred |-> shred]
           /\ req'[x] \in Request
           /\ \A y \in Sessions \ {x} : phase'[y] = phase[y] /\ req'[y] = req[y]
<1>1. [name |-> n, key |-> k, shred |-> shred] \in Request
  BY DEF Request
<1> QED
  BY <1>1 DEF Begin, TypeOK

\* What holds initially.
LEMMA InitInv == Init => WalletsInv
<1> SUFFICES ASSUME Init PROVE WalletsInv
  OBVIOUS
<1>1. TypeOK
  BY DEF Init, TypeOK, Phases
<1>2. Exclusive /\ NameFree /\ ImportsShred /\ FailureAborts /\ Awaiting
  BY DEF Init, Exclusive, NameFree, ImportsShred, FailureAborts, Awaiting, Inserting
<1>3. WalletsKept /\ SourceCovered
  BY DEF Init, WalletsKept, SourceCovered
<1>4. AuditMatches
  BY WalletsAssumption DEF Init, AuditMatches
<1> QED
  BY <1>1, <1>2, <1>3, <1>4 DEF WalletsInv

\* A session that begins, in either phase, disturbs nothing.
LEMMA BeginInv ==
    ASSUME WalletsInv, NEW x \in Sessions, NEW p \in {"sealed", "refused"}, NEW n \in Names,
           NEW k \in Keys, NEW shred \in BOOLEAN, shred => k \in SourceKeys,
           Begin(x, p, n, k, shred)
    PROVE  WalletsInv'
<1> p \in Phases
  BY DEF Phases
<1>0. TypeOK
  BY DEF WalletsInv
<1>1. /\ phase' \in [Sessions -> Phases]
      /\ req' \in [Sessions -> Request \cup {NoRequest}]
      /\ phase[x] = "idle" /\ phase'[x] = p
      /\ req'[x] = [name |-> n, key |-> k, shred |-> shred]
      /\ req'[x] \in Request
      /\ \A y \in Sessions \ {x} : phase'[y] = phase[y] /\ req'[y] = req[y]
  BY <1>0, BeginEffect
<1>2. UNCHANGED <<wallets, audit, source, lock, told, aborted>>
  BY DEF Begin
<1>3. TypeOK'
  BY <1>0, <1>1, <1>2 DEF TypeOK
<1>4. (Exclusive /\ NameFree /\ ImportsShred /\ FailureAborts /\ Awaiting)'
  BY <1>1, <1>2 DEF WalletsInv, Exclusive, NameFree, ImportsShred, FailureAborts, Awaiting, Inserting
<1>5. (WalletsKept /\ AuditMatches)'
  BY <1>2 DEF WalletsInv, WalletsKept, AuditMatches
<1>6. SourceCovered'
  BY <1>1, <1>2 DEF WalletsInv, SourceCovered, Stored
<1> QED
  BY <1>3, <1>4, <1>5, <1>6 DEF WalletsInv

\* A session that ends without touching the table: it loses no key, if the
\* key of a shredded file is counted among the aborted ones.
LEMMA FinishInv ==
    ASSUME WalletsInv, NEW x \in Sessions, Finish(x), UNCHANGED <<wallets, source>>,
           audit' \subseteq Row, told' \subseteq Answers, aborted' \subseteq SourceKeys,
           aborted \subseteq aborted',
           phase[x] = "shredded" => req[x].key \in aborted',
           AuditMatches', WalletsKept', FailureAborts'
    PROVE  WalletsInv'
<1>0. TypeOK
  BY DEF WalletsInv
<1>1. /\ lock' \in Sessions \cup {NoSession}
      /\ phase' \in [Sessions -> Phases]
      /\ req' \in [Sessions -> Request \cup {NoRequest}]
      /\ phase'[x] = "idle"
      /\ \A y \in Sessions \ {x} : phase'[y] = phase[y] /\ req'[y] = req[y]
      /\ \A y \in Sessions \ {x} : lock = y => lock' = y
  BY <1>0, FinishEffect
<1>2. TypeOK'
  BY <1>0, <1>1 DEF TypeOK
<1>3. (Exclusive /\ NameFree /\ ImportsShred /\ FailureAborts /\ Awaiting)'
  BY <1>1 DEF WalletsInv, Exclusive, NameFree, ImportsShred, FailureAborts, Awaiting, Inserting
<1>4. SourceCovered'
  BY <1>1 DEF WalletsInv, SourceCovered, Stored
<1> QED
  BY <1>2, <1>3, <1>4 DEF WalletsInv

-----------------------------------------------------------------------------

\* BEGIN IMMEDIATE and the lookup of the name: a free name becomes this
\* session's own until it commits, because nobody else can have the lock.
LEMMA RepoCreateInv ==
    ASSUME WalletsInv, NEW x \in Sessions, repo_create(x)
    PROVE  WalletsInv'
<1> USE DEF repo_create
<1>0. TypeOK /\ req[x] \in Request
  BY DEF WalletsInv, TypeOK
<1>1. \A y \in Sessions : phase[y] \notin Inserting
  BY WalletsAssumption DEF WalletsInv, Exclusive
<1>2. /\ phase' \in [Sessions -> Phases]
      /\ \A y \in Sessions \ {x} : phase'[y] = phase[y]
      /\ phase'[x] \in {"inserted", "refused"}
      /\ phase'[x] = "inserted" => wallets[req[x].name] = NoKey
  BY <1>0 DEF TypeOK, Phases
<1>3. TypeOK'
  BY <1>0, <1>2 DEF TypeOK
<1>4. (Exclusive /\ NameFree /\ ImportsShred /\ FailureAborts /\ Awaiting)'
  BY <1>1, <1>2 DEF WalletsInv, Exclusive, NameFree, ImportsShred, FailureAborts, Awaiting, Inserting
<1>5. (WalletsKept /\ AuditMatches)'
  BY DEF WalletsInv, WalletsKept, AuditMatches
<1>6. SourceCovered'
  BY <1>1, <1>2 DEF WalletsInv, SourceCovered, Stored, Inserting
<1> QED
  BY <1>3, <1>4, <1>5, <1>6 DEF WalletsInv

\* The file goes while the insert is in the session's transaction.
LEMMA ShredInv ==
    ASSUME WalletsInv, NEW x \in Sessions, shred_file(x)
    PROVE  WalletsInv'
<1> USE DEF shred_file
<1>0. TypeOK /\ req[x] \in Request /\ req[x].key \in SourceKeys
  BY DEF WalletsInv, TypeOK
<1>1. /\ phase' \in [Sessions -> Phases]
      /\ phase'[x] = "shredded"
      /\ \A y \in Sessions \ {x} : phase'[y] = phase[y]
  BY <1>0 DEF TypeOK, Phases
<1>2. /\ source' \in [SourceKeys -> {"none", "unfit", "ready", "gone"}]
      /\ \A k \in SourceKeys \ {req[x].key} : source'[k] = source[k]
  BY <1>0 DEF TypeOK
<1>3. TypeOK'
  BY <1>0, <1>1, <1>2 DEF TypeOK
<1>4. (Exclusive /\ NameFree /\ ImportsShred /\ FailureAborts /\ Awaiting)'
  BY <1>0, <1>1 DEF WalletsInv, Exclusive, NameFree, ImportsShred, FailureAborts, Awaiting, Inserting
<1>5. (WalletsKept /\ AuditMatches)'
  BY DEF WalletsInv, WalletsKept, AuditMatches
<1>6. SourceCovered'
  <2> SUFFICES ASSUME NEW k \in SourceKeys, source'[k] = "gone"
               PROVE  \/ Stored(k)'
                      \/ \E y \in Sessions : phase'[y] = "shredded" /\ req'[y].key = k
                      \/ k \in aborted'
    BY DEF SourceCovered
  <2>1. CASE k = req[x].key
    BY <2>1, <1>1
  <2>2. CASE k # req[x].key
    BY <2>2, <1>1, <1>2 DEF WalletsInv, SourceCovered, Stored
  <2> QED
    BY <2>1, <2>2
<1> QED
  BY <1>3, <1>4, <1>5, <1>6 DEF WalletsInv

\* The commit: the wallet and its row appear together, under a free name.
LEMMA CommitInv ==
    ASSUME WalletsInv, NEW x \in Sessions, ScopeExit(x)
    PROVE  WalletsInv'
<1> USE DEF ScopeExit
<1> DEFINE n == req[x].name
           k == req[x].key
<1>0. TypeOK /\ req[x] \in Request
  BY DEF WalletsInv, TypeOK
<1>1. n \in Names /\ k \in Keys /\ k # NoKey
  BY <1>0, WalletsAssumption DEF Request
<1>2. phase[x] \in Inserting /\ lock = x /\ wallets[n] = NoKey
  BY DEF WalletsInv, Exclusive, NameFree, Inserting
<1>3. \A y \in Sessions \ {x} : phase[y] \notin Inserting
  BY <1>2 DEF WalletsInv, Exclusive
<1>4. /\ wallets' \in [Names -> Keys \cup {NoKey}]
      /\ wallets'[n] = k
      /\ \A m \in Names \ {n} : wallets'[m] = wallets[m]
  BY <1>0, <1>1 DEF TypeOK
<1>5. /\ phase' \in [Sessions -> Phases]
      /\ phase'[x] = "stored"
      /\ \A y \in Sessions \ {x} : phase'[y] = phase[y]
  BY <1>0 DEF TypeOK, Phases
<1>6. /\ RowOf("approved", x) = [decision |-> "approved", name |-> n, key |-> k]
      /\ RowOf("approved", x) \in Row
  BY <1>1 DEF RowOf, Row
<1>7. TypeOK'
  BY <1>0, <1>4, <1>5, <1>6 DEF TypeOK
<1>8. (Exclusive /\ NameFree /\ ImportsShred /\ FailureAborts)'
  BY <1>3, <1>5 DEF WalletsInv, Exclusive, NameFree, ImportsShred, FailureAborts, Inserting
<1>9. Awaiting'
  <2> SUFFICES ASSUME NEW y \in Sessions, phase'[y] = "stored"
               PROVE  wallets'[req[y].name] = req[y].key
    BY DEF Awaiting
  <2>1. CASE y = x
    BY <2>1, <1>4
  <2>2. CASE y # x
    <3>1. phase[y] = "stored" /\ wallets[req[y].name] = req[y].key
      BY <2>2, <1>5 DEF WalletsInv, Awaiting
    <3>2. req[y] \in Request
      BY <3>1, <1>0 DEF TypeOK
    <3>3. req[y].name \in Names /\ req[y].key # NoKey
      BY <3>2, WalletsAssumption DEF Request
    <3> QED
      BY <3>1, <3>3, <1>2, <1>4
  <2> QED
    BY <2>1, <2>2
<1>10. WalletsKept'
  <2> SUFFICES ASSUME NEW a \in told, a.said = "stored"
               PROVE  wallets'[a.name] = a.key
    BY DEF WalletsKept
  <2>1. wallets[a.name] = a.key
    BY DEF WalletsInv, WalletsKept
  <2>2. a \in Answers
    BY <1>0 DEF TypeOK
  <2>3. a.name \in Names /\ a.key # NoKey
    BY <2>2, WalletsAssumption DEF Answers
  <2> QED
    BY <2>1, <2>3, <1>2, <1>4
<1>11. SourceCovered'
  <2> SUFFICES ASSUME NEW s \in SourceKeys, source[s] = "gone"
               PROVE  \/ Stored(s)'
                      \/ \E y \in Sessions : phase'[y] = "shredded" /\ req[y].key = s
                      \/ s \in aborted
    BY DEF SourceCovered
  <2>1. CASE Stored(s)
    <3>1. PICK m \in Names : wallets[m] = s
      BY <2>1 DEF Stored
    <3>2. m # n
      BY <3>1, <1>2, WalletsAssumption DEF Keys
    <3> QED
      BY <3>1, <3>2, <1>4 DEF Stored
  <2>2. CASE \E y \in Sessions : phase[y] = "shredded" /\ req[y].key = s
    <3>1. s = k
      BY <2>2, <1>3 DEF Inserting
    <3> QED
      BY <3>1, <1>1, <1>4 DEF Stored
  <2>3. CASE s \in aborted
    BY <2>3
  <2> QED
    BY <2>1, <2>2, <2>3 DEF WalletsInv, SourceCovered
<1>12. AuditMatches'
  <2> SUFFICES ASSUME NEW m \in Names, NEW j \in Keys
               PROVE  [decision |-> "approved", name |-> m, key |-> j] \in audit'
                        <=> wallets'[m] = j
    BY DEF AuditMatches
  <2> DEFINE row == [decision |-> "approved", name |-> m, key |-> j]
  <2>1. row \in audit <=> wallets[m] = j
    BY DEF WalletsInv, AuditMatches
  <2>2. row = RowOf("approved", x) <=> m = n /\ j = k
    BY <1>6
  <2>3. CASE m = n
    <3>1. row \notin audit
      BY <2>1, <2>3, <1>2, WalletsAssumption
    <3> QED
      BY <3>1, <2>2, <2>3, <1>4
  <2>4. CASE m # n
    BY <2>1, <2>2, <2>4, <1>4
  <2> QED
    BY <2>3, <2>4
<1> QED
  BY <1>7, <1>8, <1>9, <1>10, <1>11, <1>12 DEF WalletsInv

\* The steps that end a session.
LEMMA EndInv ==
    ASSUME WalletsInv, NEW x \in Sessions,
           Refuse(x) \/ shred_file_Failed(x) \/ Answer(x) \/ Abort(x)
    PROVE  WalletsInv'
<1>0. TypeOK /\ WalletsKept /\ AuditMatches /\ FailureAborts
  BY DEF WalletsInv
<1>1. phase[x] # "idle" /\ req[x] \in Request /\ req[x].name \in Names /\ req[x].key \in Keys
  BY <1>0 DEF TypeOK, Refuse, shred_file_Failed, Answer, Abort, Request
<1>2. CASE Refuse(x)
  <2>1. /\ RowOf("error", x) = [decision |-> "error", name |-> req[x].name, key |-> req[x].key]
        /\ RowOf("error", x) \in Row
    BY <1>1 DEF RowOf, Row
  <2>2. \A n \in Names, k \in Keys :
           RowOf("error", x) # [decision |-> "approved", name |-> n, key |-> k]
    BY <2>1
  <2>3. AuditMatches'
    BY <2>2, <1>0, <1>2 DEF AuditMatches, Refuse
  <2> QED
    BY <2>1, <2>3, <1>0, <1>2, FinishInv DEF Refuse, TypeOK, WalletsKept, FailureAborts
<1>3. CASE shred_file_Failed(x)
  <2>1. req[x].key \in SourceKeys
    BY <1>0, <1>1, <1>3 DEF TypeOK, shred_file_Failed
  <2>2. /\ Say("shred_failed", x)
             = [said |-> "shred_failed", name |-> req[x].name, key |-> req[x].key]
        /\ Say("shred_failed", x) \in Answers
    BY <1>1 DEF Say, Answers
  <2>3. WalletsKept'
    BY <2>2, <1>0, <1>3 DEF WalletsKept, shred_file_Failed
  <2>4. AuditMatches'
    BY <1>0, <1>3 DEF AuditMatches, shred_file_Failed
  <2>5. FailureAborts'
    BY <2>2, <1>0, <1>3 DEF FailureAborts, shred_file_Failed
  <2> QED
    BY <2>1, <2>2, <2>3, <2>4, <2>5, <1>0, <1>3, FinishInv DEF shred_file_Failed, TypeOK
<1>4. CASE Answer(x)
  <2>1. /\ Say("stored", x) = [said |-> "stored", name |-> req[x].name, key |-> req[x].key]
        /\ Say("stored", x) \in Answers
    BY <1>1 DEF Say, Answers
  <2>2. wallets[req[x].name] = req[x].key
    BY <1>4 DEF WalletsInv, Awaiting, Answer
  <2>3. WalletsKept'
    BY <2>1, <2>2, <1>0, <1>4 DEF WalletsKept, Answer
  <2>4. AuditMatches'
    BY <1>0, <1>4 DEF AuditMatches, Answer
  <2>5. FailureAborts'
    BY <2>1, <1>0, <1>4 DEF FailureAborts, Answer
  <2> QED
    BY <2>1, <2>3, <2>4, <2>5, <1>0, <1>4, FinishInv DEF Answer, TypeOK
<1>5. CASE Abort(x)
  <2>1. phase[x] = "shredded" => req[x].key \in SourceKeys
    BY DEF WalletsInv, ImportsShred
  <2>2. (WalletsKept /\ AuditMatches /\ FailureAborts)'
    BY <1>0, <1>5 DEF WalletsKept, AuditMatches, FailureAborts, Abort
  <2> QED
    BY <2>1, <2>2, <1>0, <1>5, FinishInv DEF Abort, TypeOK
<1> QED
  BY <1>2, <1>3, <1>4, <1>5

\* The operator's own steps.
LEMMA OperatorInv ==
    ASSUME WalletsInv, NEW k \in SourceKeys,
           ManualShred(k) \/ \E s \in {"unfit", "ready"} : PlaceFile(k, s)
    PROVE  WalletsInv'
<1>0. TypeOK
  BY DEF WalletsInv
<1>1. /\ UNCHANGED <<wallets, audit, lock, phase, req, told, aborted>>
      /\ source' \in [SourceKeys -> {"none", "unfit", "ready", "gone"}]
      /\ \A j \in SourceKeys \ {k} : source'[j] = source[j]
  BY <1>0 DEF TypeOK, ManualShred, PlaceFile
<1>2. source'[k] = "gone" => k \in aborted
  <2>1. CASE ManualShred(k)
    BY <2>1 DEF WalletsInv, FailureAborts, ManualShred
  <2>2. CASE \E s \in {"unfit", "ready"} : PlaceFile(k, s)
    BY <2>2, <1>0 DEF TypeOK, PlaceFile
  <2> QED
    BY <2>1, <2>2
<1>3. TypeOK'
  BY <1>0, <1>1 DEF TypeOK
<1>4. (Exclusive /\ NameFree /\ ImportsShred /\ FailureAborts /\ Awaiting)'
  BY <1>1 DEF WalletsInv, Exclusive, NameFree, ImportsShred, FailureAborts, Awaiting
<1>5. (WalletsKept /\ AuditMatches)'
  BY <1>1 DEF WalletsInv, WalletsKept, AuditMatches
<1>6. SourceCovered'
  BY <1>1, <1>2 DEF WalletsInv, SourceCovered, Stored
<1> QED
  BY <1>3, <1>4, <1>5, <1>6 DEF WalletsInv

\* Every step preserves the invariant.
LEMMA NextInv == WalletsInv /\ [Next]_vars => WalletsInv'
<1> SUFFICES ASSUME WalletsInv, [Next]_vars PROVE WalletsInv'
  OBVIOUS
<1>1. ASSUME NEW x \in Sessions, NEW n \in Names, NEW k \in FreshKeys,
             create_wallet(x, n, k) \/ create_wallet_SealError(x, n, k)
      PROVE  WalletsInv'
  BY <1>1, BeginInv DEF create_wallet, create_wallet_SealError, Keys
<1>2. ASSUME NEW x \in Sessions, NEW n \in Names, NEW k \in SourceKeys, NEW shred \in BOOLEAN,
             \/ import_wallet(x, n, k, shred)
             \/ \E mismatch \in BOOLEAN : import_wallet_Refused(x, n, k, mismatch, shred)
      PROVE  WalletsInv'
  <2>1. Begin(x, "sealed", n, k, shred) \/ Begin(x, "refused", n, k, shred)
    BY <1>2 DEF import_wallet, import_wallet_Refused
  <2> QED
    BY <2>1, BeginInv DEF Keys
<1>3. CASE UNCHANGED vars
  BY <1>3 DEF vars, WalletsInv, TypeOK, Exclusive, NameFree, ImportsShred, FailureAborts,
              Awaiting, WalletsKept, SourceCovered, AuditMatches, Stored
<1> QED
  BY <1>1, <1>2, <1>3, RepoCreateInv, ShredInv, CommitInv, EndInv, OperatorInv DEF Next

\* The invariant holds throughout.
LEMMA Invariance == Spec => []WalletsInv
<1> QED
  BY InitInv, NextInv, PTL DEF Spec

-----------------------------------------------------------------------------

\* The variables keep their types, and a session under way has its request.
THEOREM TypeCorrect == Spec => []TypeOK
<1>1. WalletsInv => TypeOK
  BY DEF WalletsInv
<1> QED
  BY Invariance, <1>1, PTL

\* Creations and imports race for a name, and the one that was answered keeps it.
THEOREM StoredForGood == Spec => []WalletsKept
<1>1. WalletsInv => WalletsKept
  BY DEF WalletsInv
<1> QED
  BY Invariance, <1>1, PTL

\* A key file is destroyed only under cover of its wallet, but for the imports
\* that fail between shred and commit.
THEOREM SourceSafety == Spec => []SourceCovered
<1>1. WalletsInv => SourceCovered
  BY DEF WalletsInv
<1> QED
  BY Invariance, <1>1, PTL

\* The audit log and the table of wallets agree in every committed state.
THEOREM AuditAgrees == Spec => []AuditMatches
<1>1. WalletsInv => AuditMatches
  BY DEF WalletsInv
<1> QED
  BY Invariance, <1>1, PTL
=============================================================================
