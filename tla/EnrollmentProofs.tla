-------------------------- MODULE EnrollmentProofs --------------------------
(***************************************************************************)
(* Identities, for any tokens, instances and processes: EnrollmentInv is   *)
(* inductive, and what is promised of identities follows from it.          *)
(***************************************************************************)
EXTENDS Enrollment, TLAPS

USE EnrollmentAssumption

\* The last conjunct of EnrollmentInv, for one process.
Holds(p) ==
    LET t == Credentials[p].token IN
    /\ at[p] = "commits" <=> writer = p
    /\ at[p] \in {"claims", "inserts", "commits"} => chosen[p] \in Id
    /\ at[p] = "served" => mine[p] \in Id /\ rows[mine[p]] \in {Credentials[p], NoRow}
    /\ (p \in Reading /\ p \notin stale) \/ at[p] = "commits" =>
          /\ Found(p) = {}
          /\ \/ chosen[p] \in Pending(t)
             \/ rows[chosen[p]] = NoRow /\ TokenExists(t)
                /\ \A q \in Process : mine[q] # chosen[p]

OneRowEach == \A i, j \in Id : rows[i] # NoRow /\ rows[i] = rows[j] => i = j

OnlyIssued == \A i \in Id : rows[i] # NoRow => rows[i].token \in issued

LEMMA Parts == EnrollmentInv <=> TypeOK /\ OneRowEach /\ OnlyIssued /\ \A p \in Process : Holds(p)
BY DEF EnrollmentInv, OneRowEach, OnlyIssued, Holds

LEMMA Kinds ==
  /\ \A p \in Process : /\ Credentials[p] \in Row
                        /\ Credentials[p].token \in Token
                        /\ Credentials[p].instance \in Instance
                        /\ Credentials[p].instance # Unset
  /\ \A t \in Token : [token |-> t, instance |-> Unset] \in Row
BY DEF Row, Claimed

LEMMA TypeStep ==
  ASSUME TypeOK, \A p \in Process : Holds(p), [Next]_vars
  PROVE  TypeOK'
<1> USE DEF TypeOK
<1>1. ASSUME NEW i \in Id, Delete(i) PROVE TypeOK'
  BY <1>1 DEF Delete, Reading
<1>2. ASSUME NEW i \in Id, NEW t \in Token, Register(i, t) PROVE TypeOK'
  BY <1>2, Kinds DEF Register, Reading
<1>3. ASSUME Crash PROVE TypeOK'
  BY <1>3 DEF Crash
<1>4. ASSUME NEW p \in Process, Disconnect(p) PROVE TypeOK'
  BY <1>4 DEF Disconnect
<1>5. ASSUME NEW p \in Process, NEW i \in Id, Recognise(p, i) PROVE TypeOK'
  BY <1>5 DEF Recognise
<1>6. ASSUME NEW p \in Process, NEW i \in Id, SeesPending(p, i) PROVE TypeOK'
  BY <1>6 DEF SeesPending, Chooses
<1>7. ASSUME NEW p \in Process, NEW i \in Id, SeesToken(p, i) PROVE TypeOK'
  BY <1>7 DEF SeesToken, Chooses
<1>8. ASSUME NEW p \in Process, Claim(p) PROVE TypeOK'
  BY <1>8 DEF Claim, Locks
<1>9. ASSUME NEW p \in Process, Insert(p) PROVE TypeOK'
  BY <1>9 DEF Insert, Locks
<1>10. ASSUME NEW p \in Process, Refused(p) PROVE TypeOK'
  BY <1>10 DEF Refused
<1>11. ASSUME NEW p \in Process, Commit(p) PROVE TypeOK'
  BY <1>11, Kinds DEF Commit, Reading, Holds
<1>12. ASSUME Overtakes PROVE TypeOK'
  BY <1>12 DEF Overtakes, Reading
<1>13. ASSUME UNCHANGED vars PROVE TypeOK'
  BY <1>13 DEF vars
<1> QED  BY <1>1, <1>2, <1>3, <1>4, <1>5, <1>6, <1>7, <1>8, <1>9, <1>10, <1>11, <1>12, <1>13
         DEF Next, Attempt

----------------------------------------------------------------------------
(* A commit: what its transaction saw still holds.                          *)

LEMMA CommitSees ==
  ASSUME EnrollmentInv, NEW p \in Process, Commit(p)
  PROVE  /\ chosen[p] \in Id
         /\ Found(p) = {}
         /\ Credentials[p].token \in issued
         /\ TokenExists(Credentials[p].token)
         /\ rows[chosen[p]] \notin Claimed
         /\ \A q \in Process : at[q] = "served" => mine[q] # chosen[p]
<1> USE Parts
<1>1. at[p] = "commits" /\ Holds(p)  BY DEF Commit
<1>2. chosen[p] \in Id /\ Found(p) = {}  BY <1>1 DEF Holds
<1>3. CASE chosen[p] \in Pending(Credentials[p].token)
  <2>1. rows[chosen[p]] # NoRow /\ rows[chosen[p]].instance = Unset
        /\ rows[chosen[p]].token = Credentials[p].token
    BY <1>3 DEF Pending, Unclaimed
  <2>2. TokenExists(Credentials[p].token) /\ Credentials[p].token \in issued
    BY <1>2, <2>1 DEF TokenExists, OnlyIssued
  <2>3. rows[chosen[p]] \notin Claimed  BY <2>1 DEF Claimed
  <2>4. ASSUME NEW q \in Process, at[q] = "served" PROVE mine[q] # chosen[p]
    BY <2>1, <2>4, Kinds DEF Holds
  <2> QED  BY <1>2, <2>2, <2>3, <2>4
<1>4. CASE rows[chosen[p]] = NoRow /\ TokenExists(Credentials[p].token)
           /\ \A q \in Process : mine[q] # chosen[p]
  <2>1. Credentials[p].token \in issued  BY <1>4 DEF TokenExists, OnlyIssued
  <2>2. rows[chosen[p]] \notin Claimed  BY <1>4 DEF Row, Claimed
  <2> QED  BY <1>2, <1>4, <2>1, <2>2
<1> QED  BY <1>1, <1>3, <1>4 DEF Holds

----------------------------------------------------------------------------
(* The rows.  Only Delete, Register and Commit write them.                  *)

LEMMA RowsStep ==
  ASSUME EnrollmentInv, [Next]_vars
  PROVE  OneRowEach' /\ OnlyIssued'
<1> USE Parts DEF TypeOK, OneRowEach, OnlyIssued
<1>1. ASSUME NEW i \in Id, Delete(i) PROVE OneRowEach' /\ OnlyIssued'
  BY <1>1 DEF Delete
<1>2. ASSUME NEW i \in Id, NEW t \in Token, Register(i, t)
      PROVE OneRowEach' /\ OnlyIssued'
  <2>1. \A j \in Id : rows[j] # NoRow => rows[j].token # t  BY <1>2 DEF Register
  <2>2. \A j \in Id : rows'[j] = IF j = i THEN [token |-> t, instance |-> Unset] ELSE rows[j]
    BY <1>2 DEF Register
  <2>3. OneRowEach'  BY <2>1, <2>2
  <2>4. issued' = issued \cup {t}  BY <1>2 DEF Register
  <2>5. OnlyIssued'  BY <2>2, <2>4
  <2> QED  BY <2>3, <2>5
<1>3. ASSUME NEW p \in Process, Commit(p) PROVE OneRowEach' /\ OnlyIssued'
  <2>1. \A j \in Id : rows[j] # Credentials[p]  BY <1>3, CommitSees DEF Found
  <2>2. \A j \in Id : rows'[j] = IF j = chosen[p] THEN Credentials[p] ELSE rows[j]
    BY <1>3 DEF Commit
  <2>3. OneRowEach'  BY <2>1, <2>2
  <2>4. issued' = issued /\ Credentials[p].token \in issued
    BY <1>3, CommitSees DEF Commit
  <2>5. OnlyIssued'  BY <2>2, <2>4
  <2> QED  BY <2>3, <2>5
<1>4. ASSUME UNCHANGED <<rows, issued>> PROVE OneRowEach' /\ OnlyIssued'
  BY <1>4
<1>5. ASSUME NEW p \in Process, Disconnect(p) \/ Attempt(p), ~Commit(p)
      PROVE UNCHANGED <<rows, issued>>
  BY <1>5 DEF Disconnect, Attempt, Recognise, SeesPending, SeesToken, Chooses, Claim,
              Insert, Locks, Refused
<1>6. Crash \/ Overtakes => UNCHANGED <<rows, issued>>  BY DEF Crash, Overtakes
<1>7. UNCHANGED vars => UNCHANGED <<rows, issued>>  BY DEF vars
<1> QED  BY <1>1, <1>2, <1>3, <1>4, <1>5, <1>6, <1>7 DEF Next

----------------------------------------------------------------------------
(* What each process holds.                                                 *)

\* A commit of somebody else leaves no reader with a snapshot that counts.
LEMMA Overtaken ==
  ASSUME EnrollmentInv, NEW q \in Process, UNCHANGED <<at[q], chosen[q], mine[q]>>,
         stale' = Reading, at'[q] = at[q], at[q] # "commits", writer' = NoOne,
         at[q] = "served" => rows'[mine[q]] \in {Credentials[q], NoRow}
  PROVE  Holds(q)'
<1>1. q \in Reading' <=> q \in Reading  BY DEF Reading
<1>2. Holds(q)  BY Parts
<1> QED  BY <1>1, <1>2 DEF Holds

LEMMA HoldsStep ==
  ASSUME EnrollmentInv, [Next]_vars
  PROVE  \A q \in Process : Holds(q)'
<1> SUFFICES ASSUME NEW q \in Process PROVE Holds(q)'  OBVIOUS
<1> USE Parts DEF TypeOK
<1>h. Holds(q)  OBVIOUS
<1>1. ASSUME NEW i \in Id, Delete(i) PROVE Holds(q)'
  <2>1. at[q] # "commits"  BY <1>h, <1>1 DEF Delete, Holds
  <2>2. at[q] = "served" => rows'[mine[q]] \in {Credentials[q], NoRow}
    BY <1>h, <1>1 DEF Delete, Holds
  <2> QED  BY <1>1, <2>1, <2>2, Overtaken DEF Delete
<1>2. ASSUME NEW i \in Id, NEW t \in Token, Register(i, t) PROVE Holds(q)'
  <2>1. at[q] # "commits"  BY <1>h, <1>2 DEF Register, Holds
  <2>2. at[q] = "served" => rows'[mine[q]] \in {Credentials[q], NoRow}
    BY <1>h, <1>2 DEF Register, Fresh, Holds
  <2> QED  BY <1>2, <2>1, <2>2, Overtaken DEF Register
<1>3. ASSUME Crash PROVE Holds(q)'
  BY <1>3 DEF Crash, Holds, Reading
<1>4. ASSUME NEW p \in Process, Disconnect(p) PROVE Holds(q)'
  BY <1>h, <1>4 DEF Disconnect, Holds, Reading, Found, Pending, Unclaimed, TokenExists
<1>5. ASSUME NEW p \in Process, NEW i \in Id, Recognise(p, i) PROVE Holds(q)'
  <2>1. rows[i] = Credentials[p] /\ rows[i] # NoRow  BY <1>5, Kinds DEF Recognise, Found
  <2>2. CASE q = p
    BY <2>1, <2>2, <1>h, <1>5 DEF Recognise, Holds, Reading
  <2>3. CASE q # p
    <3>1. UNCHANGED <<at[q], chosen[q], mine[q], rows, stale, writer>>
      BY <1>5, <2>3 DEF Recognise
    <3>2. q \in Reading' <=> q \in Reading  BY <3>1 DEF Reading
    <3>3. UNCHANGED <<Found(q), Pending(Credentials[q].token), TokenExists(Credentials[q].token)>>
      BY <3>1 DEF Found, Pending, Unclaimed, TokenExists
    <3>4. rows[chosen[q]] = NoRow => mine'[p] # chosen[q]
      BY <2>1, <1>5 DEF Recognise
    <3>5. \A r \in Process : r # p => mine'[r] = mine[r]  BY <1>5 DEF Recognise
    <3> QED  BY <1>h, <3>1, <3>2, <3>3, <3>4, <3>5 DEF Holds
  <2> QED  BY <2>2, <2>3
<1>6. ASSUME NEW p \in Process, NEW i \in Id, SeesPending(p, i) PROVE Holds(q)'
  BY <1>h, <1>6 DEF SeesPending, Chooses, Holds, Reading, Found, Pending, Unclaimed, TokenExists
<1>7. ASSUME NEW p \in Process, NEW i \in Id, SeesToken(p, i) PROVE Holds(q)'
  BY <1>h, <1>7 DEF SeesToken, Fresh, Chooses, Holds, Reading, Found, Pending, Unclaimed, TokenExists
<1>8. ASSUME NEW p \in Process, Claim(p) PROVE Holds(q)'
  BY <1>h, <1>8 DEF Claim, MayWrite, Locks, Holds, Reading, Found, Pending, Unclaimed, TokenExists
<1>9. ASSUME NEW p \in Process, Insert(p) PROVE Holds(q)'
  BY <1>h, <1>9 DEF Insert, MayWrite, Locks, Holds, Reading, Found, Pending, Unclaimed, TokenExists
<1>10. ASSUME NEW p \in Process, Refused(p) PROVE Holds(q)'
  BY <1>h, <1>10 DEF Refused, Holds, Reading, Found, Pending, Unclaimed, TokenExists
<1>11. ASSUME NEW p \in Process, Commit(p) PROVE Holds(q)'
  <2>1. CASE q = p
    BY <2>1, <1>h, <1>11, CommitSees DEF Commit, Holds, Reading
  <2>2. CASE q # p
    <3>1. at[q] # "commits"  BY <1>h, <1>11, <2>2 DEF Commit, Holds
    <3>2. at[q] = "served" => rows'[mine[q]] \in {Credentials[q], NoRow}
      BY <1>h, <1>11, CommitSees DEF Commit, Holds
    <3> QED  BY <1>11, <2>2, <3>1, <3>2, Overtaken DEF Commit
  <2> QED  BY <2>1, <2>2
<1>12. ASSUME Overtakes PROVE Holds(q)'
  <2>1. at[q] # "commits"  BY <1>h, <1>12 DEF Overtakes, Holds
  <2>2. at[q] = "served" => rows'[mine[q]] \in {Credentials[q], NoRow}
    BY <1>h, <1>12 DEF Overtakes, Holds
  <2> QED  BY <1>12, <2>1, <2>2, Overtaken DEF Overtakes
<1>13. ASSUME UNCHANGED vars PROVE Holds(q)'
  BY <1>h, <1>13 DEF vars, Holds, Reading, Found, Pending, Unclaimed, TokenExists
<1> QED  BY <1>1, <1>2, <1>3, <1>4, <1>5, <1>6, <1>7, <1>8, <1>9, <1>10, <1>11, <1>12, <1>13
         DEF Next, Attempt

----------------------------------------------------------------------------

LEMMA InvInit == Init => EnrollmentInv
<1> SUFFICES ASSUME Init PROVE EnrollmentInv  OBVIOUS
<1>1. TypeOK  BY DEF Init, TypeOK
<1>2. OneRowEach /\ OnlyIssued  BY DEF Init, OneRowEach, OnlyIssued
<1>3. ASSUME NEW p \in Process PROVE Holds(p)
  BY DEF Init, Holds, Reading
<1> QED  BY <1>1, <1>2, <1>3, Parts

LEMMA InvStep ==
  ASSUME EnrollmentInv, [Next]_vars
  PROVE  EnrollmentInv'
<1>1. TypeOK /\ \A p \in Process : Holds(p)  BY Parts
<1>2. TypeOK'  BY <1>1, TypeStep
<1>3. OneRowEach' /\ OnlyIssued'  BY RowsStep
<1>4. \A p \in Process : Holds(p)'  BY HoldsStep
<1>5. (TypeOK /\ OneRowEach /\ OnlyIssued /\ \A p \in Process : Holds(p))' <=> EnrollmentInv'
  BY DEF EnrollmentInv, OneRowEach, OnlyIssued, Holds
<1> QED  BY <1>2, <1>3, <1>4, <1>5

\* Whatever commits, restarts and deletions fall between its statements, what
\* ResolveAgentByTokenAndInstance has read is true when it writes.
THEOREM EnrollmentInvariant == Spec => []EnrollmentInv
<1>1. Init => EnrollmentInv  BY InvInit
<1>2. EnrollmentInv /\ [Next]_vars => EnrollmentInv'  BY InvStep
<1> QED  BY <1>1, <1>2, PTL DEF Spec

\* Two connections have one identity exactly when they present the same token
\* and the same instance ID.
THEOREM SameIdentityCorrect == Spec => []SameIdentity
<1>1. EnrollmentInv => SameIdentity
  <2> SUFFICES ASSUME EnrollmentInv, NEW p \in Process, NEW q \in Process,
                      at[p] = "served", at[q] = "served",
                      rows[mine[p]] # NoRow, rows[mine[q]] # NoRow
               PROVE  mine[p] = mine[q] <=> Credentials[p] = Credentials[q]
    BY DEF SameIdentity
  <2>1. Holds(p) /\ Holds(q) /\ OneRowEach  BY Parts
  <2>2. /\ mine[p] \in Id /\ rows[mine[p]] = Credentials[p]
        /\ mine[q] \in Id /\ rows[mine[q]] = Credentials[q]
    BY <2>1 DEF Holds
  <2> QED  BY <2>1, <2>2 DEF OneRowEach
<1> QED  BY <1>1, EnrollmentInvariant, PTL

\* The row of one instance never becomes that of another.
THEOREM IdentityCorrect == Spec => IdentityIsKept
<1> DEFINE Kept == \A i \in Id : rows[i] \in Claimed => rows'[i] \in {rows[i], NoRow}
<1>1. ASSUME EnrollmentInv, [Next]_vars PROVE [Kept]_vars
  <2> SUFFICES ASSUME NEW i \in Id, rows[i] \in Claimed
               PROVE  rows'[i] \in {rows[i], NoRow}
    OBVIOUS
  <2> USE <1>1
  <2>1. rows[i] # NoRow  BY DEF Claimed, Row
  <2>2. rows \in [Id -> Row \cup {NoRow}]  BY DEF EnrollmentInv, TypeOK
  <2>3. ASSUME NEW j \in Id, Delete(j) PROVE rows'[i] \in {rows[i], NoRow}
    BY <2>2, <2>3 DEF Delete
  <2>4. ASSUME NEW j \in Id, NEW t \in Token, Register(j, t) PROVE rows'[i] = rows[i]
    BY <2>1, <2>2, <2>4 DEF Register, Fresh
  <2>5. ASSUME NEW p \in Process, Commit(p) PROVE rows'[i] = rows[i]
    BY <2>2, <2>5, CommitSees DEF Commit
  <2>6. ASSUME UNCHANGED rows PROVE rows'[i] = rows[i]
    BY <2>6
  <2>7. ASSUME NEW p \in Process, Disconnect(p) \/ Attempt(p), ~Commit(p)
        PROVE UNCHANGED rows
    BY <2>7 DEF Disconnect, Attempt, Recognise, SeesPending, SeesToken, Chooses, Claim,
                Insert, Locks, Refused
  <2>8. Crash \/ Overtakes \/ UNCHANGED vars => UNCHANGED rows
    BY DEF Crash, Overtakes, vars
  <2> QED  BY <2>3, <2>4, <2>5, <2>6, <2>7, <2>8 DEF Next
<1>2. EnrollmentInv /\ [Next]_vars => [Kept]_vars  BY <1>1
<1> QED  BY <1>2, EnrollmentInvariant, PTL DEF Spec, IdentityIsKept

\* Once the last row of a token is deleted, no enrollment that was under way
\* brings the token back.
THEOREM DeadTokensCorrect == Spec => DeadTokensStayDead
<1> DEFINE Dead == \A t \in issued : ~TokenExists(t) => ~TokenExists(t)'
<1>1. ASSUME EnrollmentInv, [Next]_vars PROVE [Dead]_vars
  <2> SUFFICES ASSUME NEW t \in issued, ~TokenExists(t) PROVE ~TokenExists(t)'
    OBVIOUS
  <2> USE <1>1
  <2>1. rows \in [Id -> Row \cup {NoRow}]  BY DEF EnrollmentInv, TypeOK
  <2>2. ASSUME NEW j \in Id, Delete(j) PROVE ~TokenExists(t)'
    BY <2>1, <2>2 DEF Delete, TokenExists
  <2>3. ASSUME NEW j \in Id, NEW u \in Token, Register(j, u) PROVE ~TokenExists(t)'
    BY <2>1, <2>3 DEF Register, TokenExists
  <2>4. ASSUME NEW p \in Process, Commit(p) PROVE ~TokenExists(t)'
    <3>1. Credentials[p].token # t  BY <2>4, CommitSees
    <3>2. \A j \in Id : rows'[j] = IF j = chosen[p] THEN Credentials[p] ELSE rows[j]
      BY <2>1, <2>4 DEF Commit
    <3> QED  BY <3>1, <3>2 DEF TokenExists
  <2>5. ASSUME UNCHANGED rows PROVE ~TokenExists(t)'
    BY <2>5 DEF TokenExists
  <2>6. ASSUME NEW p \in Process, Disconnect(p) \/ Attempt(p), ~Commit(p)
        PROVE UNCHANGED rows
    BY <2>6 DEF Disconnect, Attempt, Recognise, SeesPending, SeesToken, Chooses, Claim,
                Insert, Locks, Refused
  <2>7. Crash \/ Overtakes \/ UNCHANGED vars => UNCHANGED rows
    BY DEF Crash, Overtakes, vars
  <2> QED  BY <2>2, <2>3, <2>4, <2>5, <2>6, <2>7 DEF Next
<1>2. EnrollmentInv /\ [Next]_vars => [Dead]_vars  BY <1>1
<1> QED  BY <1>2, EnrollmentInvariant, PTL DEF Spec, DeadTokensStayDead

=============================================================================
