----------------------------- MODULE Enrollment -----------------------------
(***************************************************************************)
(* Enrollment (storage.ResolveAgentByTokenAndInstance, called by           *)
(* Hub.RegisterAgent for every hello): a token and an instance ID become   *)
(* the identity of an agent.  Registration creates a token with one        *)
(* pending row; the first instance claims that row, further ones get rows  *)
(* of their own.  Every attempt is one transaction that reads before it    *)
(* writes, so SQLite refuses its write when another commit came between    *)
(* (the conventions of Store); the agent then tries again.                 *)
(***************************************************************************)
CONSTANTS
    Token, Instance,
    Id,            \* identities of rows
    Process,       \* agent processes
    Credentials,   \* Process -> the token and the instance ID it is run with
    Unset,         \* the instance_id of a pending row
    NoRow, NoId, NoOne

Claimed == [token : Token, instance : Instance]
Row     == [token : Token, instance : Instance \cup {Unset}]

ASSUME EnrollmentAssumption ==
    /\ Credentials \in [Process -> Claimed]
    /\ Unset \notin Instance
    /\ NoRow \notin Row
    /\ NoId \notin Id
    /\ NoOne \notin Process

VARIABLES
    rows,     \* the agents table: Id -> Row or NoRow
    issued,   \* tokens that have been registered
    at,       \* Process -> where its enrollment is
    chosen,   \* Process -> the row its transaction is about to write
    stale,    \* processes whose snapshot a commit has overtaken
    writer,   \* the process whose transaction holds the write lock
    mine      \* Process -> the identity its connection was given

vars == <<rows, issued, at, chosen, stale, writer, mine>>

TypeOK ==
    /\ rows \in [Id -> Row \cup {NoRow}]
    /\ issued \in SUBSET Token
    /\ at \in [Process -> {"idle", "claims", "inserts", "commits", "served"}]
    /\ chosen \in [Process -> Id \cup {NoId}]
    /\ stale \in SUBSET Process
    /\ writer \in Process \cup {NoOne}
    /\ mine \in [Process -> Id \cup {NoId}]

Init ==
    /\ rows = [i \in Id |-> NoRow]
    /\ issued = {}
    /\ at = [p \in Process |-> "idle"]
    /\ chosen = [p \in Process |-> NoId]
    /\ stale = {}
    /\ writer = NoOne
    /\ mine = [p \in Process |-> NoId]

----------------------------------------------------------------------------
(* The queries.                                                            *)

\* Mutant of Found: the instance is left out of the query.
FoundByToken(p) ==
    {i \in Id : rows[i] # NoRow /\ rows[i].token = Credentials[p].token}

\* WHERE token_hash = ? AND instance_id = ?
Found(p) == {i \in Id : rows[i] = Credentials[p]}

\* Mutant of Unclaimed: a claimed row may be claimed again.
AnyRow(i) == rows[i] # NoRow

Unclaimed(i) == rows[i] # NoRow /\ rows[i].instance = Unset

\* WHERE token_hash = ? AND instance_id = ''.  (A token is registered once, so
\* there is at most one.)
Pending(t) == {i \in Id : Unclaimed(i) /\ rows[i].token = t}

TokenExists(t) == \E i \in Id : rows[i] # NoRow /\ rows[i].token = t

\* A new UUID: no row has it and nobody remembers it.
Fresh(i) == rows[i] = NoRow /\ \A p \in Process : i # chosen[p] /\ i # mine[p]

\* The processes in the middle of a transaction.
Reading == {p \in Process : at[p] \in {"claims", "inserts"}}

----------------------------------------------------------------------------
(* The administrator, the other writers of the database, and the end of    *)
(* the controller's process.                                               *)

\* HandleRegisterAgent: a new token with its pending row.
Register(i, t) ==
    /\ writer = NoOne
    /\ Fresh(i)
    /\ t \notin issued
    /\ issued' = issued \cup {t}
    /\ rows' = [rows EXCEPT ![i] = [token |-> t, instance |-> Unset]]
    /\ stale' = Reading
    /\ UNCHANGED <<at, chosen, writer, mine>>

\* HandleDeleteAgent, one commit (Store has its statements).
Delete(i) ==
    /\ writer = NoOne
    /\ rows[i] # NoRow
    /\ rows' = [rows EXCEPT ![i] = NoRow]
    /\ stale' = Reading
    /\ UNCHANGED <<issued, at, chosen, writer, mine>>

\* Another transaction commits, of tables or columns that no enrollment reads: a
\* result, an agent's status, a cleanup.
Overtakes ==
    /\ writer = NoOne
    /\ stale' = Reading
    /\ UNCHANGED <<rows, issued, at, chosen, writer, mine>>

Crash ==
    /\ at' = [p \in Process |-> "idle"]
    /\ chosen' = [p \in Process |-> NoId]
    /\ mine' = [p \in Process |-> NoId]
    /\ stale' = {}
    /\ writer' = NoOne
    /\ UNCHANGED <<rows, issued>>

\* The connection is lost; the agent will connect again.
Disconnect(p) ==
    /\ at[p] = "served"
    /\ at' = [at EXCEPT ![p] = "idle"]
    /\ mine' = [mine EXCEPT ![p] = NoId]
    /\ UNCHANGED <<rows, issued, chosen, stale, writer>>

----------------------------------------------------------------------------
(* ResolveAgentByTokenAndInstance.  A token without rows is turned away and *)
(* changes nothing.                                                        *)

\* The row of this instance is there: nothing to write.
Recognise(p, i) ==
    /\ at[p] = "idle"
    /\ i \in Found(p)
    /\ at' = [at EXCEPT ![p] = "served"]
    /\ mine' = [mine EXCEPT ![p] = i]
    /\ UNCHANGED <<rows, issued, chosen, stale, writer>>

Chooses(p, i, next) ==
    /\ at' = [at EXCEPT ![p] = next]
    /\ chosen' = [chosen EXCEPT ![p] = i]
    /\ stale' = stale \ {p}
    /\ UNCHANGED <<rows, issued, writer, mine>>

\* Not there, but the token's pending row is.
SeesPending(p, i) ==
    /\ at[p] = "idle"
    /\ Found(p) = {}
    /\ i \in Pending(Credentials[p].token)
    /\ Chooses(p, i, "claims")

\* Neither, but the token exists: a row with a new identity.
SeesToken(p, i) ==
    /\ at[p] = "idle"
    /\ Found(p) = {}
    /\ Pending(Credentials[p].token) = {}
    /\ TokenExists(Credentials[p].token)
    /\ Fresh(i)
    /\ Chooses(p, i, "inserts")

\* Mutant of MayWrite: the queries are made outside the transaction.
MayWriteOutside(p) == writer = NoOne

\* The first write of a transaction takes the lock unless it is taken or the
\* snapshot of the transaction is stale.
MayWrite(p) == writer = NoOne /\ p \notin stale

Locks(p) ==
    /\ at' = [at EXCEPT ![p] = "commits"]
    /\ writer' = p
    /\ UNCHANGED <<rows, issued, chosen, stale, mine>>

\* UPDATE ... WHERE id = ? AND instance_id = '', which must change one row.
Claim(p) == at[p] = "claims" /\ MayWrite(p) /\ Unclaimed(chosen[p]) /\ Locks(p)

\* INSERT, under the unique index over token and instance.
Insert(p) == at[p] = "inserts" /\ MayWrite(p) /\ Found(p) = {} /\ Locks(p)

\* The write is refused and the handshake fails.
Refused(p) ==
    /\ p \in Reading
    /\ \/ ~MayWrite(p)
       \/ at[p] = "claims" /\ ~Unclaimed(chosen[p])
       \/ at[p] = "inserts" /\ Found(p) # {}
    /\ at' = [at EXCEPT ![p] = "idle"]
    /\ chosen' = [chosen EXCEPT ![p] = NoId]
    /\ UNCHANGED <<rows, issued, stale, writer, mine>>

\* Mutant of Commit: the transaction is left open.
CommitKeepingLock(p) ==
    /\ at[p] = "commits"
    /\ rows' = [rows EXCEPT ![chosen[p]] = Credentials[p]]
    /\ at' = [at EXCEPT ![p] = "served"]
    /\ mine' = [mine EXCEPT ![p] = chosen[p]]
    /\ chosen' = [chosen EXCEPT ![p] = NoId]
    /\ stale' = Reading
    /\ UNCHANGED <<issued, writer>>

Commit(p) ==
    /\ at[p] = "commits"
    /\ rows' = [rows EXCEPT ![chosen[p]] = Credentials[p]]
    /\ at' = [at EXCEPT ![p] = "served"]
    /\ mine' = [mine EXCEPT ![p] = chosen[p]]
    /\ chosen' = [chosen EXCEPT ![p] = NoId]
    /\ stale' = Reading
    /\ writer' = NoOne
    /\ UNCHANGED issued

----------------------------------------------------------------------------

Attempt(p) ==
    \/ \E i \in Id : Recognise(p, i) \/ SeesPending(p, i) \/ SeesToken(p, i)
    \/ Claim(p) \/ Insert(p) \/ Refused(p) \/ Commit(p)

Enrolling == \E p \in Process : Attempt(p)

Next ==
    \/ \E i \in Id : Delete(i) \/ \E t \in Token : Register(i, t)
    \/ Overtakes
    \/ Crash
    \/ \E p \in Process : Disconnect(p) \/ Attempt(p)

Spec == Init /\ [][Next]_vars

\* Handlers keep running and agents keep trying (they wait 10 seconds between
\* attempts); the administrator, the network and the other writers owe nothing.
FairSpec == Spec /\ \A p \in Process : WF_vars(Attempt(p))

----------------------------------------------------------------------------
(* Properties.                                                             *)

\* Connections have the same identity exactly when they have the same token
\* and instance ID, whatever they raced with: what lets the hub keep one
\* connection per agent.
SameIdentity ==
    \A p, q \in Process :
        /\ at[p] = "served" /\ at[q] = "served"
        /\ rows[mine[p]] # NoRow /\ rows[mine[q]] # NoRow
        => (mine[p] = mine[q] <=> Credentials[p] = Credentials[q])

\* A claimed row is never given to another instance: "reconnects retain the
\* same database identity" for as long as it exists.
IdentityIsKept ==
    [][\A i \in Id :
         rows[i] \in Claimed => rows'[i] \in {rows[i], NoRow}]_vars

\* A token whose last row was deleted is dead: an enrollment in progress
\* cannot bring it back.
DeadTokensStayDead ==
    [][\A t \in issued : ~TokenExists(t) => ~TokenExists(t)']_vars

\* The inductive invariant: what a transaction has seen still holds until a
\* commit makes its snapshot stale.
EnrollmentInv ==
    /\ TypeOK
    /\ \A i, j \in Id : rows[i] # NoRow /\ rows[i] = rows[j] => i = j
    /\ \A i \in Id : rows[i] # NoRow => rows[i].token \in issued
    /\ \A p \in Process :
          LET t == Credentials[p].token IN
          /\ at[p] = "commits" <=> writer = p
          /\ at[p] \in {"claims", "inserts", "commits"} => chosen[p] \in Id
          /\ at[p] = "served" => mine[p] \in Id /\ rows[mine[p]] \in {Credentials[p], NoRow}
          /\ (p \in Reading /\ p \notin stale) \/ at[p] = "commits" =>
                /\ Found(p) = {}
                /\ \/ chosen[p] \in Pending(t)
                   \/ rows[chosen[p]] = NoRow /\ TokenExists(t)
                      /\ \A q \in Process : mine[q] # chosen[p]

\* When the administrator, the network and the other writers of the database
\* leave it alone, an agent whose token lives gets through, however many others
\* enroll with it.  (A result or a status committed between the reads and the
\* write of every attempt would refuse every attempt.)
Enrolled ==
    \A p \in Process :
        <>[][Enrolling]_vars /\ <>[]TokenExists(Credentials[p].token)
            => <>[](at[p] = "served")
=============================================================================
