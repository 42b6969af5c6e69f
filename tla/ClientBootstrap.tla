--------------------------- MODULE ClientBootstrap ---------------------------
(***************************************************************************)
(* Cluster modes "owner" and "client": a client has no SQLite file.  It    *)
(* blocks at its start until it has fetched a snapshot from the owner's    *)
(* internal API, and then polls the owner's version and fetches again.     *)
(*                                                                         *)
(* Of the configuration only the users are kept, because they decide       *)
(* whether a snapshot that was written as JSON can be read back: User      *)
(* leaves the password out when it is written and requires it when it is   *)
(* read.  ConfigSync models what else a snapshot may miss.                 *)
(***************************************************************************)
EXTENDS Naturals

CONSTANTS
    Clients,       \* processes of mode "client"
    Trusted,       \* those with the owner's shared_secret
    Users,         \* the user names
    Admin,         \* the one called admin
    MaxEdits,      \* bound on the edits of users
    MaxFaults      \* bound on crashes, lost calls and errors of SQLite

VARIABLES
    owner,         \* the owner's process: "down", "starting", "up"
    users,         \* its rows of users
    version,       \* its config_version
    client,        \* client[c]: what c waits for, and the version it knows
    call,          \* call[c]: c's HTTP call
    edits, faults  \* how many so far

vars == <<owner, users, version, client, call, edits, faults>>

\* "bootstrap": main waits for the first snapshot; "first", "poll", "reload":
\* the watcher of a client that serves, at its first version, a later one, a
\* snapshot.  seen is the version that made it fetch the snapshot.
Fresh == [phase |-> "bootstrap", known |-> 0, seen |-> 0]

\* A call's answer holds a snapshot, a version, or nothing.
Idle == [is |-> "idle"]
Sent == [is |-> "sent"]
Error == [is |-> "error"]

\* No process runs yet, and there is no configuration file.
Init ==
    /\ owner = "down"
    /\ users = {}
    /\ version = 0
    /\ client = [c \in Clients |-> Fresh]
    /\ call = [c \in Clients |-> Idle]
    /\ edits = 0
    /\ faults = 0

Fault == faults < MaxFaults /\ faults' = faults + 1

----------------------------------------------------------------------------
(* The owner. *)

\* init_sqlite adds the user admin where there is none, without a bump.
StartOwner ==
    /\ owner = "down"
    /\ owner' = "starting"
    /\ users' = users \cup {Admin}
    /\ UNCHANGED <<version, client, call, edits, faults>>

\* The states are read and the router, /internal with it, is served.
Listen ==
    /\ owner = "starting"
    /\ owner' = "up"
    /\ UNCHANGED <<users, version, client, call, edits, faults>>

\* Every call in progress ends with an error.
StopOwner ==
    /\ owner # "down"
    /\ Fault
    /\ owner' = "down"
    /\ call' = [c \in Clients |-> IF call[c] = Idle THEN Idle ELSE Error]
    /\ UNCHANGED <<users, version, client, edits>>

\* An admin creates or deletes a user, even the one called admin.  The bump
\* behind the row may fail.
EditUsers(u) ==
    /\ owner = "up"
    /\ edits < MaxEdits
    /\ edits' = edits + 1
    /\ users' = IF u \in users THEN users \ {u} ELSE users \cup {u}
    /\ \/ version' = version + 1 /\ UNCHANGED faults
       \/ version' = version /\ Fault
    /\ UNCHANGED <<owner, client, call>>

\* The guard compares the secrets; the handler reads SQLite.
Answer(c) ==
    /\ owner = "up"
    /\ call[c] = Sent
    /\ \/ /\ call' = [call EXCEPT ![c] =
                IF c \notin Trusted THEN Error
                ELSE IF client[c].phase \in {"bootstrap", "reload"}
                THEN [is |-> "snapshot", users |-> users]
                ELSE [is |-> "version", version |-> version]]
          /\ UNCHANGED faults
       \/ call' = [call EXCEPT ![c] = Error] /\ Fault
    /\ UNCHANGED <<owner, users, version, client, edits>>

----------------------------------------------------------------------------
(* The clients. *)

\* A call is sent, or refused where nobody listens.
Send(c) ==
    /\ call[c] = Idle
    /\ call' = [call EXCEPT ![c] = IF owner = "up" THEN Sent ELSE Error]
    /\ UNCHANGED <<owner, users, version, client, edits, faults>>

\* A call or its answer is lost.
Lose(c) ==
    /\ call[c] \notin {Idle, Error}
    /\ Fault
    /\ call' = [call EXCEPT ![c] = Error]
    /\ UNCHANGED <<owner, users, version, client, edits>>

\* The JSON of a user has no password, and a user cannot be read without one.
Decodes(answer) == answer.is = "snapshot" /\ answer.users = {}

NextKnown(known, current, reloaded) ==
    IF current > known /\ reloaded THEN current ELSE known

\* bootstrap_from_owner sleeps and asks again until it has a snapshot.
Bootstrap(c) ==
    /\ client[c].phase = "bootstrap"
    /\ client' = IF Decodes(call[c])
                 THEN [client EXCEPT ![c].phase = "first"]
                 ELSE client

\* A first version that cannot be read counts as 0.
FirstVersion(c) ==
    /\ client[c].phase = "first"
    /\ client' = [client EXCEPT ![c] =
         [phase |-> "poll", seen |-> 0,
          known |-> IF call[c] = Error THEN 0 ELSE call[c].version]]

Poll(c) ==
    /\ client[c].phase = "poll"
    /\ client' = IF call[c] = Error \/ call[c].version <= client[c].known
                 THEN client
                 ELSE [client EXCEPT ![c].phase = "reload",
                                     ![c].seen = call[c].version]

Reload(c) ==
    /\ client[c].phase = "reload"
    /\ client' = [client EXCEPT ![c] =
         [phase |-> "poll", seen |-> 0,
          known |-> NextKnown(client[c].known, client[c].seen,
                              Decodes(call[c]))]]

\* The call is over: the client's task goes on with the answer.
Receive(c) ==
    /\ call[c] \notin {Idle, Sent}
    /\ call' = [call EXCEPT ![c] = Idle]
    /\ Bootstrap(c) \/ FirstVersion(c) \/ Poll(c) \/ Reload(c)
    /\ UNCHANGED <<owner, users, version, edits, faults>>

\* A client that stops starts from nothing.
RestartClient(c) ==
    /\ Fault
    /\ client' = [client EXCEPT ![c] = Fresh]
    /\ call' = [call EXCEPT ![c] = Idle]
    /\ UNCHANGED <<owner, users, version, edits>>

----------------------------------------------------------------------------

Next ==
    \/ StartOwner \/ Listen \/ StopOwner
    \/ \E u \in Users : EditUsers(u)
    \/ \E c \in Clients :
         Answer(c) \/ Send(c) \/ Lose(c) \/ Receive(c) \/ RestartClient(c)

Spec == Init /\ [][Next]_vars

\* The owner is started again when it stops, answers what it has received, and
\* a client asks again after every sleep.
Fairness ==
    /\ WF_vars(StartOwner) /\ WF_vars(Listen)
    /\ \A c \in Clients :
         WF_vars(Answer(c)) /\ WF_vars(Send(c)) /\ WF_vars(Receive(c))

FairSpec == Spec /\ Fairness

Serves(c) == client[c].phase # "bootstrap"

\* A client with the owner's secret starts once the owner stays reachable.
\* docs/clustering.md promises it: a client retries until the owner is
\* reachable, and its start blocks until the first snapshot is applied.  The
\* owner always has a user, and no snapshot with a user can be decoded.
ClientStarts == \A c \in Trusted : <>[](owner = "up") => <>Serves(c)

=============================================================================
