------------------------------ MODULE LiveRename ------------------------------
(***************************************************************************)
(* A live session changes its name: src/session/rename.rs, against every   *)
(* other user of the two names (src/session.rs, session/supervisor.rs,     *)
(* session/client.rs, persistence.rs).                                     *)
(*                                                                         *)
(* A name has seven artifacts.  The server that carries out a rename moves *)
(* them one at a time, the listening socket last, under the workspace locks *)
(* of both names.  What it meanwhile meets: a server of the new name that  *)
(* is still unlinking, its own snapshot writer, an attaching client that   *)
(* is between its lease and its connection, crashes and failing calls.     *)
(* What a command does wholly under a workspace lock is one step here; the *)
(* system calls inside it are the subject of SessionRuntime.               *)
(***************************************************************************)
EXTENDS Naturals, FiniteSets, SequencesExt

CONSTANTS Names, Servers, Clients, None

VARIABLES
    file,       \* file[n][k]: who made what NAME.k names, or None
    ws,         \* holder of the exclusive lock on NAME.workspace
    spc, name,  \* control of a server and the name it knows itself by
    lockOf,     \* the inode of its client lease, by its maker
    target, moves, moved, mixed,    \* a rename in progress, and how it ended
    saving,     \* the name its snapshot writer writes to
    peer,       \* the client it displays
    cpc, alias, fd, tgt     \* client: control, name given, lease, connection

rename == <<target, moves, moved, mixed>>
server == <<spc, name, lockOf, saving, peer>>
client == <<cpc, alias, fd, tgt>>
vars   == <<file, ws, rename, server, client>>

\* The order in which move_paths plans and perform moves.
Order     == <<"pid", "lock", "last", "save", "control", "toml", "sock">>
Artifacts == ToSet(Order)
Optional  == {"last", "toml"}
Dropped   == <<"control", "save", "lock", "pid", "last", "sock">>
Planning  == {"plan_" \o k : k \in Artifacts}
Dropping  == {"drop_" \o k : k \in Artifacts}
Nothing   == [k \in Artifacts |-> None]

TypeOK ==
    /\ file \in [Names -> [Artifacts -> Servers \cup Clients \cup {None}]]
    /\ ws \in [Names -> Servers \cup Clients \cup {None}]
    /\ spc \in [Servers -> {"unborn", "start", "bound", "run", "move",
                            "rollback", "dead"} \cup Planning \cup Dropping]
    /\ name \in [Servers -> Names \cup {None}]
    /\ lockOf \in [Servers -> Servers \cup Clients \cup {None}]
    /\ target \in [Servers -> Names \cup {None}]
    /\ moves \in [Servers -> SUBSET Artifacts]
    /\ \A s \in Servers : moved[s] \subseteq moves[s]
    /\ mixed \in [Servers -> BOOLEAN]
    /\ saving \in [Servers -> Names \cup {None}]
    /\ peer \in [Servers -> Clients \cup {None}]
    /\ cpc \in [Clients -> {"idle", "leased", "connected", "hello", "greeted",
                            "attached"}]
    /\ alias \in [Clients -> Names \cup {None}]
    /\ fd \in [Clients -> Servers \cup Clients \cup {None}]
    /\ tgt \in [Clients -> Servers \cup {None}]

Init ==
    /\ file = [n \in Names |-> Nothing]
    /\ ws = [n \in Names |-> None]
    /\ spc = [s \in Servers |-> "unborn"]
    /\ name = [s \in Servers |-> None]
    /\ lockOf = [s \in Servers |-> None]
    /\ target = [s \in Servers |-> None]
    /\ moves = [s \in Servers |-> {}]
    /\ moved = [s \in Servers |-> {}]
    /\ mixed = [s \in Servers |-> FALSE]
    /\ saving = [s \in Servers |-> None]
    /\ peer = [s \in Servers |-> None]
    /\ cpc = [c \in Clients |-> "idle"]
    /\ alias = [c \in Clients |-> None]
    /\ fd = [c \in Clients |-> None]
    /\ tgt = [c \in Clients |-> None]

Listening(s) == spc[s] \notin {"unborn", "dead"}
\* connect on NAME.sock succeeds.
Reachable(n) == file[n]["sock"] \in Servers /\ Listening(file[n]["sock"])
Go(s, label) == spc' = [spc EXCEPT ![s] = label]
\* What the kernel releases with a process.
Unlocked(p)  == [n \in Names |-> IF ws[n] = p THEN None ELSE ws[n]]

-----------------------------------------------------------------------------
(* Creation and the end of a server. *)

\* create_with_bootstrap: under the workspace lock a refused socket of that
\* name is unlinked, the endpoint is bound and its sidecars are opened or
\* created.  The saved workspace of the name, if any, becomes this session's.
Create(s, n) ==
    /\ spc[s] = "unborn" /\ ws[n] = None /\ ~Reachable(n)
    /\ LET lock == IF file[n]["lock"] = None THEN s ELSE file[n]["lock"] IN
       /\ file' = [file EXCEPT ![n] = [@ EXCEPT
             !["sock"] = s, !["pid"] = IF @ = None THEN s ELSE @,
             !["lock"] = lock, !["last"] = None,
             !["toml"] = IF @ = None THEN None ELSE s]]
       /\ lockOf' = [lockOf EXCEPT ![s] = lock]
    /\ Go(s, "start")
    /\ name' = [name EXCEPT ![s] = n]
    /\ UNCHANGED <<ws, rename, saving, peer, client>>

\* bind_in fails after the sidecars: only the socket is removed again.
CreateFails(s, n) ==
    /\ spc[s] = "unborn" /\ ws[n] = None /\ ~Reachable(n)
    /\ file' = [file EXCEPT ![n] = [@ EXCEPT
          !["sock"] = None, !["pid"] = IF @ = None THEN s ELSE @,
          !["lock"] = IF @ = None THEN s ELSE @]]
    /\ Go(s, "dead")
    /\ UNCHANGED <<ws, rename, name, lockOf, saving, peer, client>>

\* The forked server locks the pid record, or ends if a server holds it (one
\* that an incomplete rollback left there).  It takes a stale save socket of its
\* name away and binds its own, then does the same for control.  The workspace
\* lock is free again.
PidIsLocked(s) == LET p == file[name[s]]["pid"]
                  IN  p \in Servers \ {s} /\ Listening(p)

PidRefused(s) ==
    /\ spc[s] = "start" /\ PidIsLocked(s)
    /\ Go(s, "drop_lock")
    /\ UNCHANGED <<file, ws, rename, name, lockOf, saving, peer, client>>

BindSave(s) ==
    /\ spc[s] = "start" /\ ~PidIsLocked(s)
    /\ file' = [file EXCEPT ![name[s]]["pid"] = s, ![name[s]]["save"] = s]
    /\ Go(s, "bound")
    /\ UNCHANGED <<ws, rename, name, lockOf, saving, peer, client>>

BindControl(s) ==
    /\ spc[s] = "bound"
    /\ file' = [file EXCEPT ![name[s]]["control"] = s]
    /\ Go(s, "run")
    /\ UNCHANGED <<ws, rename, name, lockOf, saving, peer, client>>

\* Drop, from the services to the endpoint: each unlinks by the current name.
\* Dropping the snapshot service waits for its writer.  The endpoint's files
\* go only while NAME.sock is still its own.
Kept(s, k) == IF k \in {"control", "save"} THEN file[name[s]][k] # s
              ELSE file[name[s]]["sock"] # s
AfterDrop(k) ==
    LET i == CHOOSE j \in DOMAIN Dropped : Dropped[j] = k
    IN  IF i = Len(Dropped) THEN "dead" ELSE "drop_" \o Dropped[i + 1]

BeginDrop(s) ==
    /\ spc[s] = "run" /\ saving[s] = None
    /\ Go(s, "drop_control")
    /\ UNCHANGED <<file, ws, rename, name, lockOf, saving, peer, client>>

DropFile(s) ==
    \E k \in Artifacts :
        /\ spc[s] = "drop_" \o k
        /\ file' = IF Kept(s, k) THEN file
                   ELSE [file EXCEPT ![name[s]][k] = None]
        /\ Go(s, AfterDrop(k))
        /\ peer' = IF k = "sock" THEN [peer EXCEPT ![s] = None] ELSE peer
        /\ UNCHANGED <<ws, rename, name, lockOf, saving, client>>

Crash(s) ==
    /\ Listening(s)
    /\ Go(s, "dead")
    /\ ws' = Unlocked(s)
    /\ saving' = [saving EXCEPT ![s] = None]
    /\ peer' = [peer EXCEPT ![s] = None]
    /\ moves' = [moves EXCEPT ![s] = {}]
    /\ moved' = [moved EXCEPT ![s] = {}]
    /\ target' = [target EXCEPT ![s] = None]
    /\ UNCHANGED <<file, mixed, name, lockOf, client>>

\* The writer thread saves under the name it was started with.
StartSave(s) ==
    /\ spc[s] = "run" /\ saving[s] = None
    /\ saving' = [saving EXCEPT ![s] = name[s]]
    /\ UNCHANGED <<file, ws, rename, spc, name, lockOf, peer, client>>

WriteSnapshot(s) ==
    /\ saving[s] # None
    /\ \/ file' = [file EXCEPT ![saving[s]]["toml"] = s]
       \/ file' = file      \* the write fails
    /\ saving' = [saving EXCEPT ![s] = None]
    /\ UNCHANGED <<ws, rename, spc, name, lockOf, peer, client>>

-----------------------------------------------------------------------------
(* Identity::rename. *)

\* Mutant: the snapshot writer is not asked.
BeginRenameSaving(s, n) ==
    /\ spc[s] = "run" /\ n # name[s]
    /\ ws[name[s]] = None /\ ws[n] = None
    /\ file[name[s]]["sock"] = s
    /\ ws' = [ws EXCEPT ![name[s]] = s, ![n] = s]
    /\ target' = [target EXCEPT ![s] = n]
    /\ Go(s, "plan_" \o Order[1])
    /\ UNCHANGED <<file, moves, moved, mixed, name, lockOf, saving, peer, client>>

\* Both workspace locks, the inode of the own socket, no unfinished save.
BeginRename(s, n) ==
    /\ spc[s] = "run" /\ n # name[s]
    /\ ws[name[s]] = None /\ ws[n] = None
    /\ file[name[s]]["sock"] = s
    /\ saving[s] = None
    /\ ws' = [ws EXCEPT ![name[s]] = s, ![n] = s]
    /\ target' = [target EXCEPT ![s] = n]
    /\ Go(s, "plan_" \o Order[1])
    /\ UNCHANGED <<file, moves, moved, mixed, name, lockOf, saving, peer, client>>

\* The reply has been decided: both locks are released.
EndRename(s) ==
    /\ Go(s, "run")
    /\ ws' = Unlocked(s)
    /\ target' = [target EXCEPT ![s] = None]
    /\ moves' = [moves EXCEPT ![s] = {}]
    /\ moved' = [moved EXCEPT ![s] = {}]

AfterPlan(k) ==
    LET i == CHOOSE j \in DOMAIN Order : Order[j] = k
    IN  IF i = Len(Order) THEN "move" ELSE "plan_" \o Order[i + 1]

\* plan: the destination must be free and the source present or optional.
Plan(s) ==
    \E k \in Artifacts :
        LET old == file[name[s]][k] IN
        /\ spc[s] = "plan_" \o k
        /\ IF file[target[s]][k] # None \/ (old = None /\ k \notin Optional)
           THEN EndRename(s)
           ELSE /\ moves' = [moves EXCEPT ![s] =
                                IF old = None THEN @ ELSE @ \cup {k}]
                /\ Go(s, AfterPlan(k))
                /\ UNCHANGED <<ws, target, moved>>
        /\ UNCHANGED <<file, mixed, name, lockOf, saving, peer, client>>

Next_(s)  == CHOOSE k \in moves[s] \ moved[s] :
                \A j \in DOMAIN Order : \A i \in 1..j :
                    Order[j] = k => Order[i] \notin (moves[s] \ moved[s]) \ {k}
Last_(s)  == CHOOSE k \in moved[s] :
                \A i \in DOMAIN Order : \A j \in i..Len(Order) :
                    Order[i] = k => Order[j] \notin moved[s] \ {k}
\* renameat2 with RENAME_NOREPLACE.
MoveFile(from, to, k) ==
    /\ file[from][k] # None /\ file[to][k] = None
    /\ file' = [file EXCEPT ![from][k] = None, ![to][k] = file[from][k]]

\* perform: the next move; when all are done the directories are synced, the
\* name is published and the locks are released.  Any call may fail.
Move(s) ==
    /\ spc[s] = "move" /\ moved[s] # moves[s]
    /\ MoveFile(name[s], target[s], Next_(s))
    /\ moved' = [moved EXCEPT ![s] = @ \cup {Next_(s)}]
    /\ UNCHANGED <<ws, target, moves, mixed, server, client>>

Publish(s) ==
    /\ spc[s] = "move" /\ moved[s] = moves[s]
    /\ name' = [name EXCEPT ![s] = target[s]]
    /\ EndRename(s)
    /\ UNCHANGED <<file, mixed, lockOf, saving, peer, client>>

MoveFails(s) ==
    /\ spc[s] = "move"
    /\ Go(s, "rollback")
    /\ UNCHANGED <<file, ws, rename, name, lockOf, saving, peer, client>>

\* Completed moves are taken back in reverse order; the first one that cannot
\* be ends the rollback and is reported ("rollback failed").
RollBack(s) ==
    /\ spc[s] = "rollback" /\ moved[s] # {}
    /\ MoveFile(target[s], name[s], Last_(s))
    /\ moved' = [moved EXCEPT ![s] = @ \ {Last_(s)}]
    /\ UNCHANGED <<ws, target, moves, mixed, server, client>>

RollBackEnds(s) ==
    /\ spc[s] = "rollback"
    /\ mixed' = [mixed EXCEPT ![s] = @ \/ moved[s] # {}]
    /\ EndRename(s)
    /\ UNCHANGED <<file, name, lockOf, saving, peer, client>>

-----------------------------------------------------------------------------
(* Commands on the same names. *)

\* acquire_client, under the workspace lock: the lease is the lock file the
\* name has now.  A missing one is created.
Lease(c, n) ==
    /\ cpc[c] = "idle" /\ ws[n] = None /\ file[n]["sock"] # None
    /\ LET lock == IF file[n]["lock"] = None THEN c ELSE file[n]["lock"] IN
       /\ \A d \in Clients : fd[d] # lock
       /\ file' = [file EXCEPT ![n]["lock"] = lock]
       /\ fd' = [fd EXCEPT ![c] = lock]
    /\ alias' = [alias EXCEPT ![c] = n]
    /\ cpc' = [cpc EXCEPT ![c] = "leased"]
    /\ UNCHANGED <<ws, rename, server, tgt>>

\* connect(name), when the lock is free again.
Connect(c) ==
    /\ cpc[c] = "leased" /\ Reachable(alias[c])
    /\ tgt' = [tgt EXCEPT ![c] = file[alias[c]]["sock"]]
    /\ cpc' = [cpc EXCEPT ![c] = "connected"]
    /\ UNCHANGED <<file, ws, rename, server, alias, fd>>

\* client::run takes the workspace lock of the name it was given again, for
\* the handshake and the connection record.
Rejoin(c) ==
    /\ cpc[c] = "connected" /\ ws[alias[c]] = None
    /\ ws' = [ws EXCEPT ![alias[c]] = c]
    /\ cpc' = [cpc EXCEPT ![c] = "hello"]
    /\ UNCHANGED <<file, rename, server, alias, fd, tgt>>

\* The server that was connected to accepts, between two requests.
Greet(c) ==
    /\ cpc[c] = "hello" /\ spc[tgt[c]] = "run" /\ peer[tgt[c]] = None
    /\ peer' = [peer EXCEPT ![tgt[c]] = c]
    /\ cpc' = [cpc EXCEPT ![c] = "greeted"]
    /\ UNCHANGED <<file, ws, rename, spc, name, lockOf, saving, alias, fd, tgt>>

Record(c) ==
    /\ cpc[c] = "greeted" /\ file[alias[c]]["sock"] # None
    /\ file' = [file EXCEPT ![alias[c]]["last"] = tgt[c]]
    /\ ws' = Unlocked(c)
    /\ cpc' = [cpc EXCEPT ![c] = "attached"]
    /\ UNCHANGED <<rename, server, alias, fd, tgt>>

\* A detach, an error, a timeout or a signal: the kernel releases everything.
Leave(c) ==
    /\ cpc[c] # "idle"
    /\ ws' = Unlocked(c)
    /\ peer' = [s \in Servers |-> IF peer[s] = c THEN None ELSE peer[s]]
    /\ cpc' = [cpc EXCEPT ![c] = "idle"]
    /\ alias' = [alias EXCEPT ![c] = None]
    /\ fd' = [fd EXCEPT ![c] = None]
    /\ tgt' = [tgt EXCEPT ![c] = None]
    /\ UNCHANGED <<file, rename, spc, name, lockOf, saving>>

\* delete_saved and rename_saved refuse every name that has a socket.
DeleteSaved(n) ==
    /\ ws[n] = None /\ file[n]["sock"] = None /\ file[n]["toml"] # None
    /\ file' = [file EXCEPT ![n]["toml"] = None]
    /\ UNCHANGED <<ws, rename, server, client>>

RenameSaved(n, to) ==
    /\ ws[n] = None /\ ws[to] = None
    /\ file[n]["sock"] = None /\ file[to]["sock"] = None
    /\ MoveFile(n, to, "toml")
    /\ UNCHANGED <<ws, rename, server, client>>

-----------------------------------------------------------------------------
ServerNext(s) ==
    \/ \E n \in Names : Create(s, n) \/ CreateFails(s, n) \/ BeginRename(s, n)
    \/ PidRefused(s) \/ BindSave(s) \/ BindControl(s) \/ StartSave(s) \/ WriteSnapshot(s)
    \/ Plan(s) \/ Move(s) \/ Publish(s) \/ MoveFails(s)
    \/ RollBack(s) \/ RollBackEnds(s)
    \/ BeginDrop(s) \/ DropFile(s) \/ Crash(s)

ClientNext(c) ==
    \/ \E n \in Names : Lease(c, n)
    \/ Connect(c) \/ Rejoin(c) \/ Greet(c) \/ Record(c) \/ Leave(c)

Next ==
    \/ \E s \in Servers : ServerNext(s)
    \/ \E c \in Clients : ClientNext(c)
    \/ \E n \in Names : DeleteSaved(n) \/ \E to \in Names : RenameSaved(n, to)

Spec == Init /\ [][Next]_vars

-----------------------------------------------------------------------------
\* No rollback has failed: after one, files of two servers share a name.
Intact == \A s \in Servers : ~mixed[s]

\* Between two requests a server finds all that belongs to it under the name
\* it knows itself by, and nothing of it is under another name: a rename, with
\* its rollback, is all or nothing unless it reports a failed rollback.
FilesFollowName ==
    \A s \in Servers : spc[s] = "run" /\ Intact =>
        /\ \A k \in {"pid", "save", "control", "sock"}, n \in Names :
              (file[n][k] = s) <=> (n = name[s])
        /\ file[name[s]]["lock"] = lockOf[s]
        /\ \A n \in Names \ {name[s]} : file[n]["toml"] # s

\* No step of anybody else removes, moves or replaces a file of a server that
\* is serving: neither another rename nor a cleanup under a reused name.
LiveFilesKept ==
    \A s \in Servers :
        spc[s] = "run" /\ Intact /\ UNCHANGED <<spc[s], name[s], saving[s]>> =>
            \A n \in Names :
                /\ \A k \in Artifacts \ {"last", "lock"} :
                      file[n][k] = s => file'[n][k] = s
                /\ n = name[s] /\ file[n]["lock"] = lockOf[s]
                     => file'[n]["lock"] = lockOf[s]

=============================================================================
